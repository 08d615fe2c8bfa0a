------------------------------- MODULE Triage -------------------------------
(***************************************************************************)
(* Knowledge extracted from a closed ticket: the night job reads pending   *)
(* tickets, lets a model propose entities, and stores the proposals        *)
(* (scripts/ticket_extract.py); operators apply or reject them one by one, *)
(* and the last decision marks the ticket done                             *)
(* (services/proposal_service.py).  One ticket; a step is one statement.   *)
(***************************************************************************)
EXTENDS Integers, FiniteSets

CONSTANTS
    Proposals,      \* rows a job may insert for the ticket
    Jobs,           \* extraction runs
    Reviewers       \* requests that apply or reject one proposal

Unset == "none"

VARIABLES
    extraction,     \* extraction_status of the ticket
    proposal,       \* [Proposals -> status and the job that wrote it]
    job,            \* [Jobs -> how far the run is]
    request,        \* [Reviewers -> the transaction in progress]
    ticketLock            \* holder of the ticket row, or Unset

triageVars == <<extraction, proposal, job, request, ticketLock>>

\* Rows, runs and requests are told apart, and a run drafts finitely many.
ASSUME TriageAssumption ==
    /\ IsFiniteSet(Proposals)
    /\ Jobs \cap Reviewers = {}
    /\ Unset \notin Proposals \cup Jobs \cup Reviewers

NoRequest == [at |-> "idle", k |-> Unset, to |-> Unset, left |-> 0]

\* The ticket, its proposals and the transactions keep their shapes.
TriageTypeOK ==
    /\ extraction \in {Unset, "pending", "proposed", "skipped", "done"}
    /\ proposal \in [Proposals -> [status : {"absent", "proposed", "applied", "rejected"}, by : Jobs \cup {Unset}]]
    /\ job \in [Jobs -> {"idle", "drafting", "claimed", "over"}]
    /\ request \in [Reviewers -> [at : {"idle", "loaded", "decided", "locked", "counted"},
                                  k : Proposals \cup {Unset}, to : {Unset, "applied", "rejected"},
                                  left : 0 .. Cardinality(Proposals)]]
    /\ ticketLock \in Jobs \cup Reviewers \cup {Unset}

TriageInit ==
    /\ extraction = Unset
    /\ proposal = [k \in Proposals |-> [status |-> "absent", by |-> Unset]]
    /\ job = [j \in Jobs |-> "idle"]
    /\ request = [o \in Reviewers |-> NoRequest]
    /\ ticketLock = Unset

\* Closing the ticket opens it to extraction; a closed ticket stays closed.
Close ==
    /\ extraction = Unset /\ ticketLock = Unset
    /\ extraction' = "pending"
    /\ UNCHANGED <<proposal, job, request, ticketLock>>

(***************************************************************************)
(* The job                                                                 *)
(***************************************************************************)
FetchPending(j) ==
    /\ job[j] = "idle" /\ extraction = "pending"
    /\ job' = [job EXCEPT ![j] = "drafting"]
    /\ UNCHANGED <<extraction, proposal, request, ticketLock>>

StillPending == extraction = "pending"

\* persist_proposals: the draft took minutes, so the status is read again
\* under the lock of the ticket.
ClaimTicket(j) ==
    /\ job[j] = "drafting" /\ ticketLock = Unset
    /\ IF StillPending THEN ticketLock' = j /\ job' = [job EXCEPT ![j] = "claimed"]
                       ELSE job' = [job EXCEPT ![j] = "over"] /\ UNCHANGED ticketLock
    /\ UNCHANGED <<extraction, proposal, request>>

Undrafted == {k \in Proposals : proposal[k].status = "absent"}

Persist(j) ==
    /\ job[j] = "claimed"
    /\ \E drafts \in SUBSET Undrafted :
          /\ proposal' = [k \in Proposals |-> IF k \in drafts THEN [status |-> "proposed", by |-> j]
                                              ELSE proposal[k]]
          /\ extraction' = IF drafts = {} THEN "skipped" ELSE "proposed"
    /\ job' = [job EXCEPT ![j] = "over"]
    /\ ticketLock' = Unset
    /\ UNCHANGED request

\* The model fails, the run is out of time, or its transaction fails; a
\* later run starts over.
JobFails(j) ==
    /\ job[j] \in {"drafting", "claimed"}
    /\ job' = [job EXCEPT ![j] = "over"]
    /\ ticketLock' = IF ticketLock = j THEN Unset ELSE ticketLock
    /\ UNCHANGED <<extraction, proposal, request>>

(***************************************************************************)
(* apply_ticket_extraction and reject_ticket_extraction                    *)
(***************************************************************************)
InHand(k) == \E o \in Reviewers : request[o].k = k

\* The proposal is locked; one that is not "proposed" any more is refused.
LoadProposed(o, k) ==
    /\ request[o] = NoRequest
    /\ proposal[k].status = "proposed" /\ ~InHand(k)
    /\ \E to \in {"applied", "rejected"} :
          request' = [request EXCEPT ![o] = [NoRequest EXCEPT !.at = "loaded", !.k = k, !.to = to]]
    /\ UNCHANGED <<extraction, proposal, job, ticketLock>>

\* An applied proposal also creates its entity, in the same transaction.
Decide(o) ==
    /\ request[o].at = "loaded"
    /\ request' = [request EXCEPT ![o].at = "decided"]
    /\ UNCHANGED <<extraction, proposal, job, ticketLock>>

LockTicketNot(o) ==
    /\ request[o].at = "decided"
    /\ request' = [request EXCEPT ![o].at = "locked"]
    /\ UNCHANGED <<extraction, proposal, job, ticketLock>>

LockTicket(o) ==
    /\ request[o].at = "decided" /\ ticketLock = Unset
    /\ ticketLock' = o
    /\ request' = [request EXCEPT ![o].at = "locked"]
    /\ UNCHANGED <<extraction, proposal, job>>

Remaining(o) == {k \in Proposals \ {request[o].k} : proposal[k].status = "proposed"}

CountRemaining(o) ==
    /\ request[o].at = "locked"
    /\ request' = [request EXCEPT ![o].at = "counted", ![o].left = Cardinality(Remaining(o))]
    /\ UNCHANGED <<extraction, proposal, job, ticketLock>>

CommitDecision(o) ==
    /\ request[o].at = "counted"
    /\ proposal' = [proposal EXCEPT ![request[o].k].status = request[o].to]
    /\ extraction' = IF request[o].left = 0 THEN "done" ELSE extraction
    /\ request' = [request EXCEPT ![o] = NoRequest]
    /\ ticketLock' = IF ticketLock = o THEN Unset ELSE ticketLock
    /\ UNCHANGED job

RequestFails(o) ==
    /\ request[o] # NoRequest
    /\ request' = [request EXCEPT ![o] = NoRequest]
    /\ ticketLock' = IF ticketLock = o THEN Unset ELSE ticketLock
    /\ UNCHANGED <<extraction, proposal, job>>

TriageNext ==
    \/ Close
    \/ \E j \in Jobs : FetchPending(j) \/ ClaimTicket(j) \/ Persist(j) \/ JobFails(j)
    \/ \E o \in Reviewers : \/ Decide(o) \/ LockTicket(o) \/ CountRemaining(o) \/ CommitDecision(o)
                            \/ RequestFails(o)
                            \/ \E k \in Proposals : LoadProposed(o, k)

TriageSpec == TriageInit /\ [][TriageNext]_triageVars

(***************************************************************************)
(* Properties                                                              *)
(***************************************************************************)
\* A ticket waits for triage exactly while it has an undecided proposal:
\* two decisions on its last two proposals never both leave it to the
\* other, and none marks it done early.  Two runs that both read the ticket
\* as pending never both store their proposals.
DoneWhenTriaged ==
    LET undecided == \E k \in Proposals : proposal[k].status = "proposed"
    IN  /\ extraction = "proposed" <=> undecided
        /\ \A k, l \in Proposals \ Undrafted : proposal[k].by = proposal[l].by
=============================================================================
