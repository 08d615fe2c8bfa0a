------------------------------ MODULE Delivery ------------------------------
(***************************************************************************)
(* Observable delivery: a requester attaches a contract to a ticket, the   *)
(* executor binds a pull request to each deliverable, an observer polls    *)
(* the forge and publishes what it saw, and PostgreSQL issues immutable    *)
(* receipts that decide whether the ticket may be completed.               *)
(*                                                                         *)
(* A generation is a contract revision and an attempt: amending starts a   *)
(* new revision, reopening a new attempt.  What makes the system hard is   *)
(* that everything else outlives a generation: a collection under way, a   *)
(* claim an agent holds, a binding, a receipt, another ticket's            *)
(* dependency.                                                             *)
(*                                                                         *)
(* A step is one transaction under the decision locks (lock_workflows,     *)
(* lock_decision_scope), one request to the forge, or one change there.    *)
(*                                                                         *)
(* Abstractions.  Times: evidence is fresh or not, a subject is due or     *)
(* not, a claim is live or not.  Row versions and due times are only ever  *)
(* compared with the value a job captured: a job knows whether they are    *)
(* still the same.  The expected_* arguments of a call are compared with   *)
(* the row under its lock and a call that does not match changes nothing,  *)
(* so only matching calls are actions; an idempotent replay also changes   *)
(* nothing.  Checks, reviews and drafts are one bit: green.  Only request  *)
(* tickets, and only with the feature enabled.                             *)
(***************************************************************************)
EXTENDS Integers, FiniteSets

CONSTANTS
    Tickets,      \* request tickets
    Self,         \* those with the same requester and executor
    Keys,         \* deliverable keys
    PRs,          \* pull requests of the forge
    BindIds,      \* delivery_artifact_bindings ids
    Agents,       \* owner keys of work claims
    Observers,    \* observer processes
    Offers,       \* contract terms: keys, mode, ctx, ups
    Watched,      \* bound: tickets that somebody refreshes
    None,         \* SQL NULL
    MaxRev,       \* bound: contract revisions of a ticket
    MaxAttempt,   \* bound: attempts of a ticket
    MaxHead,      \* bound: heads of a pull request
    MaxClaims,    \* bound: claim epochs reached by acquiring
    MaxFaults     \* bound: stale evidence, failed collections, lost backends,
                  \* approvals withdrawn

Milestones == {"integration", "fulfilled"}

ASSUME DeliveryAssumption ==
    /\ Self \subseteq Tickets /\ Watched \subseteq Tickets
    /\ Offers \subseteq [keys : (SUBSET Keys) \ {{}}, mode : {"automatic", "explicit"},
                         ctx : BOOLEAN, ups : SUBSET (Tickets \X Milestones)]
    /\ MaxRev \in Nat /\ MaxAttempt \in Nat /\ MaxHead \in Nat
    /\ MaxClaims \in Nat /\ MaxFaults \in Nat
    /\ None \notin Tickets \cup PRs \cup Agents \cup Observers \cup BindIds
    /\ Tickets \cap BindIds = {}

VARIABLES
    status,     \* tickets.status
    wf,         \* delivery_workflows; revision 0: no contract
    contracts,  \* delivery_contract_revisions and delivery_dependencies
    rows,       \* delivery_artifact_bindings with their latest evidence
    receipts,   \* delivery_receipts
    token,      \* the last claim each agent was given, and for what
    prs,        \* the pull requests at the forge
    lock,       \* holder of the observer's advisory lock
    obs,        \* observer processes and their jobs in flight
    asked,      \* refreshes that no job has picked up yet (history)
    faults      \* faults left

obsVars == <<lock, obs>>
vars == <<status, wf, contracts, rows, receipts, token, prs, lock, obs, asked, faults>>

Statuses     == {"open", "in_progress", "resolved", "wontfix", "closed"}
Dispositions == {"active", "fulfilled", "cancelled", "wontfix"}
Revs         == 1..MaxRev
Subjects     == BindIds \cup Tickets

NoEvidence == [head |-> 0, merged |-> FALSE, green |-> FALSE]
Evidence   == [head : Nat, merged : BOOLEAN, green : BOOLEAN]
Dependency == [t : Tickets, rev : Nat, att : Nat, ms : Milestones]
Contract   == [keys : SUBSET Keys, mode : {"automatic", "explicit"}, ctx : BOOLEAN,
               deps : SUBSET Dependency]
NoContract == [keys |-> {}, mode |-> "explicit", ctx |-> FALSE, deps |-> {}]
Workflow   == [rev : Nat, att : Nat, disp : Dispositions,
               owner : Agents \cup {None}, epoch : Nat, live : BOOLEAN,
               ctxOk : BOOLEAN, ctxErr : BOOLEAN, ctxFresh : BOOLEAN, ctxDue : BOOLEAN]
NoWorkflow == [rev |-> 0, att |-> 0, disp |-> "active", owner |-> None, epoch |-> 0,
               live |-> FALSE, ctxOk |-> FALSE, ctxErr |-> FALSE, ctxFresh |-> FALSE,
               ctxDue |-> FALSE]
Binding    == [t : Tickets \cup {None}, rev : Nat, att : Nat, key : Keys \cup {None},
               pr : PRs \cup {None}, active : BOOLEAN, ev : Evidence,
               err : BOOLEAN, fresh : BOOLEAN, due : BOOLEAN]
NoBinding  == [t |-> None, rev |-> 0, att |-> 0, key |-> None, pr |-> None,
               active |-> FALSE, ev |-> NoEvidence, err |-> FALSE, fresh |-> FALSE,
               due |-> FALSE]
Proof      == [id : BindIds, head : Nat, merged : BOOLEAN]
Receipt    == [t : Tickets, rev : Nat, att : Nat, ms : Milestones, digest : SUBSET Proof]
Token      == [t : Tickets, epoch : Nat, rev : Nat, att : Nat]
Job        == [sub : Subjects, t : Tickets, rev : Nat, att : Nat, same : BOOLEAN,
               sameDue : BOOLEAN, got : {"no", "ok", "error"}, ev : Evidence]
Observer   == [st : {"new", "owned", "lost", "released"}, conn : BOOLEAN, jobs : SUBSET Job]

(* Every row has its columns' types and a receipt names a generation.      *)
TypeOK ==
    /\ status \in [Tickets -> Statuses]
    /\ wf \in [Tickets -> Workflow]
    /\ contracts \in [Tickets -> [Revs -> Contract]]
    /\ rows \in [BindIds -> Binding]
    /\ receipts \subseteq Receipt
    /\ token \in [Agents -> Token \cup {None}]
    /\ prs \in [PRs -> Evidence]
    /\ lock \in Observers \cup {None}
    /\ obs \in [Observers -> Observer]
    /\ asked \in [Subjects -> BOOLEAN]
    /\ faults \in 0..MaxFaults

Init ==
    /\ status = [t \in Tickets |-> "open"]
    /\ wf = [t \in Tickets |-> NoWorkflow]
    /\ contracts = [t \in Tickets |-> [r \in Revs |-> NoContract]]
    /\ rows = [i \in BindIds |-> NoBinding]
    /\ receipts = {}
    /\ token = [a \in Agents |-> None]
    /\ prs = [p \in PRs |-> [head |-> 1, merged |-> FALSE, green |-> FALSE]]
    /\ lock = None
    /\ obs = [o \in Observers |-> [st |-> "new", conn |-> FALSE, jobs |-> {}]]
    /\ asked = [s \in Subjects |-> FALSE]
    /\ faults = MaxFaults
-----------------------------------------------------------------------------
(* The evaluator (evaluate_delivery), over the bindings R and workflows W  *)
(* that the transaction is about to commit.                                *)

Terms(W, t) == contracts[t][W[t].rev]

\* The active bindings of the current generation.
Bound(R, W, t) == {i \in BindIds : /\ R[i].t = t
                                   /\ R[i].rev = W[t].rev
                                   /\ R[i].att = W[t].att
                                   /\ R[i].active}

Digest(R, W, t) == {[id |-> i, head |-> R[i].ev.head, merged |-> R[i].ev.merged] :
                    i \in Bound(R, W, t)}

ReceiptOf(R, W, t, ms) == [t |-> t, rev |-> W[t].rev, att |-> W[t].att, ms |-> ms,
                           digest |-> Digest(R, W, t)]
Has(R, W, t, ms) == ReceiptOf(R, W, t, ms) \in receipts

Missing(R, W, t) == \E k \in Terms(W, t).keys :
                       \A i \in Bound(R, W, t) : R[i].key # k
AllGreen(R, W, t) == \A i \in Bound(R, W, t) : R[i].ev.green
\* Mutant: one merged pull request is enough.
AnyMerged(R, W, t) == \E i \in Bound(R, W, t) : R[i].ev.merged
AllMerged(R, W, t) == \A i \in Bound(R, W, t) : R[i].ev.merged

ContextMet(W, t) == Terms(W, t).ctx => W[t].ctxOk /\ ~W[t].ctxErr

\* Mutant: does not compare the pinned generation with the current one.
DependencyMetUnpinned(R, W, d) ==
    W[d.t].disp \notin {"cancelled", "wontfix"} /\ Has(R, W, d.t, d.ms)
DependencyMet(R, W, d) ==
    /\ W[d.t].disp \notin {"cancelled", "wontfix"}
    /\ W[d.t].rev = d.rev
    /\ W[d.t].att = d.att
    /\ Has(R, W, d.t, d.ms)
DependenciesMet(R, W, t) == \A d \in Terms(W, t).deps : DependencyMet(R, W, d)

\* Health "fresh": every observation succeeded last time and is recent.
Fresh(R, W, t) ==
    /\ \A i \in Bound(R, W, t) : R[i].fresh /\ ~R[i].err
    /\ Terms(W, t).ctx => W[t].ctxOk /\ ~W[t].ctxErr /\ W[t].ctxFresh

\* No delivery_terminal, delivery_disposition_terminal or reopen_required.
Underway(R, W, t) ==
    /\ W[t].disp = "active"
    /\ status[t] \notin {"wontfix", "closed"}
    /\ status[t] = "resolved" => Has(R, W, t, "integration")

\* requirements_satisfied in stage "integrated".
Satisfied(R, W, t) ==
    /\ ~Missing(R, W, t) /\ AllGreen(R, W, t) /\ AllMerged(R, W, t)
    /\ Fresh(R, W, t)
    /\ ContextMet(W, t)
    /\ DependenciesMet(R, W, t)
    /\ Underway(R, W, t)

\* _eligible_work: implement, review, repair, integrate or accept.
HasWork(t) ==
    /\ ContextMet(wf, t) /\ DependenciesMet(rows, wf, t)
    /\ Fresh(rows, wf, t) /\ Underway(rows, wf, t)
    /\ \/ Missing(rows, wf, t)
       \/ ~AllGreen(rows, wf, t)
       \/ ~AllMerged(rows, wf, t)
       \/ /\ Has(rows, wf, t, "integration")
          /\ Terms(wf, t).mode = "explicit"
          /\ ~Has(rows, wf, t, "fulfilled")

\* _issue_integration_receipt_under_scope.
Issued(R, W, t) ==
    IF ~Satisfied(R, W, t) \/ Has(R, W, t, "integration") THEN {}
    ELSE {ReceiptOf(R, W, t, "integration")} \cup
         (IF Terms(W, t).mode = "automatic" THEN {ReceiptOf(R, W, t, "fulfilled")} ELSE {})
-----------------------------------------------------------------------------
(* Contracts, bindings and claims.                                         *)

NoClaim(w) == [w EXCEPT !.owner = None, !.live = FALSE, !.epoch = @ + 1]
NoContext(w) == [w EXCEPT !.ctxOk = FALSE, !.ctxErr = FALSE, !.ctxFresh = FALSE,
                          !.ctxDue = TRUE]

\* The row versions of the subjects S moved on; the due times of D changed.
Moved(S, D) == [o \in Observers |-> [obs[o] EXCEPT !.jobs =
    {[j EXCEPT !.same = j.same /\ j.sub \notin S,
               !.sameDue = j.sameDue /\ j.sub \notin D] : j \in obs[o].jobs}]]

Upstreams(t) == IF wf[t].rev = 0 THEN {} ELSE {d.t : d \in contracts[t][wf[t].rev].deps}

\* What the frontier walk of _validate_dependencies visits from the tickets S:
\* the least set that holds S and, with a ticket, the ones it depends on.
Reached(S) ==
    {u \in Tickets : \A C \in SUBSET Tickets :
        (S \subseteq C /\ \A v \in C : Upstreams(v) \subseteq C) => u \in C}

\* Mutant: looks one contract ahead only.
ValidNeighbours(t, S) ==
    /\ \A u \in S : wf[u].rev > 0
    /\ t \notin S \cup UNION {Upstreams(u) : u \in S}
ValidUpstreams(t, S) == (\A u \in S : wf[u].rev > 0) /\ t \notin Reached(S)

\* Mutant: an amendment leaves the claim alone.
AmendedClaimed(w) == IF w.rev = 0
                     THEN [NoWorkflow EXCEPT !.rev = 1, !.att = 1, !.ctxDue = TRUE]
                     ELSE NoContext([w EXCEPT !.rev = @ + 1])
\* The first revision creates the workflow, a later one resets it.
Amended(w) == IF w.rev = 0
              THEN [NoWorkflow EXCEPT !.rev = 1, !.att = 1, !.ctxDue = TRUE]
              ELSE NoContext(NoClaim([w EXCEPT !.rev = @ + 1]))

SetContract(t, offer) ==
    LET ups == {u[1] : u \in offer.ups} IN
    /\ status[t] # "closed"
    /\ wf[t].rev = 0 => status[t] \in {"open", "in_progress"}
    /\ wf[t].rev < MaxRev
    /\ ValidUpstreams(t, ups)
    /\ wf' = [wf EXCEPT ![t] = Amended(@)]
    /\ contracts' = [contracts EXCEPT ![t][wf[t].rev + 1] =
          [keys |-> offer.keys, mode |-> offer.mode, ctx |-> offer.ctx,
           deps |-> {[t |-> u[1], rev |-> wf[u[1]].rev, att |-> wf[u[1]].att, ms |-> u[2]] :
                     u \in offer.ups}]]
    /\ obs' = Moved({t}, {t})
    /\ UNCHANGED <<status, rows, receipts, token, prs, lock, asked, faults>>

\* The binding that i replaces, if any.
Replaced(t, k) == {i \in Bound(rows, wf, t) : rows[i].key = k}

\* Mutant: no look at the ticket.
BindableAlways(t) == wf[t].rev > 0
\* A resolved ticket still takes a pull request; reopening is for later.
Bindable(t) == wf[t].rev > 0 /\ status[t] \notin {"wontfix", "closed"}

BindPr(t, k, p, i) ==
    /\ Bindable(t)
    /\ k \in Terms(wf, t).keys
    /\ rows[i] = NoBinding
    /\ rows' = [b \in BindIds |->
          IF b = i THEN [NoBinding EXCEPT !.t = t, !.rev = wf[t].rev, !.att = wf[t].att,
                                          !.key = k, !.pr = p, !.active = TRUE, !.due = TRUE]
          ELSE IF b \in Replaced(t, k) THEN [rows[b] EXCEPT !.active = FALSE]
          ELSE rows[b]]
    /\ wf' = IF Replaced(t, k) = {} THEN wf ELSE [wf EXCEPT ![t] = NoClaim(@)]
    /\ obs' = Moved(Replaced(t, k), {})
    /\ UNCHANGED <<status, contracts, receipts, token, prs, lock, asked, faults>>

\* refresh: also of bindings that an amendment left behind.
Refresh(t) ==
    LET S == {t} \cup {i \in BindIds : rows[i].t = t /\ rows[i].active} IN
    /\ t \in Watched
    /\ wf[t].rev > 0
    /\ wf' = [wf EXCEPT ![t].ctxDue = TRUE]
    /\ rows' = [i \in BindIds |-> IF i \in S THEN [rows[i] EXCEPT !.due = TRUE] ELSE rows[i]]
    /\ obs' = Moved({}, S)
    /\ asked' = [s \in Subjects |-> asked[s] \/ s \in S]
    /\ UNCHANGED <<status, contracts, receipts, token, prs, lock, faults>>

AcquireClaim(a, t) ==
    /\ wf[t].rev > 0
    /\ wf[t].epoch < MaxClaims
    /\ ~wf[t].live
    /\ HasWork(t)
    /\ wf' = [wf EXCEPT ![t] = [wf[t] EXCEPT !.owner = a, !.live = TRUE, !.epoch = @ + 1]]
    /\ token' = [token EXCEPT ![a] = [t |-> t, epoch |-> wf[t].epoch + 1,
                                      rev |-> wf[t].rev, att |-> wf[t].att]]
    /\ UNCHANGED <<status, contracts, rows, receipts, prs, obsVars, asked, faults>>

\* _validate_live_claim; a renewal that passes it leaves the claim live.
ClaimAccepted(a) ==
    /\ token[a] # None
    /\ wf[token[a].t].owner = a
    /\ wf[token[a].t].epoch = token[a].epoch
    /\ wf[token[a].t].live

ReleaseClaim(a) ==
    /\ ClaimAccepted(a)
    /\ wf' = [wf EXCEPT ![token[a].t].owner = None, ![token[a].t].live = FALSE]
    /\ UNCHANGED <<status, contracts, rows, receipts, token, prs, obsVars, asked, faults>>

ClaimExpires(t) ==
    /\ wf[t].live
    /\ wf' = [wf EXCEPT ![t].live = FALSE]
    /\ UNCHANGED <<status, contracts, rows, receipts, token, prs, obsVars, asked, faults>>

\* The requester's explicit acceptance.
Accept(t) ==
    /\ wf[t].rev > 0
    /\ Terms(wf, t).mode = "explicit"
    /\ Has(rows, wf, t, "integration")
    /\ Satisfied(rows, wf, t)
    /\ receipts' = receipts \cup {ReceiptOf(rows, wf, t, "fulfilled")}
    /\ UNCHANGED <<status, wf, contracts, rows, token, prs, obsVars, asked, faults>>
-----------------------------------------------------------------------------
(* Ticket transitions and their delivery guard.                            *)

Transitions == {
    <<"open", "start", "in_progress">>,
    <<"open", "resolve", "resolved">>,      <<"in_progress", "resolve", "resolved">>,
    <<"open", "wontfix", "wontfix">>,       <<"in_progress", "wontfix", "wontfix">>,
    <<"resolved", "confirm", "closed">>,    <<"wontfix", "confirm", "closed">>,
    <<"resolved", "reopen", "open">>,       <<"wontfix", "reopen", "open">>,
    <<"open", "cancel", "closed">>,         <<"in_progress", "cancel", "closed">>,
    <<"resolved", "cancel", "closed">>,     <<"wontfix", "cancel", "closed">>}

\* One party: resolving and giving up close at once, resolve_pending waits.
SelfTransitions ==
    {r \in Transitions : r[2] \in {"start", "confirm", "reopen", "cancel"}} \cup
    ({"open", "in_progress"} \X {"resolve", "wontfix"} \X {"closed"}) \cup
    ({"open", "in_progress"} \X {"resolve_pending"} \X {"resolved"})

Rules(t) == IF t \in Self THEN SelfTransitions ELSE Transitions

\* completion_eligible_now for the action.
MayComplete(t, act) ==
    /\ Satisfied(rows, wf, t)
    /\ Has(rows, wf, t,
           IF act = "resolve_pending" \/ (act = "resolve" /\ t \notin Self)
           THEN "integration" ELSE "fulfilled")

\* guard_delivery_transition: the actions that need proof ...
Completing(t, act) == /\ act \in {"resolve", "resolve_pending", "confirm"}
                      /\ status[t] # "wontfix"

\* Mutant: stores the ticket status.
NewDispositionIsStatus(t, act, to) == IF act = "cancel" THEN to ELSE "active"
\* ... and what becomes of the contract.
NewDisposition(t, act, to) ==
    IF act = "cancel" THEN "cancelled"
    ELSE IF act = "wontfix" \/ (act = "confirm" /\ status[t] = "wontfix") THEN "wontfix"
    ELSE IF Completing(t, act) /\ to = "closed" THEN "fulfilled"
    ELSE "active"

\* Mutant: reopening keeps the disposition.
MutatedClaimOnly(w, disp, reopen) ==
    IF reopen THEN NoContext([NoClaim(w) EXCEPT !.att = @ + 1])
    ELSE IF disp # "active" THEN NoClaim([w EXCEPT !.disp = disp]) ELSE w
\* DeliveryTransitionMutation.apply.
Mutated(w, disp, reopen) ==
    LET w1 == [w EXCEPT !.disp = disp]
        w2 == IF reopen \/ disp # "active" THEN NoClaim(w1) ELSE w1
    IN  IF reopen THEN NoContext([w2 EXCEPT !.att = @ + 1]) ELSE w2

Transition(t, rule) ==
    LET act == rule[2]
        to == rule[3]
        disp == NewDisposition(t, act, to)
    IN
    /\ rule[1] = status[t]
    /\ status' = [status EXCEPT ![t] = to]
    /\ IF wf[t].rev = 0
       THEN UNCHANGED <<wf, rows, obs>>
       ELSE /\ Completing(t, act) => MayComplete(t, act)
            /\ act = "reopen" => wf[t].att < MaxAttempt
            /\ wf' = [wf EXCEPT ![t] = Mutated(@, disp, act = "reopen")]
            /\ rows' = [i \in BindIds |->
                  IF act = "reopen" /\ rows[i].t = t
                  THEN [rows[i] EXCEPT !.active = FALSE] ELSE rows[i]]
            /\ obs' = IF act = "reopen" THEN Moved({t}, {t}) ELSE obs
    /\ UNCHANGED <<contracts, receipts, token, prs, lock, asked, faults>>
-----------------------------------------------------------------------------
(* The observer process.                                                   *)

Fault == faults > 0 /\ faults' = faults - 1

\* ObserverOwnership.acquire: an instance tries once.
AcquireOwnership(o) ==
    /\ obs[o].st = "new"
    /\ \/ /\ lock = None
          /\ lock' = o
          /\ obs' = [obs EXCEPT ![o].st = "owned", ![o].conn = TRUE]
       \/ /\ lock # None
          /\ obs' = [obs EXCEPT ![o].st = "released"]
          /\ UNCHANGED lock
    /\ UNCHANGED <<status, wf, contracts, rows, receipts, token, prs, asked, faults>>

\* The backend dies; PostgreSQL drops its advisory lock at once, the process
\* learns of it at its next transaction.
Disconnect(o) ==
    /\ obs[o].conn
    /\ Fault
    /\ lock' = None
    /\ obs' = [obs EXCEPT ![o].conn = FALSE]
    /\ UNCHANGED <<status, wf, contracts, rows, receipts, token, prs, asked>>

\* heartbeat or any transaction over the dead backend: the batch is dropped.
LoseOwnership(o) ==
    /\ obs[o].st = "owned"
    /\ ~obs[o].conn
    /\ obs' = [obs EXCEPT ![o].st = "lost", ![o].jobs = {}]
    /\ UNCHANGED <<status, wf, contracts, rows, receipts, token, prs, lock, asked, faults>>

\* The process stops: the batch is cancelled and the lock released.
ReleaseOwnership(o) ==
    /\ obs[o].st = "owned"
    /\ obs[o].conn
    /\ Fault
    /\ lock' = None
    /\ obs' = [obs EXCEPT ![o] = [st |-> "released", conn |-> FALSE, jobs |-> {}]]
    /\ UNCHANGED <<status, wf, contracts, rows, receipts, token, prs, asked>>

\* The supervisor starts the process again, with a new ObserverOwnership.
Restart(o) ==
    /\ obs[o].st \in {"lost", "released"}
    /\ obs' = [obs EXCEPT ![o].st = "new"]
    /\ UNCHANGED <<status, wf, contracts, rows, receipts, token, prs, lock, asked, faults>>

\* _eligible_ticket and _context_due.
Observable(t) == /\ wf[t].rev > 0
                 /\ wf[t].disp = "active"
                 /\ status[t] \in {"open", "in_progress", "resolved"}
ContextDue(t) == Terms(wf, t).ctx /\ wf[t].ctxDue

\* Mutant: bindings wait for a context that the contract does not require.
DueSubjectsContextFirst ==
    {t \in Tickets : Observable(t) /\ ContextDue(t)} \cup
    {i \in BindIds : /\ rows[i].t # None
                     /\ Observable(rows[i].t)
                     /\ i \in Bound(rows, wf, rows[i].t)
                     /\ rows[i].due
                     /\ ~wf[rows[i].t].ctxDue}
\* PgDeliveryQueue.due: a ticket's context before its bindings.
DueSubjects ==
    {t \in Tickets : Observable(t) /\ ContextDue(t)} \cup
    {i \in BindIds : /\ rows[i].t # None
                     /\ Observable(rows[i].t)
                     /\ i \in Bound(rows, wf, rows[i].t)
                     /\ rows[i].due
                     /\ ~ContextDue(rows[i].t)}

JobFor(s) ==
    LET t == IF s \in Tickets THEN s ELSE rows[s].t IN
    [sub |-> s, t |-> t, rev |-> wf[t].rev, att |-> wf[t].att, same |-> TRUE,
     sameDue |-> TRUE, got |-> "no", ev |-> NoEvidence]

\* _cycle: a batch of at most two jobs, the next one when it is finished.
Capture(o, S) ==
    /\ obs[o].st = "owned" /\ obs[o].conn
    /\ obs[o].jobs = {}
    /\ S # {} /\ S \subseteq DueSubjects
    /\ Cardinality(S) = 2 \/ S = DueSubjects
    /\ obs' = [obs EXCEPT ![o].jobs = {JobFor(s) : s \in S}]
    /\ asked' = [s \in Subjects |-> asked[s] /\ s \notin S]
    /\ UNCHANGED <<status, wf, contracts, rows, receipts, token, prs, lock, faults>>

\* client.collect, outside any transaction: what the forge shows now, or an
\* error.
Collect(o, j) ==
    /\ j \in obs[o].jobs
    /\ j.got = "no"
    /\ \E got \in {"ok", "error"} :
          /\ IF got = "error" THEN Fault ELSE UNCHANGED faults
          /\ obs' = [obs EXCEPT ![o].jobs = (@ \ {j}) \cup
                {[j EXCEPT !.got = got,
                           !.ev = IF got = "ok" /\ j.sub \in BindIds
                                  THEN prs[rows[j.sub].pr] ELSE NoEvidence]}]
    /\ UNCHANGED <<status, wf, contracts, rows, receipts, token, prs, lock, asked>>

\* _lock_current_subject and _lock_current_context.
Publishable(j) ==
    /\ j.same
    /\ status[j.t] \notin {"wontfix", "closed"}
    /\ wf[j.t].disp = "active"
    /\ wf[j.t].rev = j.rev
    /\ wf[j.t].att = j.att
    /\ j.sub \in BindIds => rows[j.sub].active

\* Mutant: schedules whatever the due time is now.
NeverStillDue(j) == FALSE
\* schedule_after: compares the due time that the job captured.
StillDue(j) == ~j.sameDue

\* Mutant: a failed collection replaces the evidence.
ObservedRowsForget(j) ==
    IF j.sub \in Tickets THEN rows
    ELSE [rows EXCEPT ![j.sub] = [@ EXCEPT !.ev = j.ev, !.err = j.got # "ok",
                                          !.fresh = TRUE, !.due = StillDue(j)]]
\* _advance_subject and _advance_context with the rescheduling.
ObservedRows(j) ==
    IF j.sub \in Tickets THEN rows
    ELSE [rows EXCEPT ![j.sub] =
            IF j.got = "ok"
            THEN [@ EXCEPT !.ev = j.ev, !.err = FALSE, !.fresh = TRUE, !.due = StillDue(j)]
            ELSE [@ EXCEPT !.err = TRUE, !.due = StillDue(j)]]
ObservedContext(j) ==
    IF j.sub \in BindIds THEN wf
    ELSE [wf EXCEPT ![j.t] =
            IF j.got = "ok"
            THEN [@ EXCEPT !.ctxOk = TRUE, !.ctxErr = FALSE, !.ctxFresh = TRUE,
                           !.ctxDue = StillDue(j)]
            ELSE [@ EXCEPT !.ctxErr = TRUE, !.ctxDue = StillDue(j)]]

Done(o, j, O) == [O EXCEPT ![o].jobs = {k \in @ : k.sub # j.sub}]

\* publish_observation, record_observation_error and their context twins,
\* with the receipts of a success, in one owner transaction.
Publish(o, j) ==
    /\ j \in obs[o].jobs
    /\ j.got # "no"
    /\ obs[o].conn
    /\ Publishable(j)
    /\ rows' = ObservedRows(j)
    /\ wf' = ObservedContext(j)
    /\ receipts' = IF j.got = "ok"
                   THEN receipts \cup Issued(ObservedRows(j), ObservedContext(j), j.t)
                   ELSE receipts
    /\ obs' = Done(o, j, Moved({j.sub}, IF j.sameDue THEN {j.sub} ELSE {}))
    /\ UNCHANGED <<status, contracts, token, prs, lock, asked, faults>>

\* A conflict or a superseded subject: nothing is written, it stays queued.
Defer(o, j) ==
    /\ j \in obs[o].jobs
    /\ j.got # "no"
    /\ obs[o].conn
    /\ ~Publishable(j)
    /\ obs' = Done(o, j, obs)
    /\ UNCHANGED <<status, wf, contracts, rows, receipts, token, prs, lock, asked, faults>>
-----------------------------------------------------------------------------
(* Time and the forge.                                                     *)

\* The delay set by schedule_after is over.
DueElapses(s) ==
    /\ \/ /\ s \in Tickets
          /\ wf[s].rev > 0 /\ ~wf[s].ctxDue
          /\ wf' = [wf EXCEPT ![s].ctxDue = TRUE]
          /\ UNCHANGED rows
       \/ /\ s \in BindIds
          /\ rows[s].active /\ ~rows[s].due
          /\ rows' = [rows EXCEPT ![s].due = TRUE]
          /\ UNCHANGED wf
    /\ UNCHANGED <<status, contracts, receipts, token, prs, obsVars, asked, faults>>

\* freshness_seconds pass without a confirmation.
GoesStale(s) ==
    /\ Fault
    /\ \/ /\ s \in Tickets
          /\ wf[s].ctxFresh
          /\ wf' = [wf EXCEPT ![s].ctxFresh = FALSE]
          /\ UNCHANGED rows
       \/ /\ s \in BindIds
          /\ rows[s].active /\ rows[s].fresh
          /\ rows' = [rows EXCEPT ![s].fresh = FALSE]
          /\ UNCHANGED wf
    /\ UNCHANGED <<status, contracts, receipts, token, prs, obsVars, asked>>

\* The forge: commits, checks and reviews that come and go, and the merge,
\* after which head and merge commit stay.
Push(p) == /\ ~prs[p].merged /\ prs[p].head < MaxHead
           /\ prs' = [prs EXCEPT ![p].head = @ + 1, ![p].green = FALSE]
           /\ UNCHANGED <<status, wf, contracts, rows, receipts, token, obsVars, asked, faults>>
Review(p) == /\ IF prs[p].green THEN Fault ELSE UNCHANGED faults
             /\ prs' = [prs EXCEPT ![p].green = ~@]
             /\ UNCHANGED <<status, wf, contracts, rows, receipts, token, obsVars, asked>>
Merge(p) == /\ ~prs[p].merged
            /\ prs' = [prs EXCEPT ![p].merged = TRUE]
            /\ UNCHANGED <<status, wf, contracts, rows, receipts, token, obsVars, asked, faults>>

Next ==
    \/ \E t \in Tickets :
          \/ \E offer \in Offers : SetContract(t, offer)
          \/ \E k \in Keys, p \in PRs, i \in BindIds : BindPr(t, k, p, i)
          \/ \E a \in Agents : AcquireClaim(a, t)
          \/ \E rule \in Rules(t) : Transition(t, rule)
          \/ Refresh(t) \/ ClaimExpires(t) \/ Accept(t)
    \/ \E a \in Agents : ReleaseClaim(a)
    \/ \E o \in Observers :
          \/ AcquireOwnership(o) \/ Disconnect(o) \/ LoseOwnership(o)
          \/ ReleaseOwnership(o) \/ Restart(o)
          \/ \E S \in SUBSET Subjects : Capture(o, S)
          \/ \E j \in obs[o].jobs : Collect(o, j) \/ Publish(o, j) \/ Defer(o, j)
    \/ \E s \in Subjects : DueElapses(s) \/ GoesStale(s)
    \/ \E p \in PRs : Push(p) \/ Review(p) \/ Merge(p)

Spec == Init /\ [][Next]_vars
-----------------------------------------------------------------------------
(* Safety.                                                                 *)

\* A receipt certifies a complete delivery of the generation it names: one
\* pull request for each deliverable of that revision, bound for it, each
\* really merged at the certified head, whatever was rebound, amended,
\* reopened or collected late in between
\* (_issue_integration_receipt_under_scope).
ReceiptsAreTrue ==
    \A r \in receipts :
        /\ {rows[d.id].key : d \in r.digest} = contracts[r.t][r.rev].keys
        /\ \A d \in r.digest :
              LET b == rows[d.id] IN
              /\ b.t = r.t /\ b.rev = r.rev /\ b.att = r.att
              /\ prs[b.pr].merged /\ prs[b.pr].head = d.head

\* A receipt never precedes the upstream milestones its revision pinned: the
\* receipt of every pinned generation was there first, and stays
\* (_dependency_findings, _matching_receipt).
ReceiptsFollowDependencies ==
    \A r \in receipts : \A d \in contracts[r.t][r.rev].deps :
        \E u \in receipts : u.t = d.t /\ u.rev = d.rev /\ u.att = d.att /\ u.ms = d.ms

\* A ticket that ended as fulfilled is closed, and the receipt that proves
\* it is the one of its current generation and its current delivery: nothing
\* changes either after the close (guard_delivery_transition).
FulfilledIsProven ==
    \A t \in Tickets : wf[t].disp = "fulfilled" =>
        /\ status[t] = "closed"
        /\ Has(rows, wf, t, "fulfilled")
        /\ Has(rows, wf, t, "integration")

\* The disposition of a contract and the status of its ticket, written by
\* different modules, tell the same story.
DispositionAgrees ==
    \A t \in Tickets : wf[t].rev > 0 =>
        CASE wf[t].disp = "active" -> status[t] \in {"open", "in_progress", "resolved"}
          [] wf[t].disp = "wontfix" -> status[t] \in {"wontfix", "closed"}
          [] wf[t].disp \in {"fulfilled", "cancelled"} -> status[t] = "closed"

\* A claim that the server still honours belongs to the generation it was
\* acquired for, of a contract that is still active: amending, rebinding,
\* reopening and closing all fence it (claim_epoch).
ClaimsFenced ==
    \A a \in Agents : ClaimAccepted(a) =>
        LET w == wf[token[a].t] IN
        w.rev = token[a].rev /\ w.att = token[a].att /\ w.disp = "active"

\* The dependencies between the current contracts never form a cycle, also
\* when contracts are amended one after the other (_validate_dependencies).
DependenciesAcyclic == \A t \in Tickets : t \notin Reached(Upstreams(t))

\* "a racing refresh must remain queued" (schedule_after): a refresh that no
\* collection has picked up yet keeps its subject in the queue.
RefreshStaysQueued ==
    \A s \in Subjects : asked[s] =>
        IF s \in Tickets THEN wf[s].ctxDue ELSE rows[s].due

\* What the forge showed is never forgotten and never replaced by something
\* older: not by a failed collection ("without replacing prior proof",
\* record_observation_error), not by one that another process overtook.
EvidenceMovesForward ==
    [][\A i \in BindIds :
          /\ rows[i].ev.head <= rows'[i].ev.head
          /\ rows[i].ev.merged => rows'[i].ev.merged]_vars
-----------------------------------------------------------------------------
(* Liveness.                                                               *)

\* Only the observer, its supervisor and the clock must go on; requesters,
\* executors, agents and the forge need not.  A subject that is due again
\* and again is not passed over for ever: due orders by due_at.
Fairness ==
    /\ \A o \in Observers :
          /\ WF_vars(AcquireOwnership(o)) /\ WF_vars(LoseOwnership(o)) /\ WF_vars(Restart(o))
          /\ WF_vars(\E j \in obs[o].jobs : Collect(o, j) \/ Publish(o, j) \/ Defer(o, j))
          /\ \A s \in Subjects : SF_vars(\E S \in SUBSET Subjects : s \in S /\ Capture(o, S))
    /\ \A s \in Subjects : WF_vars(DueElapses(s))

FairSpec == Spec /\ Fairness

\* Delivered at the forge, with nothing else in the way.
Delivered(t) ==
    /\ wf[t].rev > 0
    /\ wf[t].disp = "active" /\ status[t] \in {"open", "in_progress"}
    /\ ~Missing(rows, wf, t)
    /\ \A i \in Bound(rows, wf, t) : prs[rows[i].pr].merged /\ prs[rows[i].pr].green
    /\ DependenciesMet(rows, wf, t)

\* Nobody asks for refreshes for ever.
RefreshesEnd == <>[][\A t \in Tickets : ~Refresh(t)]_vars

\* A delivery that stays merged and green gets its integration receipt, also
\* when collections fail, evidence goes stale, refreshes race the observer
\* and its process is replaced: the queue never loses a subject.  Refreshes
\* must end: one in every collection of a required document keeps it due, and
\* the bindings wait behind it (due, schedule_after).
DeliveryIsCertified ==
    RefreshesEnd => \A t \in Tickets : <>[]Delivered(t) => <>[]Has(rows, wf, t, "integration")
=============================================================================
