------------------------------ MODULE Sessions ------------------------------
(***************************************************************************)
(* Brain sessions: the operator sessions an agent starts, ends and hands   *)
(* over, the traces the server opens for each connection, the exclusive    *)
(* ledger of artifacts, and the focus revisions sessions write             *)
(* (repositories/pg_brain_session.py, db/session_derived_capture.py,       *)
(* maintenance/session_sweep.py, services/agent_trace_net.py).             *)
(*                                                                         *)
(* A command locks its session row and is one step.  Absorption reads the  *)
(* row without a lock and captures read the ledger before they write it,   *)
(* so both are split where another transaction may commit in between: a    *)
(* worker holds one of them in flight.                                     *)
(*                                                                         *)
(* Time is what the code compares.  An artifact's created_at against the   *)
(* windows of sessions is the operator sessions that had started, and the  *)
(* ones that were open, when it was made; the 4 hour and 7 day limits are  *)
(* the ages "quiet" and "stale".                                           *)
(* A session stands for its client_key, which is unique per project.       *)
(***************************************************************************)
EXTENDS Integers, FiniteSets, FiniteSetsExt

CONSTANTS
    Operators,      \* ids of operator sessions
    Traces,         \* ids of agent sessions
    Conns,          \* MCP connections
    Arts,           \* artifacts: decisions, learnings, ...
    Slots,          \* focus slots, open in the initial state
    Workers,        \* absorptions and captures that may be in flight
    Cap,            \* MAX_CAPTURED_KNOWLEDGE_IDS
    MaxDirect       \* bound on base writes by brain_update_project_focus

Null == "none"
Ids == Operators \cup Traces
Base == "base"

\* What the proofs need to know of the parameters.
ASSUME SessionsAssumption ==
    /\ IsFiniteSet(Operators) /\ MaxDirect \in Nat
    /\ Null \notin Operators /\ Base \notin Slots

VARIABLES
    ses,        \* [Ids -> session row]
    made,       \* [Arts -> operator sessions started, and open, at creation]
    ledger,     \* [Arts -> holder of the artifact, or Null]
    focus,      \* [Slots \cup {Base} -> revision, open]
    direct,     \* base revisions written outside sessions
    worker      \* [Workers -> what it is doing]

sessionsVars == <<ses, made, ledger, focus, direct, worker>>

Statuses == {"absent", "open", "ended", "abandoned", "closed_inactive"}

\* from is relayed_from_session_id, set for slot relays only; relayed stands
\* for started_by_actor; parent is the true predecessor, which no row keeps.
NoSession == [status |-> "absent", conn |-> Null, seen |-> {}, slot |-> Null, age |-> "fresh",
          from |-> Null, relayed |-> FALSE, parent |-> Null, startRev |-> 0,
          outcome |-> Null, endRev |-> 0, snapshot |-> {}]

Idle == [do |-> "idle"]

Revisions == 0 .. Cardinality(Operators) + MaxDirect + 1

\* Sessions, ledger, focus and workers keep their shapes.
SessionsTypeOK ==
    /\ \A i \in Ids :
        /\ ses[i].status \in Statuses /\ ses[i].age \in {"fresh", "quiet", "stale"}
        /\ ses[i].conn \in Conns \cup {Null} /\ ses[i].seen \subseteq Conns
        /\ ses[i].slot \in Slots \cup {Null} /\ {ses[i].from, ses[i].parent} \subseteq Operators \cup {Null}
        /\ ses[i].startRev \in Revisions /\ ses[i].endRev \in Revisions
        /\ ses[i].outcome \in {Null, "applied", "conflict"}
        /\ ses[i].snapshot \subseteq Arts
    /\ \A k \in Arts : ledger[k] \in Ids \cup {Null} /\ made[k].open \subseteq made[k].since
                       /\ made[k].since \subseteq Operators \cup {Null}
    /\ \A f \in Slots \cup {Base} : focus[f].rev \in Revisions /\ focus[f].open \in BOOLEAN
    /\ direct \in 0 .. MaxDirect
    /\ \A w \in Workers : worker[w].do \in {"idle", "absorb", "move", "capture"}

NotMade == [since |-> {Null}, open |-> {}]

SessionsInit ==
    /\ ses = [i \in Ids |-> NoSession]
    /\ made = [k \in Arts |-> NotMade]
    /\ ledger = [k \in Arts |-> Null]
    /\ focus = [f \in Slots \cup {Base} |-> [rev |-> 0, open |-> TRUE]]
    /\ direct = 0
    /\ worker = [w \in Workers |-> Idle]

Open(i) == ses[i].status = "open"
LedgerOf(i) == {k \in Arts : ledger[k] = i}
FocusOf(i) == IF ses[i].slot = Null THEN Base ELSE ses[i].slot

\* A capture in flight holds its session row and the base row.
Capturing(i) == \E w \in Workers : worker[w].do = "capture" /\ worker[w].t = i
BaseLocked == \E w \in Workers : worker[w].do = "capture"

\* An absorption that wrote its connection holds a key lock on its session.
KeyLocked(i) == \E w \in Workers : worker[w].do = "move" /\ worker[w].t = i /\ worker[w].keyed

\* Every command on an open operator session starts by locking its row.
Command(i) == i \in Operators /\ Open(i) /\ ~Capturing(i) /\ ~KeyLocked(i)

(***************************************************************************)
(* Starting and observing                                                  *)
(***************************************************************************)
\* A replay of an open key changes nothing; another status is refused.
Start(i) ==
    /\ i \in Operators /\ ses[i].status = "absent"
    /\ ses' = [ses EXCEPT ![i] = [NoSession EXCEPT !.status = "open", !.startRev = focus[Base].rev]]
    /\ UNCHANGED <<made, ledger, focus, direct, worker>>

TraceOf(c) == {i \in Traces : Open(i) /\ ses[i].conn = c}

\* auto_open and observe move the clocks of the trace a connection has.
Observe(c) ==
    /\ TraceOf(c) # {}
    /\ ses' = [i \in Ids |-> IF i \in TraceOf(c) THEN [ses[i] EXCEPT !.age = "fresh"] ELSE ses[i]]
    /\ UNCHANGED <<made, ledger, focus, direct, worker>>

AutoOpen(i, c) ==
    /\ i \in Traces /\ ses[i].status = "absent" /\ TraceOf(c) = {}
    /\ ses' = [ses EXCEPT ![i] = [NoSession EXCEPT !.status = "open", !.conn = c,
                                               !.startRev = focus[Base].rev]]
    /\ UNCHANGED <<made, ledger, focus, direct, worker>>

Heartbeat(i) ==
    /\ Command(i) /\ ses[i].age # "fresh"
    /\ ses' = [ses EXCEPT ![i].age = "fresh"]
    /\ UNCHANGED <<made, ledger, focus, direct, worker>>

\* An artifact is written on connection c and deposited with its trace;
\* without one, or when the trace is full, it belongs to nobody.
Create(k, c) ==
    /\ made[k] = NotMade
    /\ made' = [made EXCEPT ![k] = [since |-> {i \in Operators : ses[i].status # "absent"},
                                   open |-> {i \in Operators : Open(i)}]]
    /\ \/ \E i \in TraceOf(c) : /\ Cardinality(LedgerOf(i)) < Cap
                                /\ ledger' = [ledger EXCEPT ![k] = i]
       \/ /\ \A i \in TraceOf(c) : Cardinality(LedgerOf(i)) >= Cap
          /\ UNCHANGED ledger
    /\ UNCHANGED <<ses, focus, direct, worker>>

(***************************************************************************)
(* Absorption: a session takes over what its connections deposited         *)
(***************************************************************************)
\* Created by the project since the session started.
Eligible(i, k) == i \in made[k].since

AbandonedOperator(i) == i \in Operators /\ ses[i].status = "abandoned"

DonorTrace(i) == i \in Traces /\ ses[i].status \in {"open", "closed_inactive"}

ConnsOf(i) == ses[i].seen \cup ({ses[i].conn} \ {Null})

\* The donors the connections S of t name exactly.
Donors(t, S) == {i \in Ids \ {t} : /\ DonorTrace(i) \/ AbandonedOperator(i)
                                   /\ ConnsOf(i) \cap S # {}}

\* Another open operator seen on a connection the donor i shares with t.
SharedRival(t, S, i) == \E r \in Operators \ {t} : Open(r) /\ ses[r].seen \cap ConnsOf(i) \cap S # {}

\* Another operator session covered the instant of creation.
WindowRival(t, k) == made[k].open \ {t, ledger[k]} # {}

ByConnection(t, S, D) == {k \in Arts : ledger[k] \in D /\ Eligible(t, k) /\ ~SharedRival(t, S, ledger[k])}

ByWindow(t, S, D) == {k \in Arts : /\ ledger[k] # Null /\ Eligible(t, k)
                                   /\ DonorTrace(ledger[k]) \/ AbandonedOperator(ledger[k])
                                   /\ ~WindowRival(t, k)
                                   /\ ~(ledger[k] \in D /\ SharedRival(t, S, ledger[k]))}

\* What one absorption with room r may move: connections before windows.
Moves(t, S, D, r) ==
    LET exact == ByConnection(t, S, D)
        all == exact \cup ByWindow(t, S, D)
    IN  {M \in SUBSET all : /\ Cardinality(M) = Min({r, Cardinality(all)})
                            /\ exact \subseteq M \/ M \subseteq exact}

\* absorb_derived_capture_outcome reads the session without a row lock.
AbsorbReads(w, t, c) ==
    /\ worker[w] = Idle /\ t \in Operators /\ Open(t)
    /\ worker' = [worker EXCEPT ![w] = [do |-> "absorb", t |-> t, c |-> c]]
    /\ UNCHANGED <<ses, made, ledger, focus, direct>>

\* It records its connection, lists the donors and counts the room left.  A
\* new connection waits for a capture that holds the session row and for
\* another absorption that is recording the same connection.
AbsorbCounts(w) ==
    /\ worker[w].do = "absorb"
    /\ LET t == worker[w].t
           c == worker[w].c
           S == ses[t].seen \cup {c}
           room == Cap - Cardinality(LedgerOf(t))
       IN  /\ c \notin ses[t].seen =>
                /\ ~Capturing(t)
                /\ \A u \in Workers : worker[u].do = "move" => <<worker[u].t, worker[u].c>> # <<t, c>>
           /\ \/ /\ room <= 0
                 /\ ses' = [ses EXCEPT ![t].seen = S]
                 /\ worker' = [worker EXCEPT ![w] = Idle]
              \/ /\ room > 0
                 /\ worker' = [worker EXCEPT ![w] = [do |-> "move", t |-> t, c |-> c, room |-> room,
                                                     donors |-> Donors(t, S), keyed |-> S # ses[t].seen]]
                 /\ UNCHANGED ses
    /\ UNCHANGED <<made, ledger, focus, direct>>

\* It moves what it may and commits.  A moved artifact refers to the session
\* row, so it waits for a capture.
AbsorbMoves(w) ==
    /\ worker[w].do = "move"
    /\ LET t == worker[w].t
           S == ses[t].seen \cup {worker[w].c}
       IN  /\ \E M \in Moves(t, S, worker[w].donors, worker[w].room) :
                /\ M # {} => ~Capturing(t)
                /\ ledger' = [k \in Arts |-> IF k \in M THEN t ELSE ledger[k]]
           /\ ses' = [ses EXCEPT ![t].seen = S]
    /\ worker' = [worker EXCEPT ![w] = Idle]
    /\ UNCHANGED <<made, focus, direct>>

(***************************************************************************)
(* Captures: a human names an artifact                                     *)
(***************************************************************************)
\* Traces and abandoned operators give up what they hold; others do not.
Reclaimable(k) == ledger[k] # Null /\ (ledger[k] \in Traces \/ AbandonedOperator(ledger[k]))

CaptureReads(w, t, k) ==
    /\ worker[w] = Idle /\ Command(t) /\ ~BaseLocked
    /\ ledger[k] \in {Null, t} \/ Reclaimable(k)
    /\ Eligible(t, k) /\ Cardinality(LedgerOf(t) \cup {k}) <= Cap
    /\ worker' = [worker EXCEPT ![w] = [do |-> "capture", t |-> t, k |-> k,
                                        held |-> ledger[k] # Null]]
    /\ UNCHANGED <<ses, made, ledger, focus, direct>>

\* A reclaim updates the row by knowledge_id alone; an insert yields to a
\* row that appeared meanwhile, and the command then fails.
CaptureWrites(w) ==
    /\ worker[w].do = "capture"
    /\ LET t == worker[w].t
           k == worker[w].k
           wins == worker[w].held \/ ledger[k] \in {Null, t}
       IN  /\ ledger' = IF wins THEN [ledger EXCEPT ![k] = t] ELSE ledger
           /\ ses' = IF wins THEN [ses EXCEPT ![t].age = "fresh"] ELSE ses
    /\ worker' = [worker EXCEPT ![w] = Idle]
    /\ UNCHANGED <<made, focus, direct>>

(***************************************************************************)
(* Ending and handing over                                                 *)
(***************************************************************************)
\* A bind from connection c records it on the session; c is Null when the
\* caller has none.
Bind(i, s, c) ==
    /\ Command(i) /\ ses[i].slot \in {Null, s} /\ focus[s].open
    /\ \A j \in Operators \ {i} : Open(j) => ses[j].slot # s
    /\ ses' = [ses EXCEPT ![i].slot = s, ![i].seen = @ \cup ({c} \ {Null})]
    /\ UNCHANGED <<made, ledger, focus, direct, worker>>

\* An unbound end waits for the base row, which captures hold.
FocusFree(i) == ses[i].slot = Null => ~BaseLocked

\* ck: captured_knowledge_ids holds at most Cap ids, or the write fails.
SnapshotFits(i) == Cardinality(LedgerOf(i)) <= Cap

\* The row of a session ended with its focus f at revision rev.
Ended(i, out, rev) == [ses[i] EXCEPT !.status = "ended", !.outcome = out, !.endRev = rev,
                                     !.snapshot = LedgerOf(i)]

AppliesStale(f, exp) == focus[f].open /\ exp <= focus[f].rev

Applies(f, exp) == focus[f].open /\ focus[f].rev = exp

\* exp: the revision the caller read.  A closed slot at exactly exp refuses
\* the end; any other mismatch ends the session and records a conflict.
End(i, exp) ==
    /\ Command(i) /\ FocusFree(i) /\ SnapshotFits(i)
    /\ LET f == FocusOf(i) IN
       /\ focus[f].open \/ focus[f].rev # exp
       /\ IF Applies(f, exp)
          THEN /\ focus' = [focus EXCEPT ![f].rev = exp + 1]
               /\ ses' = [ses EXCEPT ![i] = Ended(i, "applied", exp + 1)]
          ELSE /\ ses' = [ses EXCEPT ![i] = Ended(i, "conflict", focus[f].rev)]
               /\ UNCHANGED focus
    /\ UNCHANGED <<made, ledger, direct, worker>>

\* relay: a stale revision or a closed slot is refused and changes nothing.
\* The successor starts in the same transaction, bound to the same slot.
Relay(i, j, exp) ==
    /\ Command(i) /\ FocusFree(i) /\ SnapshotFits(i)
    /\ j \in Operators /\ ses[j].status = "absent"
    /\ LET f == FocusOf(i) IN
       /\ Applies(f, exp)
       /\ focus' = [focus EXCEPT ![f].rev = exp + 1]
       /\ ses' = [ses EXCEPT ![i] = Ended(i, "applied", exp + 1),
                             ![j] = [NoSession EXCEPT !.status = "open", !.relayed = TRUE,
                                        !.slot = ses[i].slot, !.parent = i,
                                        !.from = IF ses[i].slot = Null THEN Null ELSE i,
                                        !.startRev = focus'[Base].rev]]
    /\ UNCHANGED <<made, ledger, direct, worker>>

Abandon(i) ==
    /\ Command(i)
    /\ ses' = [ses EXCEPT ![i].status = "abandoned"]
    /\ UNCHANGED <<made, ledger, focus, direct, worker>>

\* The successors a retried relay of i with key j is answered with.
FindBaseSuccessorAnyOutcome(i, j) ==
    /\ ses[j].relayed /\ ses[j].from = Null /\ ses[j].startRev = ses[i].endRev

FindBaseSuccessor(i, j) ==
    /\ ses[i].outcome = "applied"
    /\ ses[j].relayed /\ ses[j].from = Null /\ ses[j].startRev = ses[i].endRev

Successor(i, j) ==
    \/ ses[j].from = i
    \/ /\ \A n \in Operators : ses[n].from # i
       /\ ses[i].slot = Null /\ FindBaseSuccessor(i, j)

(***************************************************************************)
(* Time, sweeps, slots and the base                                        *)
(***************************************************************************)
Ages(i) ==
    /\ Open(i) /\ ses[i].age # "stale"
    /\ ses' = [ses EXCEPT ![i].age = IF @ = "fresh" THEN "quiet" ELSE "stale"]
    /\ UNCHANGED <<made, ledger, focus, direct, worker>>

Closing(i, outcome) == [ses[i] EXCEPT !.status = outcome]

\* One UPDATE: 7 days without heartbeat abandon any session, and win over
\* the 4 hours that close a trace.
SweptTracesOnly(i) == Open(i) /\ i \in Traces /\ ses[i].age # "fresh"

Swept(i) == Open(i) /\ ~Capturing(i) /\ (ses[i].age = "stale" \/ (i \in Traces /\ ses[i].age = "quiet"))

Sweep ==
    /\ \E i \in Ids : Swept(i)
    /\ ses' = [i \in Ids |-> IF ~Swept(i) THEN ses[i]
                             ELSE IF ses[i].age = "stale" THEN Closing(i, "abandoned")
                             ELSE Closing(i, "closed_inactive")]
    /\ UNCHANGED <<made, ledger, focus, direct, worker>>

\* AgentTraceNet and the end of a connection close traces only.
CloseTraces(S) ==
    /\ S # {}
    /\ ses' = [i \in Ids |-> IF i \in S THEN Closing(i, "closed_inactive") ELSE ses[i]]
    /\ UNCHANGED <<made, ledger, focus, direct, worker>>

QuietTraces == {i \in Traces : Open(i) /\ ses[i].age # "fresh"}

\* Explicit when no open session is bound; a receipt closes it regardless.
CloseSlot(s) ==
    /\ focus[s].open
    /\ focus' = [focus EXCEPT ![s] = [rev |-> @.rev + 1, open |-> FALSE]]
    /\ UNCHANGED <<ses, made, ledger, direct, worker>>

UpdateFocus ==
    /\ direct < MaxDirect /\ ~BaseLocked
    /\ direct' = direct + 1
    /\ focus' = [focus EXCEPT ![Base].rev = @ + 1]
    /\ UNCHANGED <<ses, made, ledger, worker>>

Touch(i) == Heartbeat(i) \/ \E c \in Conns : i \in TraceOf(c) /\ Observe(c)

SessionsNext ==
    \/ \E i \in Operators : \/ Start(i) \/ Heartbeat(i) \/ Abandon(i)
                            \/ \E s \in Slots, c \in Conns \cup {Null} : Bind(i, s, c)
                            \/ \E exp \in Revisions : End(i, exp)
                            \/ \E j \in Operators, exp \in Revisions : Relay(i, j, exp)
    \/ \E c \in Conns : Observe(c) \/ CloseTraces(TraceOf(c)) \/ \E i \in Traces : AutoOpen(i, c)
    \/ \E k \in Arts, c \in Conns : Create(k, c)
    \/ \E w \in Workers : \/ AbsorbCounts(w) \/ AbsorbMoves(w) \/ CaptureWrites(w)
                          \/ \E t \in Operators, c \in Conns : AbsorbReads(w, t, c)
                          \/ \E t \in Operators, k \in Arts : CaptureReads(w, t, k)
    \/ \E i \in Ids : Ages(i)
    \/ Sweep \/ CloseTraces(QuietTraces)
    \/ \E s \in Slots : CloseSlot(s)
    \/ UpdateFocus

SessionsSpec == SessionsInit /\ [][SessionsNext]_sessionsVars

(***************************************************************************)
(* Properties                                                              *)
(***************************************************************************)
\* A relay whose answer was lost is retried and finds its own successor,
\* and a session that ended otherwise finds nobody's: _replay_relay looks
\* successors up by columns, and no row names the predecessor of a base
\* relay.
RelayReplayIsOwn ==
    \A i, j \in Operators : ses[i].status = "ended" => (Successor(i, j) <=> ses[j].parent = i)

\* No focus write is lost: each revision of the base or of a slot that a
\* session applied was applied by that session alone, and is not in the
\* future.
OneAuthorPerRevision ==
    \A i, j \in Operators :
        ses[i].outcome = "applied" =>
            /\ ses[i].endRev <= focus[FocusOf(i)].rev
            /\ ses[j].outcome = "applied" /\ FocusOf(i) = FocusOf(j) /\ i # j
                 => ses[i].endRev # ses[j].endRev

\* A session nobody touches any more does not stay open for ever.
NoGhostSession == \A i \in Ids : []<>(~Open(i) \/ ses[i].age = "fresh")

\* A session captures at most Cap artifacts, by any path, so it can end.
LedgerWithinCap == \A i \in Ids : Cardinality(LedgerOf(i)) <= Cap
=============================================================================
