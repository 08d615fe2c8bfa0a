--------------------------- MODULE SessionsProofs ---------------------------
(***************************************************************************)
(* Proofs about Sessions, for any number of sessions, slots, connections   *)
(* and artifacts.                                                          *)
(***************************************************************************)
EXTENDS Sessions, FiniteSetTheorems, TLAPS

-----------------------------------------------------------------------------
(* The inductive invariant.                                                *)

Row == [status : Statuses, conn : Conns \cup {Null}, seen : SUBSET Conns,
        slot : Slots \cup {Null}, age : {"fresh", "quiet", "stale"},
        from : Operators \cup {Null}, relayed : BOOLEAN, parent : Operators \cup {Null},
        startRev : Revisions, outcome : {Null, "applied", "conflict"}, endRev : Revisions,
        snapshot : SUBSET Arts]

Foci == Slots \cup {Base}

\* A worker in flight is about an operator session and a connection.
WorkerOK(v) ==
    /\ v.do \in {"idle", "absorb", "move", "capture"}
    /\ v.do # "idle" => v.t \in Operators
    /\ v.do \in {"absorb", "move"} => v.c \in Conns

RowsOK == /\ ses \in [Ids -> Row]
          /\ \A i \in Ids : /\ ses[i].status = "absent" => ses[i] = NoSession
                            /\ ses[i].outcome = "applied" => ses[i].status = "ended"
FocusOK == focus \in [Foci -> [rev : Nat, open : BOOLEAN]] /\ direct \in 0 .. MaxDirect
SidesOK ==
    /\ DOMAIN worker = Workers /\ \A w \in Workers : WorkerOK(worker[w])
    /\ ledger \in [Arts -> Ids \cup {Null}]
    /\ DOMAIN made = Arts
    /\ \A k \in Arts : /\ made[k].open \subseteq made[k].since
                       /\ made[k].since \subseteq Operators \cup {Null}

\* A worker in flight read its session.
InFlight == \A w \in Workers : worker[w].do # "idle" => ses[worker[w].t].status # "absent"

\* The revisions of a focus are the ones its sessions applied, the direct
\* updates of the base, and the close of a slot: nothing else writes it.
Applied(f) == {i \in Operators : ses[i].outcome = "applied" /\ FocusOf(i) = f}
Others(f) == IF f = Base THEN direct ELSE IF focus[f].open THEN 0 ELSE 1
Accounted == \A f \in Foci : focus[f].rev = Cardinality(Applied(f)) + Others(f)

\* A revision that a session applied is not in the future.
AppliedOK == \A i \in Operators :
                 ses[i].outcome = "applied" => ses[i].endRev <= focus[FocusOf(i)].rev

\* What a successor's columns say of the session it was relayed from.
ParentOK ==
    \A j \in Operators :
        /\ ses[j].relayed <=> ses[j].parent # Null
        /\ ses[j].parent = Null => ses[j].from = Null
        /\ ses[j].parent # Null =>
              LET p == ses[ses[j].parent] IN
              /\ p.outcome = "applied"
              /\ IF p.slot = Null THEN ses[j].from = Null /\ ses[j].startRev = p.endRev
                                  ELSE ses[j].from = ses[j].parent

IInv == /\ RowsOK /\ FocusOK /\ SidesOK /\ InFlight /\ Accounted /\ AppliedOK /\ ParentOK
        /\ OneAuthorPerRevision
-----------------------------------------------------------------------------
(* Rows, updated.                                                          *)

\* How a row may change without applying a revision or being relayed: who
\* wrote which revision of which focus, and who relayed whom, stay.
SameOrigin(r, q) ==
    /\ q.from = r.from /\ q.relayed = r.relayed /\ q.parent = r.parent
    /\ r.relayed => q.startRev = r.startRev

Kept(r, q) ==
    /\ q \in Row
    /\ SameOrigin(r, q)
    /\ q.outcome = "applied" <=> r.outcome = "applied"
    /\ r.outcome = "applied" => q.status = r.status /\ q.endRev = r.endRev /\ q.slot = r.slot
    /\ q.status = "absent" => r.status = "absent" /\ q = NoSession

\* The revisions a focus can reach.
LEMMA RevisionsFacts ==
    /\ Cardinality(Operators) \in Nat /\ MaxDirect \in Nat
           /\ Revisions \subseteq Nat /\ 0 \in Revisions
           /\ Base \in Foci /\ Null \notin Operators
<1>1. Cardinality(Operators) \in Nat /\ MaxDirect \in Nat
  BY FS_CardinalityType, SessionsAssumption
<1> QED BY <1>1, SessionsAssumption DEF Revisions, Foci

\* The new row of a session that starts.
LEMMA NewRow ==
    ASSUME NEW rev \in Revisions
    PROVE  /\ Kept(NoSession, [NoSession EXCEPT !.status = "open", !.startRev = rev])
           /\ \A c \in Conns : Kept(NoSession, [NoSession EXCEPT !.status = "open", !.conn = c, !.startRev = rev])
           /\ NoSession \in Row
<1>1. 0 \in Revisions
  BY RevisionsFacts
<1>2. NoSession \in Row
  BY <1>1 DEF NoSession, Row, Statuses
<1>3. /\ NoSession.relayed = FALSE /\ NoSession.outcome = Null /\ NoSession.status = "absent" /\ Null # "applied"
  BY DEF NoSession, Null
<1>4. Kept(NoSession, [NoSession EXCEPT !.status = "open", !.startRev = rev])
  BY <1>2, <1>3 DEF Row, Kept, SameOrigin, Statuses
<1>5. ASSUME NEW c \in Conns
      PROVE  Kept(NoSession, [NoSession EXCEPT !.status = "open", !.conn = c, !.startRev = rev])
  BY <1>2, <1>3 DEF Row, Kept, SameOrigin, Statuses
<1> QED BY <1>2, <1>4, <1>5

\* The other updates that commands, absorptions, sweeps and the clock make.
LEMMA RowUpdates ==
    ASSUME NEW r \in Row, r.status = "absent" => r = NoSession, r.outcome = "applied" => r.status = "ended"
    PROVE  /\ Kept(r, r)
           /\ \A S \in SUBSET Conns : r.status # "absent" => Kept(r, [r EXCEPT !.seen = S])
           /\ \A a \in {"fresh", "quiet", "stale"} : r.status # "absent" => Kept(r, [r EXCEPT !.age = a])
           /\ \A x \in {"abandoned", "closed_inactive"} : r.status = "open" => Kept(r, [r EXCEPT !.status = x])
           /\ \A x \in Slots, S \in SUBSET Conns :
                 r.status = "open" => Kept(r, [r EXCEPT !.slot = x, !.seen = S])
           /\ \A rev \in Revisions, K \in SUBSET Arts : r.status = "open" =>
                 Kept(r, [r EXCEPT !.status = "ended", !.outcome = "conflict", !.endRev = rev, !.snapshot = K])
<1>1. Kept(r, r)
  BY DEF Kept, SameOrigin
<1>2. ASSUME NEW S \in SUBSET Conns, r.status # "absent" PROVE Kept(r, [r EXCEPT !.seen = S])
  BY <1>2 DEF Kept, SameOrigin, Row
<1>3. ASSUME NEW a \in {"fresh", "quiet", "stale"}, r.status # "absent" PROVE Kept(r, [r EXCEPT !.age = a])
  BY <1>3 DEF Kept, SameOrigin, Row
<1>4. ASSUME NEW x \in {"abandoned", "closed_inactive"}, r.status = "open"
      PROVE  Kept(r, [r EXCEPT !.status = x])
  BY <1>4 DEF Kept, SameOrigin, Row, Statuses
<1>5. ASSUME NEW x \in Slots, NEW S \in SUBSET Conns, r.status = "open"
      PROVE  Kept(r, [r EXCEPT !.slot = x, !.seen = S])
  BY <1>5 DEF Kept, SameOrigin, Row
<1>6. ASSUME NEW rev \in Revisions, NEW K \in SUBSET Arts, r.status = "open"
      PROVE  Kept(r, [r EXCEPT !.status = "ended", !.outcome = "conflict", !.endRev = rev, !.snapshot = K])
  BY <1>6 DEF Kept, SameOrigin, Row, Statuses
<1> QED BY <1>1, <1>2, <1>3, <1>4, <1>5, <1>6
-----------------------------------------------------------------------------
(* Steps that neither end nor relay a session.                             *)

\* The sessions applied to a focus can be counted.
LEMMA AppliedCount ==
    ASSUME NEW f
    PROVE  IsFiniteSet(Applied(f)) /\ Cardinality(Applied(f)) \in Nat
           /\ Cardinality(Applied(f)) <= Cardinality(Operators)
BY FS_Subset, FS_CardinalityType, SessionsAssumption DEF Applied

\* What a row says of its predecessor: the predecessor's end does not change.
Origin(j) ==
    /\ ses[j].relayed <=> ses[j].parent # Null
    /\ ses[j].parent = Null => ses[j].from = Null
    /\ ses[j].parent # Null =>
          LET p == ses[ses[j].parent] IN
          /\ p.outcome = "applied"
          /\ IF p.slot = Null THEN ses[j].from = Null /\ ses[j].startRev = p.endRev
                              ELSE ses[j].from = ses[j].parent

\* What a successor says of its predecessor stays true: an applied end is
\* never rewritten.
LEMMA OriginKept ==
    ASSUME RowsOK, ParentOK, NEW j \in Operators, SameOrigin(ses[j], ses'[j]),
           \A n \in Operators : ses[n].outcome = "applied" =>
               ses'[n].outcome = "applied" /\ ses'[n].endRev = ses[n].endRev /\ ses'[n].slot = ses[n].slot
    PROVE  Origin(j)'
<1>1. /\ ses'[j].from = ses[j].from /\ ses'[j].relayed = ses[j].relayed
      /\ ses'[j].parent = ses[j].parent
      /\ ses[j].relayed => ses'[j].startRev = ses[j].startRev
  BY DEF SameOrigin
<1>2. Origin(j)
  BY DEF ParentOK, Origin
<1>3. ASSUME ses[j].parent # Null
      PROVE  LET p == ses'[ses[j].parent] IN
             /\ p.outcome = "applied"
             /\ IF p.slot = Null THEN ses'[j].from = Null /\ ses'[j].startRev = p.endRev
                                 ELSE ses'[j].from = ses[j].parent
  <2> DEFINE n == ses[j].parent
  <2>1. n \in Operators
    BY <1>3 DEF RowsOK, Row, Ids
  <2>2. /\ ses[n].outcome = "applied"
        /\ IF ses[n].slot = Null THEN ses[j].from = Null /\ ses[j].startRev = ses[n].endRev
                                 ELSE ses[j].from = n
    BY <1>2, <1>3 DEF Origin
  <2>3. /\ ses'[n].outcome = "applied" /\ ses'[n].slot = ses[n].slot /\ ses'[n].endRev = ses[n].endRev
    BY <2>1, <2>2
  <2>4. ses[j].relayed
    BY <1>2, <1>3 DEF Origin
  <2> HIDE DEF n
  <2> QED BY <1>1, <2>2, <2>3, <2>4 DEF n
<1> QED BY <1>1, <1>2, <1>3 DEF Origin

\* Every row is kept: only the focus may have moved on.
LEMMA KeptStep ==
    ASSUME IInv, FocusOK', SidesOK',
           DOMAIN ses' = Ids, ses' = [i \in Ids |-> ses'[i]],
           \A w \in Workers : worker'[w].do # "idle" => ses[worker'[w].t].status # "absent",
           \A i \in Ids : Kept(ses[i], ses'[i]),
           \A f \in Foci : /\ focus[f].rev <= focus'[f].rev
                           /\ focus'[f].rev - focus[f].rev = Others(f)' - Others(f)
    PROVE  IInv'
<1>1. RowsOK'
  BY DEF IInv, RowsOK, Kept
<1>2. \A i \in Operators : /\ i \in Ids /\ Kept(ses[i], ses'[i])
                           /\ ses[i].outcome = "applied" => FocusOf(i)' = FocusOf(i)
  BY DEF Ids, Kept, FocusOf
<1>3. ASSUME NEW f PROVE Applied(f)' = Applied(f)
  BY <1>2 DEF Applied, Kept
<1>4. \A f \in Foci : /\ focus[f].rev \in Nat /\ focus'[f].rev \in Nat
                      /\ Others(f) \in Nat /\ Others(f)' \in Nat
  BY DEF IInv, FocusOK, Others
<1>5. Accounted'
  <2> SUFFICES ASSUME NEW f \in Foci
               PROVE  focus'[f].rev = Cardinality(Applied(f)') + Others(f)'
    BY DEF Accounted
  <2>1. Cardinality(Applied(f)) \in Nat /\ focus[f].rev = Cardinality(Applied(f)) + Others(f)
    BY AppliedCount DEF IInv, Accounted
  <2>2. /\ focus[f].rev \in Nat /\ focus'[f].rev \in Nat /\ Others(f) \in Nat /\ Others(f)' \in Nat
        /\ focus'[f].rev - focus[f].rev = Others(f)' - Others(f)
    BY <1>4
  <2>3. Cardinality(Applied(f)') = Cardinality(Applied(f))
    BY <1>3
  <2> QED BY <2>1, <2>2, <2>3
<1>6. \A i \in Operators : FocusOf(i) \in Foci
  <2>1. \A i \in Operators : ses[i].slot \in Slots \cup {Null}
    BY DEF IInv, RowsOK, Row, Ids
  <2> QED BY <2>1 DEF FocusOf, Foci
<1>7. \A i \in Operators : ses[i].endRev \in Nat
  <2>1. \A i \in Operators : ses[i].endRev \in Revisions
    BY DEF IInv, RowsOK, Row, Ids
  <2> QED BY <2>1, RevisionsFacts
<1>8. \A i \in Operators : ses'[i].outcome = "applied" =>
         /\ ses[i].outcome = "applied"
         /\ FocusOf(i)' = FocusOf(i) /\ ses'[i].endRev = ses[i].endRev
         /\ ses'[i].endRev <= focus'[FocusOf(i)'].rev
  <2> SUFFICES ASSUME NEW i \in Operators, ses'[i].outcome = "applied"
               PROVE  /\ ses[i].outcome = "applied"
                      /\ FocusOf(i)' = FocusOf(i) /\ ses'[i].endRev = ses[i].endRev
                      /\ ses'[i].endRev <= focus'[FocusOf(i)'].rev
    OBVIOUS
  <2>1. /\ ses[i].outcome = "applied" /\ ses'[i].endRev = ses[i].endRev
        /\ FocusOf(i)' = FocusOf(i)
    BY <1>2 DEF Kept
  <2>2. ses[i].endRev <= focus[FocusOf(i)].rev
    BY <2>1 DEF IInv, AppliedOK
  <2>3. FocusOf(i) \in Foci /\ ses[i].endRev \in Nat
    BY <1>6, <1>7
  <2> QED BY <1>4, <2>1, <2>2, <2>3
<1>9. AppliedOK' /\ OneAuthorPerRevision'
  BY <1>8 DEF IInv, AppliedOK, OneAuthorPerRevision
<1>10. ParentOK'
  <2>1. \A j \in Operators : SameOrigin(ses[j], ses'[j]) /\ (ses[j].outcome = "applied" =>
           ses'[j].outcome = "applied" /\ ses'[j].endRev = ses[j].endRev /\ ses'[j].slot = ses[j].slot)
    BY <1>2 DEF Kept
  <2>2. \A j \in Operators : Origin(j)'
    BY <2>1, OriginKept DEF IInv
  <2> QED BY <2>2 DEF ParentOK, Origin
<1>11. InFlight'
  <2> SUFFICES ASSUME NEW w \in Workers, worker'[w].do # "idle"
               PROVE  ses'[worker'[w].t].status # "absent"
    BY DEF InFlight
  <2>1. worker'[w].t \in Operators
    BY DEF SidesOK, WorkerOK
  <2> QED BY <1>2, <2>1 DEF Kept
<1> QED BY <1>1, <1>5, <1>9, <1>10, <1>11 DEF IInv

\* The focus stays as well.
LEMMA RowStep ==
    ASSUME IInv, SidesOK', UNCHANGED <<focus, direct>>,
           \A w \in Workers : worker'[w].do # "idle" => ses[worker'[w].t].status # "absent",
           NEW S \in SUBSET Ids, NEW R,
           ses' = [i \in Ids |-> IF i \in S THEN R[i] ELSE ses[i]],
           \A i \in S : Kept(ses[i], R[i])
    PROVE  IInv'
<1>1. FocusOK'
  BY DEF IInv, FocusOK
<1>2. \A i \in Ids : Kept(ses[i], ses'[i])
  BY RowUpdates DEF IInv, RowsOK
<1>3. \A f \in Foci : Others(f)' = Others(f) /\ Others(f) \in Nat /\ focus[f].rev \in Nat
  BY DEF IInv, FocusOK, Others
<1> QED BY <1>1, <1>2, <1>3, KeptStep

\* A step that changes one session row, and applies nothing.
LEMMA OneRowStep ==
    ASSUME IInv, SidesOK', UNCHANGED <<focus, direct>>,
           \A w \in Workers : worker'[w].do # "idle" => ses[worker'[w].t].status # "absent",
           NEW i \in Ids, NEW r, ses' = [ses EXCEPT ![i] = r], Kept(ses[i], r)
    PROVE  IInv'
<1> DEFINE R == [k \in {i} |-> r]
<1>1. ses' = [k \in Ids |-> IF k \in {i} THEN R[k] ELSE ses[k]]
  BY DEF IInv, RowsOK
<1>2. R[i] = r /\ {i} \in SUBSET Ids
  OBVIOUS
<1> HIDE DEF R
<1> QED BY <1>1, <1>2, RowStep

\* The commands that a session gets while it is open, its start and its age.
LEMMA CommandStep ==
    ASSUME IInv,
           \/ \E i \in Operators : Start(i) \/ Heartbeat(i) \/ Abandon(i)
           \/ \E i \in Operators, s \in Slots, c \in Conns \cup {Null} : Bind(i, s, c)
           \/ \E i \in Traces, c \in Conns : AutoOpen(i, c)
           \/ \E i \in Ids : Ages(i)
    PROVE  IInv'
<1>1. UNCHANGED <<made, ledger, focus, direct, worker>>
  BY DEF Start, Heartbeat, Abandon, Bind, AutoOpen, Ages
<1>2. SidesOK' /\ \A w \in Workers : worker'[w].do # "idle" => ses[worker'[w].t].status # "absent"
  BY <1>1 DEF IInv, SidesOK, InFlight
<1>3. ses \in [Ids -> Row] /\ \A i \in Ids : /\ ses[i] \in Row
                                             /\ ses[i].status = "absent" => ses[i] = NoSession
                                             /\ ses[i].outcome = "applied" => ses[i].status = "ended"
  BY DEF IInv, RowsOK
<1>4. focus[Base].rev \in Revisions
  <2>1. Base \in Foci /\ Cardinality(Operators) \in Nat /\ MaxDirect \in Nat
    BY RevisionsFacts
  <2>2. focus[Base].rev = Cardinality(Applied(Base)) + direct /\ direct \in 0 .. MaxDirect
    BY <2>1 DEF IInv, Accounted, Others, FocusOK
  <2> QED BY <2>1, <2>2, AppliedCount DEF Revisions
<1>5. \E i \in Ids : \E r : ses' = [ses EXCEPT ![i] = r] /\ Kept(ses[i], r)
  <2>1. CASE \E i \in Operators : Start(i)
    <3>1. PICK i \in Operators : Start(i)
      BY <2>1
    <3> DEFINE r == [NoSession EXCEPT !.status = "open", !.startRev = focus[Base].rev]
    <3>2. i \in Ids /\ ses[i] = NoSession /\ ses' = [ses EXCEPT ![i] = r]
      BY <1>3, <3>1 DEF Start, Ids
    <3>3. Kept(NoSession, r)
      BY <1>4, NewRow
    <3> QED BY <3>2, <3>3
  <2>2. CASE \E i \in Traces, c \in Conns : AutoOpen(i, c)
    <3>1. PICK i \in Traces, c \in Conns : AutoOpen(i, c)
      BY <2>2
    <3> DEFINE r == [NoSession EXCEPT !.status = "open", !.conn = c, !.startRev = focus[Base].rev]
    <3>2. i \in Ids /\ ses[i] = NoSession /\ ses' = [ses EXCEPT ![i] = r]
      BY <1>3, <3>1 DEF AutoOpen, Ids
    <3>3. Kept(NoSession, r)
      BY <1>4, NewRow
    <3> QED BY <3>2, <3>3
  <2>3. CASE \E i \in Operators : Heartbeat(i) \/ Abandon(i)
    <3>1. PICK i \in Operators : Heartbeat(i) \/ Abandon(i)
      BY <2>3
    <3>2. i \in Ids /\ ses[i].status = "open"
      BY <3>1 DEF Heartbeat, Abandon, Command, Open, Ids
    <3>3. \/ ses' = [ses EXCEPT ![i] = [ses[i] EXCEPT !.age = "fresh"]]
          \/ ses' = [ses EXCEPT ![i] = [ses[i] EXCEPT !.status = "abandoned"]]
      BY <3>1 DEF Heartbeat, Abandon
    <3>4. Kept(ses[i], [ses[i] EXCEPT !.age = "fresh"]) /\ Kept(ses[i], [ses[i] EXCEPT !.status = "abandoned"])
      BY <1>3, <3>2, RowUpdates
    <3> QED BY <3>2, <3>3, <3>4
  <2>4. CASE \E i \in Operators, s \in Slots, c \in Conns \cup {Null} : Bind(i, s, c)
    <3>1. PICK i \in Operators, s \in Slots, c \in Conns \cup {Null} : Bind(i, s, c)
      BY <2>4
    <3> DEFINE S == ses[i].seen \cup ({c} \ {Null})
    <3>2. i \in Ids /\ ses[i].status = "open"
      BY <3>1 DEF Bind, Command, Open, Ids
    <3>3. ses' = [ses EXCEPT ![i] = [ses[i] EXCEPT !.slot = s, !.seen = S]]
      BY <3>1 DEF Bind
    <3>4. S \in SUBSET Conns
      BY <1>3, <3>2 DEF Row
    <3> HIDE DEF S
    <3>5. Kept(ses[i], [ses[i] EXCEPT !.slot = s, !.seen = S])
      BY <1>3, <3>2, <3>4, RowUpdates
    <3> QED BY <3>2, <3>3, <3>5
  <2>5. CASE \E i \in Ids : Ages(i)
    <3>1. PICK i \in Ids : Ages(i)
      BY <2>5
    <3>2. PICK a \in {"fresh", "quiet", "stale"} : ses' = [ses EXCEPT ![i] = [ses[i] EXCEPT !.age = a]]
      BY <3>1 DEF Ages
    <3>3. ses[i].status # "absent"
      BY <3>1 DEF Ages, Open
    <3>4. Kept(ses[i], [ses[i] EXCEPT !.age = a])
      BY <1>3, <3>3, RowUpdates
    <3> QED BY <3>2, <3>4
  <2> QED BY <2>1, <2>2, <2>3, <2>4, <2>5
<1> QED BY <1>1, <1>2, <1>5, OneRowStep

\* Sweeps, closes and observations of several sessions at once.
LEMMA SweepStep ==
    ASSUME IInv,
           \/ \E c \in Conns : Observe(c) \/ CloseTraces(TraceOf(c))
           \/ Sweep \/ CloseTraces(QuietTraces)
    PROVE  IInv'
<1>1. UNCHANGED <<made, ledger, focus, direct, worker>>
  BY DEF Observe, CloseTraces, Sweep
<1>2. SidesOK' /\ \A w \in Workers : worker'[w].do # "idle" => ses[worker'[w].t].status # "absent"
  BY <1>1 DEF IInv, SidesOK, InFlight
<1>3. \A i \in Ids : /\ ses[i] \in Row
                     /\ ses[i].status = "absent" => ses[i] = NoSession
                     /\ ses[i].outcome = "applied" => ses[i].status = "ended"
  BY DEF IInv, RowsOK
<1>4. ASSUME NEW S \in SUBSET Ids, \A i \in S : Open(i),
             ses' = [i \in Ids |-> IF i \in S THEN [ses[i] EXCEPT !.age = "fresh"] ELSE ses[i]]
      PROVE  IInv'
  <2> DEFINE R == [i \in Ids |-> [ses[i] EXCEPT !.age = "fresh"]]
  <2>1. ses' = [i \in Ids |-> IF i \in S THEN R[i] ELSE ses[i]]
    BY <1>4
  <2>2. \A i \in S : Kept(ses[i], R[i])
    BY <1>3, <1>4, RowUpdates DEF Open
  <2> HIDE DEF R
  <2> QED BY <1>1, <1>2, <2>1, <2>2, RowStep
<1>5. ASSUME NEW S \in SUBSET Ids, \A i \in S : Open(i),
             NEW out, \A i \in S : out[i] \in {"abandoned", "closed_inactive"},
             ses' = [i \in Ids |-> IF i \in S THEN Closing(i, out[i]) ELSE ses[i]]
      PROVE  IInv'
  <2> DEFINE R == [i \in Ids |-> Closing(i, out[i])]
  <2>1. ses' = [i \in Ids |-> IF i \in S THEN R[i] ELSE ses[i]]
    BY <1>5
  <2>2. \A i \in S : Kept(ses[i], R[i])
    BY <1>3, <1>5, RowUpdates DEF Open, Closing
  <2> HIDE DEF R
  <2> QED BY <1>1, <1>2, <2>1, <2>2, RowStep
<1>6. ASSUME NEW c \in Conns, Observe(c) PROVE IInv'
  <2>1. TraceOf(c) \in SUBSET Ids /\ \A i \in TraceOf(c) : Open(i)
    BY DEF TraceOf, Ids
  <2> QED BY <1>4, <1>6, <2>1 DEF Observe
<1>7. ASSUME NEW S \in SUBSET Ids, \A i \in S : Open(i), CloseTraces(S) PROVE IInv'
  <2> DEFINE out == [i \in Ids |-> "closed_inactive"]
  <2>1. ses' = [i \in Ids |-> IF i \in S THEN Closing(i, out[i]) ELSE ses[i]]
    BY <1>7 DEF CloseTraces
  <2>2. \A i \in S : out[i] \in {"abandoned", "closed_inactive"}
    OBVIOUS
  <2> HIDE DEF out
  <2> QED BY <1>5, <1>7, <2>1, <2>2
<1>8. CASE Sweep
  <2> DEFINE S == {i \in Ids : Swept(i)}
             out == [i \in Ids |-> IF ses[i].age = "stale" THEN "abandoned" ELSE "closed_inactive"]
  <2>1. ses' = [i \in Ids |-> IF i \in S THEN Closing(i, out[i]) ELSE ses[i]]
    BY <1>8 DEF Sweep
  <2>2. (S \in SUBSET Ids) /\ (\A i \in S : Open(i)) /\ \A i \in S : out[i] \in {"abandoned", "closed_inactive"}
    BY DEF Swept
  <2> HIDE DEF S, out
  <2> QED BY <1>5, <2>1, <2>2
<1>9. /\ \A c \in Conns : TraceOf(c) \in SUBSET Ids /\ \A i \in TraceOf(c) : Open(i)
      /\ QuietTraces \in SUBSET Ids /\ \A i \in QuietTraces : Open(i)
  BY DEF TraceOf, QuietTraces, Ids
<1> QED BY <1>6, <1>7, <1>8, <1>9

\* Absorptions and captures, read by read and write by write, and deposits:
\* they move artifacts, connections and ages.
LEMMA WorkerStep ==
    ASSUME IInv,
           \/ \E k \in Arts, c \in Conns : Create(k, c)
           \/ \E w \in Workers : \/ AbsorbCounts(w) \/ AbsorbMoves(w) \/ CaptureWrites(w)
                                 \/ \E t \in Operators, c \in Conns : AbsorbReads(w, t, c)
                                 \/ \E t \in Operators, k \in Arts : CaptureReads(w, t, k)
    PROVE  IInv'
<1>1. UNCHANGED <<focus, direct>>
  BY DEF Create, AbsorbCounts, AbsorbMoves, CaptureWrites, AbsorbReads, CaptureReads
<1>2. \A i \in Ids : /\ ses[i] \in Row
                     /\ ses[i].status = "absent" => ses[i] = NoSession
                     /\ ses[i].outcome = "applied" => ses[i].status = "ended"
  BY DEF IInv, RowsOK
<1>3. /\ DOMAIN worker = Workers /\ (\A w \in Workers : WorkerOK(worker[w]))
      /\ ledger \in [Arts -> Ids \cup {Null}] /\ DOMAIN made = Arts
      /\ DOMAIN ses = Ids /\ ses \in [Ids -> Row]
      /\ \A w \in Workers : worker[w].do # "idle" =>
            worker[w].t \in Operators /\ worker[w].t \in Ids /\ ses[worker[w].t].status # "absent"
      /\ Operators \subseteq Ids /\ Idle.do = "idle"
  BY DEF IInv, SidesOK, RowsOK, InFlight, WorkerOK, Ids, Idle
\* Rows: at most one, which records a connection or becomes fresh.
<1>4. ASSUME SidesOK', \A w \in Workers : worker'[w].do # "idle" => ses[worker'[w].t].status # "absent",
             UNCHANGED ses
      PROVE  IInv'
  <2>1. ses' = [i \in Ids |-> IF i \in {} THEN ses[i] ELSE ses[i]]
    BY <1>3, <1>4
  <2>2. {} \in SUBSET Ids /\ \A i \in {} : Kept(ses[i], ses[i])
    OBVIOUS
  <2> QED BY <1>1, <1>4, <2>1, <2>2, RowStep
<1>5. ASSUME SidesOK', \A w \in Workers : worker'[w].do # "idle" => ses[worker'[w].t].status # "absent",
             NEW t \in Operators, ses[t].status # "absent",
             \/ \E c \in Conns : ses' = [ses EXCEPT ![t].seen = ses[t].seen \cup {c}]
             \/ ses' = [ses EXCEPT ![t].age = "fresh"]
      PROVE  IInv'
  <2>1. t \in Ids /\ ses[t] \in Row /\ ses[t].seen \in SUBSET Conns
    BY <1>2, <1>3 DEF Row
  <2>2. CASE ses' = [ses EXCEPT ![t].age = "fresh"]
    <3>1. Kept(ses[t], [ses[t] EXCEPT !.age = "fresh"])
      BY <1>2, <1>5, <2>1, RowUpdates
    <3> QED BY <1>1, <1>5, <2>1, <2>2, <3>1, OneRowStep
  <2>3. ASSUME NEW c \in Conns, ses' = [ses EXCEPT ![t].seen = ses[t].seen \cup {c}] PROVE IInv'
    <3> DEFINE S == ses[t].seen \cup {c}
    <3>1. S \in SUBSET Conns /\ ses' = [ses EXCEPT ![t] = [ses[t] EXCEPT !.seen = S]]
      BY <2>1, <2>3
    <3> HIDE DEF S
    <3>2. Kept(ses[t], [ses[t] EXCEPT !.seen = S])
      BY <1>2, <1>5, <2>1, <3>1, RowUpdates
    <3> QED BY <1>1, <1>5, <2>1, <3>1, <3>2, OneRowStep
  <2> QED BY <1>5, <2>2, <2>3
\* The sides, one step at a time.
<1>6. ASSUME NEW k \in Arts, NEW c \in Conns, Create(k, c) PROVE IInv'
  <2>1. /\ UNCHANGED <<ses, worker>>
        /\ made' = [made EXCEPT ![k] = [since |-> {i \in Operators : ses[i].status # "absent"},
                                        open |-> {i \in Operators : Open(i)}]]
        /\ ledger' = ledger \/ \E i \in TraceOf(c) : ledger' = [ledger EXCEPT ![k] = i]
    BY <1>6 DEF Create
  <2>2. ledger' \in [Arts -> Ids \cup {Null}]
    BY <1>3, <2>1 DEF TraceOf, Ids
  <2>3. \A n \in Arts : made'[n].open \subseteq made'[n].since /\ made'[n].since \subseteq Operators \cup {Null}
    <3> DEFINE m == [since |-> {i \in Operators : ses[i].status # "absent"},
                     open |-> {i \in Operators : Open(i)}]
    <3>1. m.open \subseteq m.since /\ m.since \subseteq Operators \cup {Null}
      BY DEF Open
    <3>2. made'[k] = m /\ \A n \in Arts \ {k} : made'[n] = made[n]
      BY <1>3, <2>1
    <3> HIDE DEF m
    <3> QED BY <3>1, <3>2 DEF IInv, SidesOK
  <2>4. SidesOK'
    BY <1>3, <2>1, <2>2, <2>3 DEF SidesOK
  <2> QED BY <1>3, <1>4, <2>1, <2>4
<1>7. ASSUME NEW w \in Workers, NEW v, WorkerOK(v), worker' = [worker EXCEPT ![w] = v], UNCHANGED made,
             v.do # "idle" => ses[v.t].status # "absent",
             ledger' \in [Arts -> Ids \cup {Null}]
      PROVE  /\ SidesOK'
             /\ \A u \in Workers : worker'[u].do # "idle" => ses[worker'[u].t].status # "absent"
  <2>1. DOMAIN worker' = Workers /\ worker'[w] = v /\ \A u \in Workers \ {w} : worker'[u] = worker[u]
    BY <1>3, <1>7
  <2>2. SidesOK'
    BY <1>3, <1>7, <2>1 DEF IInv, SidesOK
  <2> QED BY <1>3, <1>7, <2>1, <2>2
<1>8. ASSUME NEW w \in Workers, NEW t \in Operators, NEW c \in Conns, AbsorbReads(w, t, c) PROVE IInv'
  <2> DEFINE v == [do |-> "absorb", t |-> t, c |-> c]
  <2>1. WorkerOK(v) /\ v.t = t
    BY DEF WorkerOK
  <2>2. worker' = [worker EXCEPT ![w] = v] /\ UNCHANGED <<ses, made, ledger>> /\ ses[t].status = "open"
    BY <1>8 DEF AbsorbReads, Open
  <2> HIDE DEF v
  <2> QED BY <1>3, <1>4, <1>7, <2>1, <2>2
<1>9. ASSUME NEW w \in Workers, NEW t \in Operators, NEW k \in Arts, CaptureReads(w, t, k) PROVE IInv'
  <2> DEFINE v == [do |-> "capture", t |-> t, k |-> k, held |-> ledger[k] # Null]
  <2>1. WorkerOK(v) /\ v.t = t
    BY DEF WorkerOK
  <2>2. worker' = [worker EXCEPT ![w] = v] /\ UNCHANGED <<ses, made, ledger>> /\ ses[t].status = "open"
    BY <1>9 DEF CaptureReads, Command, Open
  <2> HIDE DEF v
  <2> QED BY <1>3, <1>4, <1>7, <2>1, <2>2
<1>10. WorkerOK(Idle)
  BY DEF WorkerOK, Idle
<1>11. ASSUME NEW w \in Workers, AbsorbCounts(w) PROVE IInv'
  <2> DEFINE t == worker[w].t
             c == worker[w].c
             S == ses[t].seen \cup {c}
             room == Cap - Cardinality(LedgerOf(t))
             v == [do |-> "move", t |-> t, c |-> c, room |-> room,
                   donors |-> Donors(t, S), keyed |-> S # ses[t].seen]
  <2>1. /\ worker[w].do = "absorb" /\ UNCHANGED <<made, ledger>>
        /\ \/ ses' = [ses EXCEPT ![t].seen = S] /\ worker' = [worker EXCEPT ![w] = Idle]
           \/ worker' = [worker EXCEPT ![w] = v] /\ UNCHANGED ses
    BY <1>11 DEF AbsorbCounts
  <2>2. t \in Operators /\ c \in Conns /\ ses[t].status # "absent"
    BY <1>3, <2>1 DEF WorkerOK
  <2>3. WorkerOK(v) /\ v.t = t
    BY <2>2 DEF WorkerOK
  <2> HIDE DEF v, t, c
  <2>4. CASE ses' = [ses EXCEPT ![t].seen = S] /\ worker' = [worker EXCEPT ![w] = Idle]
    <3>1. /\ SidesOK'
          /\ \A u \in Workers : worker'[u].do # "idle" => ses[worker'[u].t].status # "absent"
      BY <1>3, <1>7, <1>10, <2>1, <2>4
    <3> QED BY <1>5, <2>2, <2>4, <3>1
  <2>5. CASE worker' = [worker EXCEPT ![w] = v] /\ UNCHANGED ses
    <3>1. /\ SidesOK'
          /\ \A u \in Workers : worker'[u].do # "idle" => ses[worker'[u].t].status # "absent"
      BY <1>3, <1>7, <2>1, <2>2, <2>3, <2>5
    <3> QED BY <1>4, <2>5, <3>1
  <2> QED BY <2>1, <2>4, <2>5
<1>12. ASSUME NEW w \in Workers, AbsorbMoves(w) PROVE IInv'
  <2> DEFINE t == worker[w].t
             c == worker[w].c
  <2>1. /\ worker[w].do = "move" /\ UNCHANGED made /\ worker' = [worker EXCEPT ![w] = Idle]
        /\ ses' = [ses EXCEPT ![t].seen = ses[t].seen \cup {c}]
        /\ \E M : ledger' = [k \in Arts |-> IF k \in M THEN t ELSE ledger[k]]
    BY <1>12 DEF AbsorbMoves
  <2>2. t \in Operators /\ t \in Ids /\ c \in Conns /\ ses[t].status # "absent"
    BY <1>3, <2>1 DEF WorkerOK
  <2> HIDE DEF t, c
  <2>3. ledger' \in [Arts -> Ids \cup {Null}]
    BY <1>3, <2>1, <2>2
  <2>4. /\ SidesOK'
        /\ \A u \in Workers : worker'[u].do # "idle" => ses[worker'[u].t].status # "absent"
    BY <1>3, <1>7, <1>10, <2>1, <2>3
  <2> QED BY <1>5, <2>1, <2>2, <2>4
<1>13. ASSUME NEW w \in Workers, CaptureWrites(w) PROVE IInv'
  <2> DEFINE t == worker[w].t
             k == worker[w].k
  <2>1. /\ worker[w].do = "capture" /\ UNCHANGED made /\ worker' = [worker EXCEPT ![w] = Idle]
        /\ ses' = ses \/ ses' = [ses EXCEPT ![t].age = "fresh"]
        /\ ledger' = ledger \/ ledger' = [ledger EXCEPT ![k] = t]
    BY <1>13 DEF CaptureWrites
  <2>2. t \in Operators /\ t \in Ids /\ ses[t].status # "absent"
    BY <1>3, <2>1
  <2> HIDE DEF t, k
  <2>3. ledger' \in [Arts -> Ids \cup {Null}]
    BY <1>3, <2>1, <2>2
  <2>4. /\ SidesOK'
        /\ \A u \in Workers : worker'[u].do # "idle" => ses[worker'[u].t].status # "absent"
    BY <1>3, <1>7, <1>10, <2>1, <2>3
  <2> QED BY <1>4, <1>5, <2>1, <2>2, <2>4
<1> QED BY <1>6, <1>8, <1>9, <1>11, <1>12, <1>13

\* A slot closes, or the base is updated outside sessions.
LEMMA FocusStep ==
    ASSUME IInv, UpdateFocus \/ \E s \in Slots : CloseSlot(s)
    PROVE  IInv'
<1>1. UNCHANGED <<ses, made, ledger, worker>>
  BY DEF UpdateFocus, CloseSlot
<1>2. SidesOK' /\ \A w \in Workers : worker'[w].do # "idle" => ses[worker'[w].t].status # "absent"
  BY <1>1 DEF IInv, SidesOK, InFlight
<1>3. /\ DOMAIN ses' = Ids /\ ses' = [i \in Ids |-> ses'[i]]
      /\ \A i \in Ids : Kept(ses[i], ses'[i])
  BY <1>1, RowUpdates DEF IInv, RowsOK
<1>4. /\ focus \in [Foci -> [rev : Nat, open : BOOLEAN]] /\ direct \in 0 .. MaxDirect
      /\ \A f \in Foci : focus[f].rev \in Nat /\ focus[f].open \in BOOLEAN
      /\ Base \in Foci /\ Base \notin Slots /\ Slots \subseteq Foci /\ MaxDirect \in Nat
  BY SessionsAssumption DEF IInv, FocusOK, Foci
<1>5. CASE UpdateFocus
  <2> DEFINE g == [focus[Base] EXCEPT !.rev = focus[Base].rev + 1]
  <2>1. direct < MaxDirect /\ direct' = direct + 1 /\ focus' = [focus EXCEPT ![Base] = g]
    BY <1>5 DEF UpdateFocus
  <2>2. g.rev = focus[Base].rev + 1 /\ g.open = focus[Base].open /\ g \in [rev : Nat, open : BOOLEAN]
    BY <1>4
  <2> HIDE DEF g
  <2>3. /\ focus' \in [Foci -> [rev : Nat, open : BOOLEAN]] /\ focus'[Base] = g
        /\ \A f \in Foci \ {Base} : focus'[f] = focus[f]
    BY <1>4, <2>1, <2>2
  <2>4. FocusOK'
    BY <1>4, <2>1, <2>3 DEF FocusOK
  <2>5. ASSUME NEW f \in Foci
        PROVE  focus[f].rev <= focus'[f].rev /\ focus'[f].rev - focus[f].rev = Others(f)' - Others(f)
    <3>1. CASE f = Base
      BY <1>4, <2>1, <2>2, <2>3, <3>1 DEF Others
    <3>2. CASE f # Base
      <4>1. Others(f)' = Others(f) /\ Others(f) \in Nat
        BY <2>3, <3>2 DEF Others
      <4> QED BY <1>4, <2>3, <3>2, <4>1
    <3> QED BY <3>1, <3>2
  <2> QED BY <1>2, <1>3, <2>4, <2>5, KeptStep
<1>6. ASSUME NEW s \in Slots, CloseSlot(s) PROVE IInv'
  <2> DEFINE g == [rev |-> focus[s].rev + 1, open |-> FALSE]
  <2>1. focus[s].open /\ UNCHANGED direct /\ focus' = [focus EXCEPT ![s] = g]
    BY <1>6 DEF CloseSlot
  <2>2. g.rev = focus[s].rev + 1 /\ g.open = FALSE /\ g \in [rev : Nat, open : BOOLEAN]
    BY <1>4
  <2> HIDE DEF g
  <2>3. /\ focus' \in [Foci -> [rev : Nat, open : BOOLEAN]] /\ focus'[s] = g
        /\ \A f \in Foci \ {s} : focus'[f] = focus[f]
    BY <1>4, <2>1, <2>2
  <2>4. FocusOK'
    BY <1>4, <2>1, <2>3 DEF FocusOK
  <2>5. ASSUME NEW f \in Foci
        PROVE  focus[f].rev <= focus'[f].rev /\ focus'[f].rev - focus[f].rev = Others(f)' - Others(f)
    <3>1. CASE f = s
      <4>1. Others(f) = 0 /\ Others(f)' = 1
        BY <1>4, <2>1, <2>2, <2>3, <3>1 DEF Others
      <4> QED BY <1>4, <2>2, <2>3, <3>1, <4>1
    <3>2. CASE f # s
      <4>1. Others(f)' = Others(f) /\ Others(f) \in Nat
        BY <1>4, <2>1, <2>3, <3>2 DEF Others
      <4> QED BY <1>4, <2>3, <3>2, <4>1
    <3> QED BY <3>1, <3>2
  <2> QED BY <1>2, <1>3, <2>4, <2>5, KeptStep
<1> QED BY <1>5, <1>6
-----------------------------------------------------------------------------
(* Ends and relays.                                                        *)

\* A session that is still open has not used up its revision.
LEMMA RoomToWrite ==
    ASSUME IInv, NEW i \in Operators, Open(i)
    PROVE  /\ FocusOf(i) \in Foci /\ focus[FocusOf(i)].rev \in Nat
           /\ focus[FocusOf(i)].rev \in Revisions /\ focus[FocusOf(i)].rev + 1 \in Revisions
<1> DEFINE f == FocusOf(i)
<1>1. i \in Ids /\ ses[i] \in Row /\ ses[i].slot \in Slots \cup {Null} /\ ses[i].outcome # "applied"
  BY DEF IInv, RowsOK, Row, Ids, Open
<1>2. f \in Foci
  BY <1>1 DEF FocusOf, Foci
<1> HIDE DEF f
<1>3. Applied(f) \subseteq Operators \ {i}
  BY <1>1 DEF Applied
<1>4. /\ IsFiniteSet(Operators \ {i})
      /\ Cardinality(Operators \ {i}) = Cardinality(Operators) - 1
  BY FS_RemoveElement, SessionsAssumption
<1>5. /\ Cardinality(Applied(f)) \in Nat /\ Cardinality(Operators) \in Nat
      /\ Cardinality(Applied(f)) <= Cardinality(Operators) - 1
  BY <1>3, <1>4, FS_Subset, FS_CardinalityType, SessionsAssumption
<1>6. Others(f) \in 0 .. MaxDirect + 1 /\ MaxDirect \in Nat
  BY SessionsAssumption DEF IInv, FocusOK, Others
<1>7. focus[f].rev = Cardinality(Applied(f)) + Others(f)
  BY <1>2 DEF IInv, Accounted
<1> QED BY <1>2, <1>5, <1>6, <1>7 DEF Revisions, f

\* The row of a successor, and the base revision it starts from.
SuccessorRow(i, rev) ==
    [NoSession EXCEPT !.status = "open", !.relayed = TRUE, !.slot = ses[i].slot, !.parent = i,
                  !.from = IF ses[i].slot = Null THEN Null ELSE i, !.startRev = rev]

\* Applying a session's handoff moves its focus one revision on, with the
\* session as the only author, and may open its successor.
LEMMA ApplyStep ==
    ASSUME IInv, UNCHANGED <<made, ledger, direct, worker>>,
           NEW i \in Operators, Open(i), NEW f, f = FocusOf(i),
           focus' = [focus EXCEPT ![f].rev = focus[f].rev + 1],
           DOMAIN ses' = Ids, ses' = [k \in Ids |-> ses'[k]],
           ses'[i] = Ended(i, "applied", focus[f].rev + 1),
           \A k \in Ids \ {i} :
              \/ ses'[k] = ses[k]
              \/ k \in Operators /\ ses[k] = NoSession /\ ses'[k] = SuccessorRow(i, focus'[Base].rev)
    PROVE  IInv'
<1> DEFINE rev == focus[f].rev
           S == {k \in Operators \ {i} : ses'[k] # ses[k]}
<1>1. /\ f \in Foci /\ rev \in Nat /\ rev \in Revisions /\ rev + 1 \in Revisions
      /\ Base \in Foci /\ Base \notin Slots /\ Null \notin Operators /\ i \in Ids /\ Operators \subseteq Ids
  BY RoomToWrite, RevisionsFacts, SessionsAssumption DEF Ids
<1>2. /\ ses[i] \in Row /\ ses[i].status = "open" /\ ses[i].outcome # "applied"
      /\ \A k \in Ids : ses[k] \in Row
  BY <1>1 DEF IInv, RowsOK, Open
<1>3. /\ focus \in [Foci -> [rev : Nat, open : BOOLEAN]]
      /\ \A g \in Foci : focus[g] \in [rev : Nat, open : BOOLEAN] /\ focus[g].rev \in Nat
  BY DEF IInv, FocusOK
<1>4. /\ focus' \in [Foci -> [rev : Nat, open : BOOLEAN]]
      /\ focus'[f].rev = rev + 1 /\ focus'[f].open = focus[f].open
      /\ \A g \in Foci \ {f} : focus'[g] = focus[g]
  <2> DEFINE v == [focus[f] EXCEPT !.rev = rev + 1]
  <2>1. v \in [rev : Nat, open : BOOLEAN] /\ v.rev = rev + 1 /\ v.open = focus[f].open
    BY <1>1, <1>3
  <2>2. focus' = [focus EXCEPT ![f] = v]
    OBVIOUS
  <2> HIDE DEF v, rev
  <2> QED BY <1>1, <1>3, <2>1, <2>2
<1>5. focus'[Base].rev \in Revisions
  <2>1. focus[Base].rev \in Revisions
    <3>1. Cardinality(Operators) \in Nat /\ MaxDirect \in Nat
      BY RevisionsFacts
    <3>2. focus[Base].rev = Cardinality(Applied(Base)) + direct /\ direct \in 0 .. MaxDirect
      BY <1>1 DEF IInv, Accounted, Others, FocusOK
    <3> QED BY <3>1, <3>2, AppliedCount DEF Revisions
  <2> QED BY <1>1, <1>4, <2>1
<1> HIDE DEF rev
<1>6. /\ ses'[i] \in Row /\ SameOrigin(ses[i], ses'[i])
      /\ ses'[i].status = "ended" /\ ses'[i].outcome = "applied"
      /\ ses'[i].endRev = rev + 1 /\ ses'[i].slot = ses[i].slot
  <2>2. LedgerOf(i) \in SUBSET Arts
    BY DEF LedgerOf
  <2> DEFINE K == LedgerOf(i)
             e == rev + 1
             q == [ses[i] EXCEPT !.status = "ended", !.outcome = "applied", !.endRev = e, !.snapshot = K]
  <2>3. ses'[i] = q
    BY DEF Ended, rev
  <2> HIDE DEF K, e
  <2>4. /\ q \in Row /\ SameOrigin(ses[i], q) /\ q.status = "ended" /\ q.outcome = "applied"
        /\ q.endRev = e /\ q.slot = ses[i].slot
    <3>1. K \in SUBSET Arts /\ e \in Revisions
      BY <1>1, <2>2 DEF K, e
    <3>2. q \in Row
      BY <1>2, <3>1 DEF Row, Statuses
    <3> QED BY <1>2, <3>2 DEF SameOrigin, Row
  <2> HIDE DEF q
  <2> QED BY <2>3, <2>4 DEF e
<1>7. ASSUME NEW k \in S
      PROVE  /\ k \in Operators /\ k # i /\ ses[k] = NoSession /\ ses'[k] \in Row /\ ses'[k].status = "open"
             /\ ses'[k].outcome = Null /\ ses'[k].relayed = TRUE /\ ses'[k].parent = i
             /\ ses'[k].from = (IF ses[i].slot = Null THEN Null ELSE i)
             /\ ses'[k].startRev = focus'[Base].rev
  <2>1. k \in Operators /\ k # i /\ ses[k] = NoSession /\ ses'[k] = SuccessorRow(i, focus'[Base].rev)
    BY <1>1
  <2>2. NoSession \in Row /\ NoSession.outcome = Null
    BY <1>1, NewRow DEF NoSession
  <2> DEFINE fr == IF ses[i].slot = Null THEN Null ELSE i
  <2>3. ses[i].slot \in Slots \cup {Null} /\ fr \in Operators \cup {Null}
    BY <1>2 DEF Row
  <2> DEFINE e == focus'[Base].rev
             sl == ses[i].slot
             q == [NoSession EXCEPT !.status = "open", !.relayed = TRUE, !.slot = sl, !.parent = i,
                                !.from = fr, !.startRev = e]
  <2>4. ses'[k] = q
    BY <2>1 DEF SuccessorRow
  <2>5. e \in Revisions /\ sl \in Slots \cup {Null}
    BY <1>5, <2>3
  <2> HIDE DEF fr, e, sl
  <2>6. /\ q \in Row /\ q.status = "open" /\ q.outcome = Null /\ q.relayed = TRUE
        /\ q.parent = i /\ q.from = fr /\ q.startRev = e
    <3>1. q \in Row
      BY <2>2, <2>3, <2>5 DEF Row, Statuses
    <3> QED BY <2>2, <3>1 DEF Row
  <2> HIDE DEF q
  <2> QED BY <2>1, <2>4, <2>6 DEF fr, e
<1>8. \A k \in Ids : k = i \/ k \in S \/ (k # i /\ ses'[k] = ses[k])
  OBVIOUS
<1> HIDE DEF S
<1>9. Null # "applied" /\ NoSession.outcome = Null
  BY DEF Null, NoSession
<1>10. RowsOK'
  <2> SUFFICES ASSUME NEW k \in Ids
               PROVE  /\ ses'[k] \in Row
                      /\ ses'[k].status = "absent" => ses'[k] = NoSession
                      /\ ses'[k].outcome = "applied" => ses'[k].status = "ended"
    BY DEF RowsOK
  <2>1. CASE k = i
    BY <1>6, <2>1
  <2>2. CASE k \in S
    BY <1>7, <1>9, <2>2
  <2>3. CASE ses'[k] = ses[k]
    BY <2>3 DEF IInv, RowsOK
  <2> QED BY <1>8, <2>1, <2>2, <2>3
<1>11. FocusOK' /\ SidesOK'
  BY <1>4 DEF IInv, FocusOK, SidesOK
<1>12. InFlight'
  <2> SUFFICES ASSUME NEW w \in Workers, worker[w].do # "idle"
               PROVE  ses'[worker[w].t].status # "absent"
    BY DEF InFlight
  <2>1. worker[w].t \in Ids /\ ses[worker[w].t].status # "absent"
    BY <1>1 DEF IInv, SidesOK, WorkerOK, InFlight
  <2> QED BY <1>6, <1>7, <1>8, <2>1
<1>13. /\ FocusOf(i)' = f
       /\ \A k \in Operators : ses'[k].outcome = "applied" =>
             k = i \/ (k # i /\ ses'[k] = ses[k] /\ FocusOf(k)' = FocusOf(k) /\ FocusOf(k) \in Foci)
  <2>1. FocusOf(i)' = f
    BY <1>6 DEF FocusOf
  <2>2. ASSUME NEW k \in Operators, ses'[k].outcome = "applied", k # i
        PROVE  ses'[k] = ses[k] /\ FocusOf(k)' = FocusOf(k) /\ FocusOf(k) \in Foci
    <3>1. ses'[k] = ses[k]
      BY <1>1, <1>7, <1>8, <1>9, <2>2
    <3>2. ses[k].slot \in Slots \cup {Null}
      BY <1>1, <1>2 DEF Row
    <3> QED BY <3>1, <3>2 DEF FocusOf, Foci
  <2> QED BY <2>1, <2>2
<1>14. ASSUME NEW g \in Foci PROVE Applied(g)' = IF g = f THEN Applied(g) \cup {i} ELSE Applied(g)
  <2>1. \A k \in Operators : ses[k].outcome = "applied" => k # i /\ ses'[k] = ses[k] /\ FocusOf(k)' = FocusOf(k)
    <3> SUFFICES ASSUME NEW k \in Operators, ses[k].outcome = "applied"
                 PROVE  k # i /\ ses'[k] = ses[k] /\ FocusOf(k)' = FocusOf(k)
      OBVIOUS
    <3>1. k # i /\ k \notin S
      BY <1>2, <1>7, <1>9
    <3>2. ses'[k] = ses[k]
      BY <1>1, <1>8, <3>1
    <3> QED BY <3>1, <3>2 DEF FocusOf
  <2>2. \A k \in Operators : k \in Applied(g)' <=> k \in Applied(g) \/ (k = i /\ g = f)
    BY <1>6, <1>13, <2>1 DEF Applied
  <2>3. Applied(g)' \subseteq Operators /\ Applied(g) \subseteq Operators
    BY DEF Applied
  <2> QED BY <2>2, <2>3
<1>15. Accounted'
  <2> SUFFICES ASSUME NEW g \in Foci
               PROVE  focus'[g].rev = Cardinality(Applied(g)') + Others(g)'
    BY DEF Accounted
  <2>1. focus[g].rev = Cardinality(Applied(g)) + Others(g) /\ Cardinality(Applied(g)) \in Nat
        /\ IsFiniteSet(Applied(g))
    BY AppliedCount DEF IInv, Accounted
  <2>2. Others(g)' = Others(g) /\ Others(g) \in Nat
    BY <1>4 DEF Others, IInv, FocusOK
  <2>3. CASE g = f
    <3>1. i \notin Applied(g)
      BY <1>2 DEF Applied
    <3>2. Cardinality(Applied(g) \cup {i}) = Cardinality(Applied(g)) + 1
      BY <2>1, <3>1, FS_AddElement
    <3>3. Cardinality(Applied(g)') = Cardinality(Applied(g)) + 1
      BY <1>14, <2>3, <3>2
    <3>4. focus'[g].rev = focus[g].rev + 1
      BY <1>4, <2>3 DEF rev
    <3> QED BY <2>1, <2>2, <3>3, <3>4
  <2>4. CASE g # f
    BY <1>4, <1>14, <2>1, <2>2, <2>4
  <2> QED BY <2>3, <2>4
<1>16. \A k \in Operators : ses[k].outcome = "applied" => ses[k].endRev \in Nat /\ ses[k].endRev <= focus[FocusOf(k)].rev
  <2>1. \A k \in Operators : ses[k].endRev \in Revisions
    BY <1>1, <1>2 DEF Row
  <2> QED BY <2>1, RevisionsFacts DEF IInv, AppliedOK
<1>17. AppliedOK'
  <2> SUFFICES ASSUME NEW k \in Operators, ses'[k].outcome = "applied"
               PROVE  ses'[k].endRev <= focus'[FocusOf(k)'].rev
    BY DEF AppliedOK
  <2>1. CASE k = i
    BY <1>1, <1>4, <1>6, <1>13, <2>1
  <2>2. CASE k # i
    <3>1. ses'[k] = ses[k] /\ FocusOf(k)' = FocusOf(k) /\ FocusOf(k) \in Foci
      BY <1>13, <2>2
    <3>2. ses[k].endRev \in Nat /\ ses[k].endRev <= focus[FocusOf(k)].rev
      BY <1>16, <3>1
    <3>3. focus[FocusOf(k)].rev \in Nat /\ focus'[FocusOf(k)].rev \in Nat
          /\ focus[FocusOf(k)].rev <= focus'[FocusOf(k)].rev
      <4>1. CASE FocusOf(k) = f
        BY <1>1, <1>4, <4>1 DEF rev
      <4>2. CASE FocusOf(k) # f
        BY <1>3, <1>4, <3>1, <4>2
      <4> QED BY <4>1, <4>2
    <3> QED BY <3>1, <3>2, <3>3
  <2> QED BY <2>1, <2>2
<1>18. OneAuthorPerRevision'
  <2>1. ASSUME NEW k \in Operators, ses'[k].outcome = "applied", k # i, FocusOf(k)' = f
        PROVE  ses'[k].endRev # ses'[i].endRev
    <3>1. ses'[k] = ses[k] /\ FocusOf(k) = f
      BY <1>13, <2>1
    <3>2. ses[k].endRev \in Nat /\ ses[k].endRev <= rev
      BY <1>16, <2>1, <3>1 DEF rev
    <3> QED BY <1>1, <1>6, <3>1, <3>2
  <2>2. ASSUME NEW k \in Operators, NEW m \in Operators, k # m, ses'[k].outcome = "applied",
               ses'[m].outcome = "applied", FocusOf(k)' = FocusOf(m)'
        PROVE  ses'[k].endRev # ses'[m].endRev
    <3>1. CASE k = i \/ m = i
      BY <1>13, <2>1, <2>2, <3>1
    <3>2. CASE k # i /\ m # i
      BY <1>13, <2>2, <3>2 DEF IInv, OneAuthorPerRevision
    <3> QED BY <3>1, <3>2
  <2>3. \A k \in Operators : ses'[k].outcome = "applied" => ses'[k].endRev <= focus'[FocusOf(k)'].rev
    BY <1>17 DEF AppliedOK
  <2> QED BY <2>2, <2>3 DEF OneAuthorPerRevision
<1>19. ParentOK'
  <2>1. \A n \in Operators : ses[n].outcome = "applied" =>
           ses'[n].outcome = "applied" /\ ses'[n].endRev = ses[n].endRev /\ ses'[n].slot = ses[n].slot
    BY <1>1, <1>2, <1>7, <1>8, <1>9
  <2>2. ASSUME NEW j \in Operators PROVE Origin(j)'
    <3>1. CASE j \in S
      <4>1. ses[i].slot = Null => f = Base
        BY DEF FocusOf
      <4>2. /\ ses'[j].relayed = TRUE /\ ses'[j].parent = i /\ i # Null
            /\ ses'[j].from = IF ses[i].slot = Null THEN Null ELSE i
            /\ ses'[j].startRev = focus'[Base].rev
        BY <1>1, <1>7, <3>1
      <4>3. ses'[i].slot = Null => ses'[j].from = Null /\ ses'[j].startRev = ses'[i].endRev
        BY <1>4, <1>6, <4>1, <4>2
      <4>4. ses'[i].slot # Null => ses'[j].from = i
        BY <1>6, <4>2
      <4> QED BY <1>6, <4>2, <4>3, <4>4 DEF Origin
    <3>2. CASE j \notin S
      <4>1. SameOrigin(ses[j], ses'[j])
        BY <1>1, <1>6, <1>8, <3>2 DEF SameOrigin
      <4> QED BY <2>1, <4>1, OriginKept DEF IInv
    <3> QED BY <3>1, <3>2
  <2> QED BY <2>2 DEF ParentOK, Origin
<1> QED BY <1>10, <1>11, <1>12, <1>15, <1>17, <1>18, <1>19 DEF IInv

\* An end that applies its focus, one that records a conflict.
LEMMA EndStep ==
    ASSUME IInv, NEW i \in Operators, NEW exp, End(i, exp)
    PROVE  IInv'
<1> DEFINE f == FocusOf(i)
<1>1. /\ Open(i) /\ UNCHANGED <<made, ledger, direct, worker>>
      /\ \/ /\ focus[f].rev = exp /\ focus' = [focus EXCEPT ![f].rev = exp + 1]
            /\ ses' = [ses EXCEPT ![i] = Ended(i, "applied", exp + 1)]
         \/ ses' = [ses EXCEPT ![i] = Ended(i, "conflict", focus[f].rev)] /\ UNCHANGED focus
  BY DEF End, Command, Applies
<1>2. ses \in [Ids -> Row] /\ i \in Ids
  BY DEF IInv, RowsOK, Ids
<1>3. CASE /\ focus[f].rev = exp /\ focus' = [focus EXCEPT ![f].rev = exp + 1]
           /\ ses' = [ses EXCEPT ![i] = Ended(i, "applied", exp + 1)]
  <2>1. /\ focus' = [focus EXCEPT ![f].rev = focus[f].rev + 1]
        /\ ses' = [ses EXCEPT ![i] = Ended(i, "applied", focus[f].rev + 1)]
    BY <1>3
  <2>2. /\ DOMAIN ses' = Ids /\ ses' = [k \in Ids |-> ses'[k]]
        /\ ses'[i] = Ended(i, "applied", focus[f].rev + 1)
        /\ \A k \in Ids \ {i} : ses'[k] = ses[k]
    BY <1>2, <2>1
  <2> HIDE DEF f
  <2> QED BY <1>1, <2>1, <2>2, ApplyStep DEF f
<1>4. CASE ses' = [ses EXCEPT ![i] = Ended(i, "conflict", focus[f].rev)] /\ UNCHANGED focus
  <2>1. SidesOK' /\ \A w \in Workers : worker'[w].do # "idle" => ses[worker'[w].t].status # "absent"
    BY <1>1 DEF IInv, SidesOK, InFlight
  <2>2. focus[f].rev \in Revisions /\ LedgerOf(i) \in SUBSET Arts
    BY <1>1, RoomToWrite DEF LedgerOf
  <2>3. /\ ses[i] \in Row /\ (ses[i].status = "absent" => ses[i] = NoSession)
        /\ (ses[i].outcome = "applied" => ses[i].status = "ended") /\ ses[i].status = "open"
    BY <1>1, <1>2 DEF IInv, RowsOK, Open
  <2>4. Kept(ses[i], Ended(i, "conflict", focus[f].rev))
    BY <2>2, <2>3, RowUpdates DEF Ended
  <2> HIDE DEF f
  <2> QED BY <1>1, <1>2, <1>4, <2>1, <2>4, OneRowStep
<1> QED BY <1>1, <1>3, <1>4

\* A relay ends one session and starts another.
LEMMA RelayStep ==
    ASSUME IInv, NEW i \in Operators, NEW j \in Operators, NEW exp, Relay(i, j, exp)
    PROVE  IInv'
<1> DEFINE f == FocusOf(i)
           new == SuccessorRow(i, focus'[Base].rev)
           old == Ended(i, "applied", focus[f].rev + 1)
<1>1. /\ Open(i) /\ ses[j].status = "absent" /\ UNCHANGED <<made, ledger, direct, worker>>
      /\ focus' = [focus EXCEPT ![f].rev = focus[f].rev + 1]
      /\ ses' = [ses EXCEPT ![i] = old, ![j] = new]
  BY DEF Relay, Command, Applies, SuccessorRow
<1>2. ses \in [Ids -> Row] /\ i \in Ids /\ j \in Ids /\ ses[j] = NoSession /\ i # j
  BY <1>1 DEF IInv, RowsOK, Ids, Open
<1> HIDE DEF new, old
<1>3. /\ DOMAIN ses' = Ids /\ ses' = [k \in Ids |-> ses'[k]]
      /\ ses'[i] = old /\ ses'[j] = new
      /\ \A k \in Ids \ {i, j} : ses'[k] = ses[k]
  BY <1>1, <1>2
<1>4. \A k \in Ids \ {i} :
         \/ ses'[k] = ses[k]
         \/ k \in Operators /\ ses[k] = NoSession /\ ses'[k] = new
  BY <1>2, <1>3
<1> HIDE DEF f
<1> QED BY <1>1, <1>3, <1>4, ApplyStep DEF f, new, old
-----------------------------------------------------------------------------
(* The theorems.                                                           *)

\* Nothing has started, every focus is at revision 0.
LEMMA InitIInv == ASSUME SessionsInit PROVE IInv
<1>1. NoSession \in Row /\ NoSession.status = "absent" /\ NoSession.outcome # "applied" /\ Idle.do = "idle"
      /\ NoSession.relayed = FALSE /\ NoSession.parent = Null /\ NoSession.from = Null
  BY NewRow, RevisionsFacts DEF NoSession, Null, Idle
<1>2. \A i \in Ids : ses[i] = NoSession
  BY DEF SessionsInit
<1>3. RowsOK
  BY <1>1, <1>2 DEF RowsOK, SessionsInit
<1>4. FocusOK
  BY SessionsAssumption DEF FocusOK, SessionsInit, Foci
<1>5. SidesOK /\ InFlight
  <2>1. WorkerOK(Idle)
    BY <1>1 DEF WorkerOK
  <2>2. NotMade.open \subseteq NotMade.since /\ NotMade.since \subseteq Operators \cup {Null}
    BY DEF NotMade
  <2>3. \A k \in Arts : made[k] = NotMade
    BY DEF SessionsInit
  <2>4. \A w \in Workers : worker[w] = Idle
    BY DEF SessionsInit
  <2> QED BY <1>1, <2>1, <2>2, <2>3, <2>4 DEF SidesOK, InFlight, SessionsInit
<1>6. \A i \in Operators : i \in Ids /\ ses[i] = NoSession /\ ses[i].outcome # "applied"
  BY <1>1, <1>2 DEF Ids
<1>7. AppliedOK /\ OneAuthorPerRevision
  BY <1>6 DEF AppliedOK, OneAuthorPerRevision
<1>8. Accounted
  <2> SUFFICES ASSUME NEW f \in Foci PROVE focus[f].rev = Cardinality(Applied(f)) + Others(f)
    BY DEF Accounted
  <2>1. Applied(f) = {}
    BY <1>6 DEF Applied
  <2>2. Cardinality(Applied(f)) = 0
    BY <2>1, FS_EmptySet
  <2>3. focus[f].rev = 0 /\ focus[f].open = TRUE /\ direct = 0
    BY DEF SessionsInit, Foci
  <2> QED BY <2>2, <2>3 DEF Others
<1>9. ParentOK
  BY <1>1, <1>6 DEF ParentOK
<1> QED BY <1>3, <1>4, <1>5, <1>7, <1>8, <1>9 DEF IInv

\* One step per group of actions.
LEMMA NextIInv == ASSUME IInv, [SessionsNext]_sessionsVars PROVE IInv'
<1>1. CASE UNCHANGED sessionsVars
  BY <1>1 DEF sessionsVars, IInv, RowsOK, FocusOK, SidesOK, InFlight, Accounted, Applied, Others, FocusOf,
              AppliedOK, ParentOK, OneAuthorPerRevision
<1>2. ASSUME \/ \E i \in Operators : Start(i) \/ Heartbeat(i) \/ Abandon(i)
             \/ \E i \in Operators, s \in Slots, c \in Conns \cup {Null} : Bind(i, s, c)
             \/ \E i \in Traces, c \in Conns : AutoOpen(i, c)
             \/ \E i \in Ids : Ages(i)
      PROVE  IInv'
  BY <1>2, CommandStep
<1>3. ASSUME NEW i \in Operators, NEW exp \in Revisions,
             End(i, exp) \/ \E j \in Operators : Relay(i, j, exp)
      PROVE  IInv'
  BY <1>3, EndStep, RelayStep
<1>4. ASSUME \/ \E c \in Conns : Observe(c) \/ CloseTraces(TraceOf(c))
             \/ Sweep \/ CloseTraces(QuietTraces)
      PROVE  IInv'
  BY <1>4, SweepStep
<1>5. ASSUME \/ \E k \in Arts, c \in Conns : Create(k, c)
             \/ \E w \in Workers : \/ AbsorbCounts(w) \/ AbsorbMoves(w) \/ CaptureWrites(w)
                                   \/ \E t \in Operators, c \in Conns : AbsorbReads(w, t, c)
                                   \/ \E t \in Operators, k \in Arts : CaptureReads(w, t, k)
      PROVE  IInv'
  BY <1>5, WorkerStep
<1>6. ASSUME UpdateFocus \/ \E s \in Slots : CloseSlot(s) PROVE IInv'
  BY <1>6, FocusStep
<1> QED BY <1>1, <1>2, <1>3, <1>4, <1>5, <1>6 DEF SessionsNext

\* The invariant is inductive: it holds of every reachable state.
THEOREM InvariantHolds == SessionsSpec => []IInv
BY InitIInv, NextIInv, PTL DEF SessionsSpec

\* Sessions, ledger, focus and workers keep their shapes; in particular the
\* revisions stay within what the sessions, the direct updates and the closes
\* can have written.
THEOREM TypeCorrect == SessionsSpec => []SessionsTypeOK
<1>1. IInv => SessionsTypeOK
  <2> SUFFICES ASSUME IInv PROVE SessionsTypeOK
    OBVIOUS
  <2>1. \A i \in Ids : ses[i] \in Row
    BY DEF IInv, RowsOK
  <2>2. \A i \in Ids :
           /\ ses[i].status \in Statuses /\ ses[i].age \in {"fresh", "quiet", "stale"}
           /\ ses[i].conn \in Conns \cup {Null} /\ ses[i].seen \subseteq Conns
           /\ ses[i].slot \in Slots \cup {Null}
           /\ {ses[i].from, ses[i].parent} \subseteq Operators \cup {Null}
           /\ ses[i].startRev \in Revisions /\ ses[i].endRev \in Revisions
           /\ ses[i].outcome \in {Null, "applied", "conflict"}
           /\ ses[i].snapshot \subseteq Arts
    BY <2>1 DEF Row
  <2>3. ASSUME NEW f \in Slots \cup {Base} PROVE focus[f].rev \in Revisions /\ focus[f].open \in BOOLEAN
    <3>1. f \in Foci
      BY DEF Foci
    <3>2. /\ focus[f].rev = Cardinality(Applied(f)) + Others(f)
          /\ focus[f].open \in BOOLEAN /\ direct \in 0 .. MaxDirect
      BY <3>1 DEF IInv, Accounted, FocusOK
    <3>3. Others(f) \in 0 .. MaxDirect + 1 /\ MaxDirect \in Nat /\ Cardinality(Operators) \in Nat
      BY <3>2, RevisionsFacts DEF Others
    <3>4. Cardinality(Applied(f)) \in Nat /\ Cardinality(Applied(f)) <= Cardinality(Operators)
      BY AppliedCount
    <3>5. focus[f].rev \in Revisions
      BY <3>2, <3>3, <3>4 DEF Revisions
    <3> QED BY <3>2, <3>5
  <2>4. \A k \in Arts : ledger[k] \in Ids \cup {Null} /\ made[k].open \subseteq made[k].since
                        /\ made[k].since \subseteq Operators \cup {Null}
    BY DEF IInv, SidesOK
  <2>5. direct \in 0 .. MaxDirect /\ \A w \in Workers : worker[w].do \in {"idle", "absorb", "move", "capture"}
    BY DEF IInv, SidesOK, WorkerOK, FocusOK
  <2> QED BY <2>2, <2>3, <2>4, <2>5 DEF SessionsTypeOK
<1> QED BY <1>1, InvariantHolds, PTL

\* No focus write is lost: each revision of the base or of a slot that a
\* session applied was applied by that session alone
\* (_apply_focus_if_current), whatever relays, binds, sweeps, captures and
\* direct updates happen in between.
THEOREM OneAuthorTheorem == SessionsSpec => []OneAuthorPerRevision
<1>1. IInv => OneAuthorPerRevision
  BY DEF IInv
<1> QED BY <1>1, InvariantHolds, PTL

\* The revision of every focus is exactly the number of writes it got: the
\* sessions that applied it, the direct updates of the base and the close of
\* the slot (_apply_focus_if_current, brain_update_project_focus, close).
THEOREM AccountedTheorem == SessionsSpec => []Accounted
<1>1. IInv => Accounted
  BY DEF IInv
<1> QED BY <1>1, InvariantHolds, PTL

\* A retried relay is answered with its own successor, and a session that
\* ended otherwise with nobody's, although no row names the predecessor of a
\* base relay: the base revision a successor starts from has one author
\* (_replay_relay, _find_base_successor).
THEOREM RelayTheorem == SessionsSpec => []RelayReplayIsOwn
<1>1. IInv => RelayReplayIsOwn
  <2> SUFFICES ASSUME IInv, NEW i \in Operators, NEW j \in Operators
               PROVE  Successor(i, j) <=> ses[j].parent = i
    BY DEF RelayReplayIsOwn
  <2>1. Null \notin Operators
    BY SessionsAssumption
  <2>2. \A n \in Operators : Origin(n)
    BY DEF IInv, ParentOK, Origin
  <2>3. \A n \in Operators : ses[n].from = i => ses[n].parent = i
    BY <2>1, <2>2 DEF Origin
  <2>4. ASSUME ses[j].parent = i PROVE Successor(i, j)
    <3>1. CASE ses[i].slot = Null
      <4>1. \A n \in Operators : ses[n].from # i
        BY <2>1, <2>2, <2>3, <3>1 DEF Origin
      <4>2. ses[i].outcome = "applied" /\ ses[j].relayed /\ ses[j].from = Null
            /\ ses[j].startRev = ses[i].endRev
        BY <2>1, <2>2, <2>4, <3>1 DEF Origin
      <4> QED BY <3>1, <4>1, <4>2 DEF Successor, FindBaseSuccessor
    <3>2. CASE ses[i].slot # Null
      BY <2>1, <2>2, <2>4, <3>2 DEF Origin, Successor
    <3> QED BY <3>1, <3>2
  <2>5. ASSUME Successor(i, j) PROVE ses[j].parent = i
    <3>1. CASE ses[j].from = i
      BY <2>3, <3>1
    <3>2. CASE ses[i].slot = Null /\ FindBaseSuccessor(i, j)
      <4> DEFINE p == ses[j].parent
      <4>1. /\ ses[i].outcome = "applied" /\ ses[j].relayed /\ ses[j].from = Null
            /\ ses[j].startRev = ses[i].endRev
        BY <3>2 DEF FindBaseSuccessor
      <4>2. p # Null
        BY <2>2, <4>1 DEF Origin
      <4>3. p \in Operators
        BY <4>2 DEF IInv, RowsOK, Row, Ids
      <4>4. ses[p].outcome = "applied" /\ ses[p].slot = Null /\ ses[j].startRev = ses[p].endRev
        BY <2>1, <2>2, <4>1, <4>2, <4>3 DEF Origin
      <4>5. FocusOf(p) = Base /\ FocusOf(i) = Base
        BY <3>2, <4>4 DEF FocusOf
      <4> HIDE DEF p
      <4>6. p = i
        BY <4>1, <4>3, <4>4, <4>5 DEF IInv, OneAuthorPerRevision
      <4> QED BY <4>6 DEF p
    <3> QED BY <2>5, <3>1, <3>2 DEF Successor
  <2> QED BY <2>4, <2>5
<1> QED BY <1>1, InvariantHolds, PTL
=============================================================================
