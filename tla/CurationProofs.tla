--------------------------- MODULE CurationProofs ---------------------------
(***************************************************************************)
(* The two components that curate knowledge and tickets: merges never form *)
(* a chain (MergeChains), and a finished extraction leaves nothing to      *)
(* triage (Triage). They share no state; each part has its own inductive   *)
(* invariant.                                                              *)
(***************************************************************************)
EXTENDS MergeChains, Triage, WellFoundedInduction, FiniteSetTheorems, TLAPS

-----------------------------------------------------------------------------
(***************************************************************************)
(* That no interleaving of merges commits a chain of merge pointers, for   *)
(* every table and every number of transactions of every kind.             *)
(*                                                                         *)
(* The argument is the one the deferred trigger is written for.  Whatever  *)
(* a transaction is about to redirect it holds for update (OwnInv), and    *)
(* what it points to it holds FOR SHARE once checked (TargetInv).  These   *)
(* locks conflict (MergeLockInv), so between the check of a row and the    *)
(* commit nobody else commits a pointer at a row it redirects (ChildInv)   *)
(* or redirects its target.                                                *)
(***************************************************************************)

\* A transaction has its eight fields, whatever they hold.
Fields == {"at", "op", "want", "seen", "pass", "held", "own", "check"}
Shape(r) == DOMAIN r = Fields /\ r = [x \in Fields |-> r[x]]

\* Two transactions never hold conflicting locks on a row.
MergeLockInv ==
    \A p, q \in Txns : p # q =>
        \A l \in txn[p].held, m \in txn[q].held : l[1] = m[1] => ~Conflict(l[2], m[2])

\* The rows a lock pass has seen are locked FOR UPDATE.
SeenInv(r) ==
    r.at \in {"lock", "locked", "write"} => \A e \in r.seen : <<e, "X">> \in r.held

Writing == {"key", "target", "children"}

\* What is written is locked, and leads to the target of the operation.
OwnInv(r) ==
    /\ r.at \in Writing =>
          \A e \in DOMAIN r.own : /\ r.own[e] = r.op.target
                                  /\ <<e, "X">> \in r.held \/ <<e, "N">> \in r.held
    /\ r.at = "key" => r.check = DOMAIN r.own

\* A checked target is live, shared, and not redirected by the transaction.
TargetInv(r, pointers) ==
    r.at = "children" \/ (r.at = "target" /\ r.check # DOMAIN r.own) =>
        /\ <<r.op.target, "S">> \in r.held
        /\ pointers[r.op.target] = NoRow /\ r.op.target \notin DOMAIN r.own

\* No row points, as the transaction sees it, at a row it has checked.
ChildInv(r, pointers) ==
    r.at \in Writing =>
        \A e \in (DOMAIN r.own) \ r.check, c \in Rows :
            (IF c \in DOMAIN r.own THEN r.own[c] ELSE pointers[c]) # e

\* What holds of a transaction at any time.
Sound(r, pointers) ==
    /\ r.at \notin {"idle", "done"} => r.op \in Ops
    /\ SeenInv(r) /\ OwnInv(r) /\ TargetInv(r, pointers) /\ ChildInv(r, pointers)

MergeInv ==
    /\ ptr \in [Rows -> Rows \cup {NoRow}] /\ Direct(ptr)
    /\ txn = [p \in Txns |-> txn[p]] /\ \A p \in Txns : Shape(txn[p]) /\ Sound(txn[p], ptr)
    /\ MergeLockInv

(***************************************************************************)
(* Lemmas                                                                  *)
(***************************************************************************)
\* A set of row ids that is not empty has a least one: what ORDER BY id
\* LIMIT 1 returns.
LEMMA LeastRow ==
    ASSUME NEW S, S \subseteq Rows, S # {}
    PROVE  \E c \in S : \A d \in S : c <= d
  <1>1. S \subseteq Nat BY MergeAssumption
  <1>2. PICK c \in S : \A d \in S : ~(<<d, c>> \in OpToRel(<, Nat))
    BY <1>1, WFMin, NatLessThanWellFounded
  <1>3. \A d \in S : ~(d < c) BY <1>1, <1>2 DEF OpToRel
  <1> QED BY <1>1, <1>3

\* The trigger looks at the first child only, and that is enough.
LEMMA NoFirstChild ==
    ASSUME NEW p, NEW e, FirstChild(p, e) = {}
    PROVE  \A c \in Rows : View(p, c) # e
  <1> DEFINE S == {c \in Rows : View(p, c) = e}
  <1>1. S \subseteq Rows OBVIOUS
  <1>2. ASSUME S # {} PROVE FALSE
    <2>1. PICK c \in S : \A d \in S : c <= d BY <1>1, <1>2, LeastRow
    <2>2. c \in FirstChild(p, e) BY <2>1 DEF FirstChild
    <2> QED BY <2>2
  <1> QED BY <1>2

\* Which locks exclude each other.
LEMMA Conflicts ==
    /\ Conflict("X", "X") /\ Conflict("X", "N") /\ Conflict("N", "X") /\ Conflict("N", "N")
    /\ Conflict("X", "S") /\ Conflict("S", "X") /\ Conflict("S", "N") /\ Conflict("N", "S")
    /\ \A m, n : Conflict(m, n) = Conflict(n, m)
  <1>1. \A m, n : {m, n} = {n, m} OBVIOUS
  <1> QED BY <1>1 DEF Conflict

\* A step that commits nothing: one transaction moves, what it newly locks
\* is free.
LEMMA Moves ==
    ASSUME MergeInv, NEW p \in Txns, NEW r, Set(p, r), ptr' = ptr, Shape(r), Sound(r, ptr),
           \A l \in r.held : l \in txn[p].held \/ Free(p, l[1], l[2])
    PROVE  MergeInv'
  <1>1. txn = [q \in Txns |-> txn[q]] /\ MergeLockInv BY DEF MergeInv
  <1>2. /\ txn'[p] = r /\ \A q \in Txns \ {p} : txn'[q] = txn[q]
        /\ txn' = [q \in Txns |-> txn'[q]]
    BY <1>1 DEF Set
  <1>4. \A q \in Txns : Shape(txn'[q]) /\ Sound(txn'[q], ptr')
    BY <1>2 DEF MergeInv
  <1>5. MergeLockInv'
    <2>1. ASSUME NEW q \in Txns \ {p}, NEW l \in r.held, NEW m \in txn[q].held, l[1] = m[1]
          PROVE  ~Conflict(l[2], m[2]) /\ ~Conflict(m[2], l[2])
      <3>1. ~Conflict(l[2], m[2])
        <4>1. CASE l \in txn[p].held BY <1>1, <2>1, <4>1 DEF MergeLockInv
        <4>2. CASE Free(p, l[1], l[2]) BY <2>1, <4>2 DEF Free
        <4> QED BY <4>1, <4>2
      <3> QED BY <3>1, Conflicts
    <2> QED BY <1>1, <1>2, <2>1 DEF MergeLockInv
  <1> QED BY <1>2, <1>4, <1>5 DEF MergeInv

\* A transaction that is over, or has not begun, owes nothing.
LEMMA Ended ==
    /\ Shape(NoTxn) /\ NoTxn.at = "idle" /\ NoTxn.held = {}
    /\ Shape(Over) /\ Over.at = "done" /\ Over.held = {}
    /\ \A pointers : Sound(NoTxn, pointers) /\ Sound(Over, pointers)
  <1>1. Shape(NoTxn) BY DEF Shape, Fields, NoTxn
  <1>2. Shape(Over) BY DEF Shape, Fields, Over, NoTxn
  <1>3. NoTxn.at = "idle" /\ NoTxn.held = {} BY DEF NoTxn
  <1>4. Over.at = "done" /\ Over.held = {} BY DEF Over, NoTxn
  <1> QED BY <1>1, <1>2, <1>3, <1>4 DEF Sound, SeenInv, OwnInv, TargetInv, ChildInv, Writing

\* A step that ends the transaction without committing (Abort, a refusal).
LEMMA Ends == ASSUME MergeInv, NEW p \in Txns, Set(p, Over), ptr' = ptr PROVE MergeInv'
  BY Moves, Ended

\* The commit: the deferred checks have left the transaction with a live,
\* shared target and no child at any row it redirects.
LEMMA Commits == ASSUME MergeInv, NEW p \in Txns, Commit(p) PROVE MergeInv'
  <1> DEFINE r == txn[p]
             t == r.op.target
             S == DOMAIN r.own
  <1>1. /\ r.at = "children" /\ r.check = {} /\ ptr' = [e \in Rows |-> View(p, e)] /\ Set(p, Over)
    BY DEF Commit
  <1>2. Sound(r, ptr) /\ Shape(r) /\ ptr \in [Rows -> Rows \cup {NoRow}] /\ Direct(ptr) /\ MergeLockInv
    BY DEF MergeInv
  <1>3. t \in Rows /\ t # NoRow BY <1>1, <1>2, MergeAssumption DEF Sound, Ops
  <1>4. /\ \A e \in S : r.own[e] = t /\ (<<e, "X">> \in r.held \/ <<e, "N">> \in r.held)
        /\ <<t, "S">> \in r.held /\ ptr[t] = NoRow /\ t \notin S
        /\ \A e \in S, c \in Rows : (IF c \in S THEN r.own[c] ELSE ptr[c]) # e
    BY <1>1, <1>2 DEF Sound, OwnInv, TargetInv, ChildInv, Writing
  <1>5. \A e \in Rows : ptr'[e] = IF e \in S THEN t ELSE ptr[e]
    BY <1>1, <1>4 DEF View
  <1> HIDE DEF S, t, r
  <1>6. ptr' \in [Rows -> Rows \cup {NoRow}]
    <2>1. \A e \in Rows : ptr'[e] \in Rows \cup {NoRow} BY <1>2, <1>3, <1>5
    <2> QED BY <1>1, <2>1
  <1>7. Direct(ptr')
    <2> SUFFICES ASSUME NEW e \in Rows, ptr'[e] # NoRow
                 PROVE  ptr'[e] # e /\ ptr'[ptr'[e]] = NoRow
      BY DEF Direct
    <2>1. CASE e \in S BY <1>3, <1>4, <1>5, <2>1
    <2>2. CASE e \notin S
      <3>1. ptr'[e] = ptr[e] /\ ptr[e] \in Rows /\ ptr[e] # e /\ ptr[ptr[e]] = NoRow
        BY <1>2, <1>5, <2>2 DEF Direct
      <3>2. ptr[e] \notin S BY <1>4, <2>2
      <3> QED BY <1>5, <3>1, <3>2
    <2> QED BY <2>1, <2>2
  <1>8. /\ txn'[p] = Over /\ \A q \in Txns \ {p} : txn'[q] = txn[q]
        /\ txn' = [q \in Txns |-> txn'[q]]
    BY <1>1 DEF Set, MergeInv
  <1>9. ASSUME NEW q \in Txns \ {p} PROVE Sound(txn[q], ptr')
    <2> DEFINE w == txn[q]
    <2>1. Sound(w, ptr) BY DEF MergeInv
    <2>2. \A l \in r.held, m \in w.held : l[1] = m[1] => ~Conflict(l[2], m[2])
      BY <1>2, <1>9 DEF MergeLockInv, r
    <2> HIDE DEF w
    <2>3. TargetInv(w, ptr')
      <3> SUFFICES ASSUME w.at = "children" \/ (w.at = "target" /\ w.check # DOMAIN w.own)
                   PROVE  /\ <<w.op.target, "S">> \in w.held
                          /\ ptr'[w.op.target] = NoRow /\ w.op.target \notin DOMAIN w.own
        BY DEF TargetInv
      <3>1. /\ <<w.op.target, "S">> \in w.held /\ ptr[w.op.target] = NoRow
            /\ w.op.target \notin DOMAIN w.own /\ w.op.target \in Rows
        BY <2>1 DEF Sound, TargetInv, Ops
      <3>2. w.op.target \notin S BY <1>4, <2>2, <3>1, Conflicts
      <3> QED BY <1>5, <3>1, <3>2
    <2>4. ChildInv(w, ptr')
      <3> SUFFICES ASSUME w.at \in Writing, NEW e \in (DOMAIN w.own) \ w.check, NEW c \in Rows
                   PROVE  (IF c \in DOMAIN w.own THEN w.own[c] ELSE ptr'[c]) # e
        BY DEF ChildInv
      <3>1. (IF c \in DOMAIN w.own THEN w.own[c] ELSE ptr[c]) # e BY <2>1 DEF Sound, ChildInv
      <3>2. <<e, "X">> \in w.held \/ <<e, "N">> \in w.held BY <2>1 DEF Sound, OwnInv
      <3>3. e # t BY <1>4, <2>2, <3>2, Conflicts
      <3> QED BY <1>5, <3>1, <3>3
    <2>5. Sound(w, ptr') BY <2>1, <2>3, <2>4 DEF Sound
    <2> QED BY <2>5 DEF w
  <1>10. \A q \in Txns : Shape(txn'[q]) /\ Sound(txn'[q], ptr')
    <2>1. Sound(Over, ptr') BY Ended
    <2> QED BY <1>8, <1>9, <2>1, Ended DEF MergeInv
  <1>11. MergeLockInv' BY <1>2, <1>8, Ended DEF MergeLockInv
  <1> QED BY <1>6, <1>7, <1>8, <1>10, <1>11 DEF MergeInv

(***************************************************************************)
(* The invariant                                                           *)
(***************************************************************************)
\* The table holds no chain when the migration lets the system start.
LEMMA MergeInitInv == MergeInit => MergeInv
  <1> SUFFICES ASSUME MergeInit PROVE MergeInv OBVIOUS
  <1>1. \A p \in Txns : txn[p] = NoTxn BY DEF MergeInit
  <1>2. MergeLockInv BY <1>1, Ended DEF MergeLockInv
  <1> QED BY <1>1, <1>2, Ended DEF MergeInit, MergeInv

\* Every step keeps the invariant.
LEMMA MergeStepInv == ASSUME MergeInv, [MergeNext]_mergeVars PROVE MergeInv'
  <1>1. ASSUME NEW p \in Txns, Begin(p) PROVE MergeInv'
    <2>1. PICK op \in Menu[p] : Set(p, [NoTxn EXCEPT !.at = "begun", !.op = op]) BY <1>1 DEF Begin
    <2> DEFINE r == [NoTxn EXCEPT !.at = "begun", !.op = op]
    <2>2. op \in Ops BY <2>1, MergeAssumption
    <2>a. Shape(r) BY DEF Shape, Fields, NoTxn
    <2>3. r.at = "begun" /\ r.op = op /\ r.held = {} BY DEF NoTxn
    <2>4. ptr' = ptr BY <1>1 DEF Begin
    <2> HIDE DEF r
    <2>5. Sound(r, ptr) BY <2>2, <2>3 DEF Sound, SeenInv, OwnInv, TargetInv, ChildInv, Writing
    <2> QED BY <2>1, <2>a, <2>3, <2>4, <2>5, Moves DEF r
  <1>2. ASSUME NEW p \in Txns, Abort(p) PROVE MergeInv'
    BY <1>2, Ends DEF Abort
  <1>3. ASSUME NEW p \in Txns, Snapshot(p) PROVE MergeInv'
    <2> DEFINE s == txn[p]
               w == Wanted(s.op)
               r == [s EXCEPT !.at = "lock", !.seen = {}, !.want = w]
    <2>1. s.at = "begun" /\ Set(p, r) /\ ptr' = ptr BY <1>3 DEF Snapshot
    <2>2. Shape(s) /\ Sound(s, ptr) BY DEF MergeInv
    <2> HIDE DEF w
    <2>a. Shape(r) BY <2>2 DEF Shape, Fields
    <2>3. r.at = "lock" /\ r.op = s.op /\ r.held = s.held /\ r.seen = {} BY <2>2 DEF Shape, Fields
    <2> HIDE DEF r
    <2>4. Sound(r, ptr) BY <2>1, <2>2, <2>3 DEF Sound, SeenInv, OwnInv, TargetInv, ChildInv, Writing
    <2> QED BY <2>1, <2>a, <2>3, <2>4, Moves
  <1>4. ASSUME NEW p \in Txns, LockNext(p) PROVE MergeInv'
    <2>0. PICK e \in txn[p].want :
             /\ Free(p, e, "X")
             /\ Set(p, [txn[p] EXCEPT !.held = txn[p].held \cup {<<e, "X">>}, !.want = txn[p].want \ {e},
                                      !.seen = IF e \in Wanted(txn[p].op) THEN txn[p].seen \cup {e} ELSE txn[p].seen,
                                      !.at = IF txn[p].want = {e} THEN "locked" ELSE txn[p].at])
      BY <1>4 DEF LockNext
    <2> DEFINE s == txn[p]
               rest == s.want \ {e}
               h == s.held \cup {<<e, "X">>}
               n == IF e \in Wanted(s.op) THEN s.seen \cup {e} ELSE s.seen
               a == IF s.want = {e} THEN "locked" ELSE s.at
               r == [s EXCEPT !.held = h, !.want = rest, !.seen = n, !.at = a]
    <2>1. s.at = "lock" /\ Free(p, e, "X") /\ Set(p, r) /\ ptr' = ptr BY <1>4, <2>0 DEF LockNext
    <2>2. Shape(s) /\ Sound(s, ptr) BY DEF MergeInv
    <2>3. a \in {"lock", "locked"} BY <2>1
    <2>4. \A f \in n : f \in s.seen \/ f = e OBVIOUS
    <2>5. \A f \in s.seen : <<f, "X">> \in s.held BY <2>1, <2>2 DEF Sound, SeenInv
    <2>6. \A f \in n : <<f, "X">> \in h BY <2>4, <2>5
    <2>7. \A l \in h : l \in s.held \/ Free(p, l[1], l[2]) BY <2>1
    <2> HIDE DEF h, n, a, rest
    <2>8. Shape(r) BY <2>2 DEF Shape, Fields
    <2>9. r.at = a /\ r.op = s.op /\ r.held = h /\ r.seen = n BY <2>2 DEF Shape, Fields
    <2> HIDE DEF r
    <2>10. Sound(r, ptr)
      BY <2>1, <2>2, <2>3, <2>6, <2>9 DEF Sound, SeenInv, OwnInv, TargetInv, ChildInv, Writing
    <2> QED BY <2>1, <2>7, <2>8, <2>9, <2>10, Moves
  <1>5. ASSUME NEW p \in Txns, Locked(p) PROVE MergeInv'
    <2> DEFINE s == txn[p]
               r == [s EXCEPT !.at = "write"]
               n == s.pass + 1
               b == [s EXCEPT !.at = "begun", !.pass = n, !.held = {}]
    <2>1. s.at = "locked" /\ ptr' = ptr /\ (Set(p, Over) \/ Set(p, r) \/ Set(p, b)) BY <1>5 DEF Locked
    <2>2. Shape(s) /\ Sound(s, ptr) BY DEF MergeInv
    <2>3. CASE Set(p, Over) BY <2>1, <2>3, Ends
    <2>4. CASE Set(p, r)
      <3>1. Shape(r) BY <2>2 DEF Shape, Fields
      <3>2. r.at = "write" /\ r.op = s.op /\ r.held = s.held /\ r.seen = s.seen BY <2>2 DEF Shape, Fields
      <3> HIDE DEF r
      <3>3. Sound(r, ptr) BY <2>1, <2>2, <3>2 DEF Sound, SeenInv, OwnInv, TargetInv, ChildInv, Writing
      <3> QED BY <2>1, <2>4, <3>1, <3>2, <3>3, Moves
    <2>5. CASE Set(p, b)
      <3> HIDE DEF n
      <3>1. Shape(b) BY <2>2 DEF Shape, Fields
      <3>2. b.at = "begun" /\ b.op = s.op /\ b.held = {} BY <2>2 DEF Shape, Fields
      <3> HIDE DEF b
      <3>3. Sound(b, ptr) BY <2>1, <2>2, <3>2 DEF Sound, SeenInv, OwnInv, TargetInv, ChildInv, Writing
      <3> QED BY <2>1, <2>5, <3>1, <3>2, <3>3, Moves
    <2> QED BY <2>1, <2>3, <2>4, <2>5
  <1>6. ASSUME NEW p \in Txns, Write(p) PROVE MergeInv'
    <2> DEFINE s == txn[p]
               t == s.op.target
               moved == s.seen \ {t}
               o == [e \in moved |-> t]
               r == [s EXCEPT !.at = "target", !.own = o, !.check = moved]
    <2>1. s.at = "write" /\ ptr' = ptr /\ (Set(p, Over) \/ Set(p, r)) BY <1>6 DEF Write
    <2>2. Shape(s) /\ Sound(s, ptr) BY DEF MergeInv
    <2>3. CASE Set(p, Over) BY <2>1, <2>3, Ends
    <2>4. CASE Set(p, r)
      <3>1. DOMAIN o = moved /\ \A e \in moved : o[e] = t /\ <<e, "X">> \in s.held
        BY <2>1, <2>2 DEF Sound, SeenInv
      <3> HIDE DEF o, moved
      <3>2. Shape(r) BY <2>2 DEF Shape, Fields
      <3>3. r.at = "target" /\ r.op = s.op /\ r.held = s.held /\ r.own = o /\ r.check = moved
        BY <2>2 DEF Shape, Fields
      <3> HIDE DEF r
      <3>4. Sound(r, ptr)
        BY <2>1, <2>2, <3>1, <3>3 DEF Sound, SeenInv, OwnInv, TargetInv, ChildInv, Writing
      <3> QED BY <2>1, <2>4, <3>2, <3>3, <3>4, Moves
    <2> QED BY <2>1, <2>3, <2>4
  <1>7. ASSUME NEW p \in Txns, Point(p) PROVE MergeInv'
    <2> DEFINE s == txn[p]
               e == s.op.source
               t == s.op.target
               h == {<<e, "N">>}
               o == [x \in {e} |-> t]
               r == [s EXCEPT !.at = "key", !.held = h, !.own = o, !.check = {e}]
    <2>1. s.at = "begun" /\ Free(p, e, "N") /\ Set(p, r) /\ ptr' = ptr BY <1>7 DEF Point
    <2>2. Shape(s) /\ Sound(s, ptr) BY DEF MergeInv
    <2>3. DOMAIN o = {e} /\ o[e] = t /\ <<e, "N">> \in h OBVIOUS
    <2>4. \A l \in h : Free(p, l[1], l[2]) BY <2>1
    <2> HIDE DEF o, h
    <2>5. Shape(r) BY <2>2 DEF Shape, Fields
    <2>6. r.at = "key" /\ r.op = s.op /\ r.held = h /\ r.own = o /\ r.check = {e}
      BY <2>2 DEF Shape, Fields
    <2> HIDE DEF r
    <2>7. Sound(r, ptr)
      BY <2>1, <2>2, <2>3, <2>6 DEF Sound, SeenInv, OwnInv, TargetInv, ChildInv, Writing
    <2> QED BY <2>1, <2>4, <2>5, <2>6, <2>7, Moves
  <1>8. ASSUME NEW p \in Txns, ForeignKey(p) PROVE MergeInv'
    <2> DEFINE s == txn[p]
               t == s.op.target
               h == s.held \cup {<<t, "K">>}
               r == [s EXCEPT !.at = "target", !.held = h]
    <2>1. s.at = "key" /\ Free(p, t, "K") /\ Set(p, r) /\ ptr' = ptr BY <1>8 DEF ForeignKey
    <2>2. Shape(s) /\ Sound(s, ptr) BY DEF MergeInv
    <2>3. s.held \subseteq h /\ \A l \in h : l \in s.held \/ Free(p, l[1], l[2]) BY <2>1
    <2> HIDE DEF h
    <2>4. Shape(r) BY <2>2 DEF Shape, Fields
    <2>5. r.at = "target" /\ r.op = s.op /\ r.held = h /\ r.own = s.own /\ r.check = s.check
      BY <2>2 DEF Shape, Fields
    <2> HIDE DEF r
    <2>6. Sound(r, ptr)
      BY <2>1, <2>2, <2>3, <2>5 DEF Sound, SeenInv, OwnInv, TargetInv, ChildInv, Writing
    <2> QED BY <2>1, <2>3, <2>4, <2>5, <2>6, Moves
  <1>9. ASSUME NEW p \in Txns, CheckTarget(p) PROVE MergeInv'
    <2> DEFINE s == txn[p]
               t == s.op.target
               h == s.held \cup {<<t, "S">>}
               r == [s EXCEPT !.at = "children", !.held = h]
    <2>1. /\ s.at = "target" /\ Free(p, t, "S") /\ ptr' = ptr
          /\ Set(p, Over) \/ (Set(p, r) /\ View(p, t) = NoRow)
      BY <1>9 DEF CheckTarget, TargetShared
    <2>2. Shape(s) /\ Sound(s, ptr) BY DEF MergeInv
    <2>3. CASE Set(p, Over) BY <2>1, <2>3, Ends
    <2>4. CASE Set(p, r) /\ View(p, t) = NoRow
      <3>1. s.held \subseteq h /\ <<t, "S">> \in h /\ \A l \in h : l \in s.held \/ Free(p, l[1], l[2])
        BY <2>1
      <3>2. t \in Rows /\ t # NoRow BY <2>1, <2>2, MergeAssumption DEF Sound, Ops
      <3>3. \A e \in DOMAIN s.own : s.own[e] = t /\ (<<e, "X">> \in s.held \/ <<e, "N">> \in s.held)
        BY <2>1, <2>2 DEF Sound, OwnInv, Writing
      <3>4. t \notin DOMAIN s.own /\ ptr[t] = NoRow BY <2>4, <3>2, <3>3 DEF View
      <3> HIDE DEF h
      <3>5. Shape(r) BY <2>2 DEF Shape, Fields
      <3>6. r.at = "children" /\ r.op = s.op /\ r.held = h /\ r.own = s.own /\ r.check = s.check
        BY <2>2 DEF Shape, Fields
      <3> HIDE DEF r
      <3>7. Sound(r, ptr)
        BY <2>1, <2>2, <3>1, <3>3, <3>4, <3>6 DEF Sound, SeenInv, OwnInv, TargetInv, ChildInv, Writing
      <3> QED BY <2>1, <2>4, <3>1, <3>5, <3>6, <3>7, Moves
    <2> QED BY <2>1, <2>3, <2>4
  <1>10. ASSUME NEW p \in Txns, CheckChildren(p) PROVE MergeInv'
    <2>1. PICK e \in txn[p].check :
             Set(p, IF FirstChild(p, e) # {} THEN Over
                    ELSE [txn[p] EXCEPT !.check = txn[p].check \ {e},
                                        !.at = IF txn[p].check = {e} THEN txn[p].at ELSE "target"])
      BY <1>10 DEF CheckChildren
    <2> DEFINE s == txn[p]
               k == s.check \ {e}
               a == IF s.check = {e} THEN s.at ELSE "target"
               r == [s EXCEPT !.check = k, !.at = a]
    <2>2. s.at = "children" /\ ptr' = ptr BY <1>10 DEF CheckChildren
    <2>3. Shape(s) /\ Sound(s, ptr) BY DEF MergeInv
    <2>4. CASE FirstChild(p, e) # {}
      <3>1. Set(p, Over) BY <2>1, <2>4
      <3> QED BY <2>2, <3>1, Ends
    <2>5. CASE FirstChild(p, e) = {}
      <3>1. Set(p, r) BY <2>1, <2>5
      <3>2. \A c \in Rows : (IF c \in DOMAIN s.own THEN s.own[c] ELSE ptr[c]) # e
        BY <2>5, NoFirstChild DEF View
      <3>3. a \in {"target", "children"} BY <2>2
      <3>4. \A f : f \notin k => f \notin s.check \/ f = e OBVIOUS
      <3> HIDE DEF a, k
      <3>5. Shape(r) BY <2>3 DEF Shape, Fields
      <3>6. r.at = a /\ r.op = s.op /\ r.held = s.held /\ r.own = s.own /\ r.check = k
        BY <2>3 DEF Shape, Fields
      <3> HIDE DEF r
      <3>7. ChildInv(r, ptr)
        BY <2>2, <2>3, <3>2, <3>4, <3>6 DEF Sound, ChildInv, Writing
      <3>8. SeenInv(r) /\ OwnInv(r) /\ TargetInv(r, ptr)
        BY <2>2, <2>3, <3>3, <3>6 DEF Sound, SeenInv, OwnInv, TargetInv, Writing
      <3>9. Sound(r, ptr) BY <2>2, <2>3, <3>3, <3>6, <3>7, <3>8 DEF Sound
      <3> QED BY <2>2, <3>1, <3>5, <3>6, <3>9, Moves
    <2> QED BY <2>4, <2>5
  <1>11. CASE UNCHANGED mergeVars
    BY <1>11 DEF mergeVars, MergeInv, MergeLockInv
  <1> QED BY <1>1, <1>2, <1>3, <1>4, <1>5, <1>6, <1>7, <1>8, <1>9, <1>10, <1>11, Commits DEF MergeNext

\* The invariant holds throughout.
THEOREM MergeInvariantHolds == MergeSpec => []MergeInv
  BY MergeInitInv, MergeStepInv, PTL DEF MergeSpec

\* A merge pointer leads to its survivor in one hop, whatever merges,
\* proposals and plain updates of pointers commit, in any interleaving of
\* their statements.
THEOREM ChainTheorem == MergeSpec => []NoMergeChain
  <1>1. MergeInv => NoMergeChain BY DEF MergeInv, NoMergeChain
  <1> QED BY <1>1, MergeInvariantHolds, PTL

\* What a transaction works on are rows of the table, and a merge is tried
\* again less often than it may.
Typed(r) ==
    /\ r.at \in {"idle", "begun", "lock", "locked", "write", "key", "target", "children", "done"}
    /\ r.want \subseteq Rows /\ r.seen \subseteq Rows
    /\ r.pass \in Nat /\ r.pass < MaxPasses
    /\ r.held \subseteq Rows \X Modes
    /\ DOMAIN r.own \subseteq Rows /\ r.check \subseteq Rows

MergeTypeInv == \A p \in Txns : Typed(txn[p])

\* One transaction moves.
LEMMA TypedMoves ==
    ASSUME MergeInv, MergeTypeInv, NEW p \in Txns, NEW r, Set(p, r), Typed(r)
    PROVE  MergeTypeInv'
  <1>1. txn = [q \in Txns |-> txn[q]] BY DEF MergeInv
  <1>2. txn'[p] = r /\ \A q \in Txns \ {p} : txn'[q] = txn[q] BY <1>1 DEF Set
  <1> QED BY <1>2 DEF MergeTypeInv

\* A transaction that has begun, or is over, holds nothing.
LEMMA TypedEnds ==
    /\ Typed(NoTxn) /\ Typed(Over)
    /\ \A op : Typed([NoTxn EXCEPT !.at = "begun", !.op = op])
  BY MergeAssumption DEF Typed, NoTxn, Over

LEMMA MergeTypeStep == ASSUME MergeInv, MergeTypeInv, [MergeNext]_mergeVars PROVE MergeTypeInv'
  <1>0. ASSUME NEW p \in Txns
        PROVE  /\ Shape(txn[p]) /\ Sound(txn[p], ptr) /\ Typed(txn[p])
               /\ txn[p].at \notin {"idle", "done"} =>
                     txn[p].op.source \in Rows /\ txn[p].op.target \in Rows /\ Wanted(txn[p].op) \subseteq Rows
    <2>1. Shape(txn[p]) /\ Sound(txn[p], ptr) /\ Typed(txn[p]) BY DEF MergeInv, MergeTypeInv
    <2> QED BY <2>1 DEF Sound, Ops, Wanted
  <1>1. ASSUME NEW p \in Txns, Begin(p) PROVE MergeTypeInv'
    BY <1>1, TypedMoves, TypedEnds DEF Begin
  <1>2. ASSUME NEW p \in Txns, Set(p, Over) PROVE MergeTypeInv'
    BY <1>2, TypedMoves, TypedEnds
  <1>3. ASSUME NEW p \in Txns, Snapshot(p) PROVE MergeTypeInv'
    <2> DEFINE s == txn[p]
               w == Wanted(s.op)
               r == [s EXCEPT !.at = "lock", !.seen = {}, !.want = w]
    <2>1. s.at = "begun" /\ Set(p, r) BY <1>3 DEF Snapshot
    <2>2. Shape(s) /\ Typed(s) /\ w \subseteq Rows BY <1>0, <2>1
    <2> HIDE DEF w, s
    <2>3. Typed(r) BY <2>2 DEF Shape, Fields, Typed
    <2> QED BY <2>1, <2>3, TypedMoves
  <1>4. ASSUME NEW p \in Txns, LockNext(p) PROVE MergeTypeInv'
    <2> DEFINE s == txn[p]
    <2>1. s.at = "lock" BY <1>4 DEF LockNext
    <2>2. PICK e \in s.want :
             Set(p, [s EXCEPT !.held = s.held \cup {<<e, "X">>}, !.want = s.want \ {e},
                              !.seen = IF e \in Wanted(s.op) THEN s.seen \cup {e} ELSE s.seen,
                              !.at = IF s.want = {e} THEN "locked" ELSE s.at])
      BY <1>4 DEF LockNext
    <2> DEFINE h == s.held \cup {<<e, "X">>}
               w == s.want \ {e}
               n == IF e \in Wanted(s.op) THEN s.seen \cup {e} ELSE s.seen
               a == IF s.want = {e} THEN "locked" ELSE s.at
               r == [s EXCEPT !.held = h, !.want = w, !.seen = n, !.at = a]
    <2>3. Shape(s) /\ Typed(s) BY <1>0
    <2>4. h \subseteq Rows \X Modes /\ w \subseteq Rows /\ n \subseteq Rows /\ a \in {"lock", "locked"}
      BY <2>1, <2>3 DEF Typed, Modes
    <2>5. Set(p, r) BY <2>2
    <2> HIDE DEF s, h, w, n, a
    <2>6. Typed(r) BY <2>3, <2>4 DEF Shape, Fields, Typed
    <2> QED BY <2>5, <2>6, TypedMoves
  <1>5. ASSUME NEW p \in Txns, Locked(p) PROVE MergeTypeInv'
    <2> DEFINE s == txn[p]
               n == s.pass + 1
               r == [s EXCEPT !.at = "write"]
               b == [s EXCEPT !.at = "begun", !.pass = n, !.held = {}]
    <2>1. Set(p, Over) \/ Set(p, r) \/ (Set(p, b) /\ n # MaxPasses) BY <1>5 DEF Locked
    <2>2. Shape(s) /\ Typed(s) /\ s.pass \in Nat /\ s.pass < MaxPasses BY <1>0 DEF Typed
    <2>3. Typed(r)
      <3> HIDE DEF s
      <3> QED BY <2>2 DEF Shape, Fields, Typed
    <2>4. ASSUME n # MaxPasses PROVE Typed(b)
      <3>1. n \in Nat /\ n < MaxPasses BY <2>2, <2>4, MergeAssumption
      <3> HIDE DEF s, n
      <3> QED BY <2>2, <3>1 DEF Shape, Fields, Typed
    <2> HIDE DEF s, n, r, b
    <2> QED BY <1>2, <2>1, <2>3, <2>4, TypedMoves
  <1>6. ASSUME NEW p \in Txns, Write(p) PROVE MergeTypeInv'
    <2> DEFINE s == txn[p]
               moved == s.seen \ {s.op.target}
               o == [e \in moved |-> s.op.target]
               r == [s EXCEPT !.at = "target", !.own = o, !.check = moved]
    <2>1. Set(p, Over) \/ Set(p, r) BY <1>6 DEF Write
    <2>2. Shape(s) /\ Typed(s) BY <1>0
    <2>3. DOMAIN o \subseteq Rows /\ moved \subseteq Rows BY <2>2 DEF Typed
    <2> HIDE DEF s, moved, o
    <2>4. Typed(r) BY <2>2, <2>3 DEF Shape, Fields, Typed
    <2> QED BY <1>2, <2>1, <2>4, TypedMoves
  <1>7. ASSUME NEW p \in Txns, Point(p) PROVE MergeTypeInv'
    <2> DEFINE s == txn[p]
               h == {<<s.op.source, "N">>}
               o == [e \in {s.op.source} |-> s.op.target]
               k == {s.op.source}
               r == [s EXCEPT !.at = "key", !.held = h, !.own = o, !.check = k]
    <2>1. s.at = "begun" /\ Set(p, r) BY <1>7 DEF Point
    <2>2. Shape(s) /\ Typed(s) /\ s.op.source \in Rows BY <1>0, <2>1
    <2>3. h \subseteq Rows \X Modes /\ DOMAIN o \subseteq Rows /\ k \subseteq Rows BY <2>2 DEF Modes
    <2> HIDE DEF s, h, o, k
    <2>4. Typed(r) BY <2>2, <2>3 DEF Shape, Fields, Typed
    <2> QED BY <2>1, <2>4, TypedMoves
  <1>8. ASSUME NEW p \in Txns, ForeignKey(p) \/ CheckTarget(p) PROVE MergeTypeInv'
    <2> DEFINE s == txn[p]
               h(mode) == s.held \cup {<<s.op.target, mode>>}
               r(f, mode) == [s EXCEPT !.at = f, !.held = h(mode)]
    <2>1. /\ s.at \in {"key", "target"}
          /\ Set(p, Over) \/ Set(p, r("target", "K")) \/ Set(p, r("children", "S"))
      BY <1>8 DEF ForeignKey, CheckTarget
    <2>2. Shape(s) /\ Typed(s) /\ s.op.target \in Rows BY <1>0, <2>1
    <2>3. h("K") \subseteq Rows \X Modes /\ h("S") \subseteq Rows \X Modes BY <2>2 DEF Modes, Typed
    <2> HIDE DEF s, h
    <2>4. Typed(r("target", "K")) BY <2>2, <2>3 DEF Shape, Fields, Typed
    <2>5. Typed(r("children", "S")) BY <2>2, <2>3 DEF Shape, Fields, Typed
    <2> QED BY <1>2, <2>1, <2>4, <2>5, TypedMoves
  <1>9. ASSUME NEW p \in Txns, CheckChildren(p) PROVE MergeTypeInv'
    <2> DEFINE s == txn[p]
    <2>1. PICK e \in s.check : /\ s.at = "children"
                               /\ \/ Set(p, Over)
                                  \/ Set(p, [s EXCEPT !.check = s.check \ {e},
                                                      !.at = IF s.check = {e} THEN s.at ELSE "target"])
      BY <1>9 DEF CheckChildren
    <2> DEFINE k == s.check \ {e}
               a == IF s.check = {e} THEN s.at ELSE "target"
               r == [s EXCEPT !.check = k, !.at = a]
    <2>2. Shape(s) /\ Typed(s) BY <1>0
    <2>3. k \subseteq Rows /\ a \in {"children", "target"} BY <2>1, <2>2 DEF Typed
    <2>4. Set(p, Over) \/ Set(p, r) BY <2>1
    <2> HIDE DEF s, k, a
    <2>5. Typed(r) BY <2>2, <2>3 DEF Shape, Fields, Typed
    <2> QED BY <1>2, <2>4, <2>5, TypedMoves
  <1>10. CASE UNCHANGED mergeVars BY <1>10 DEF mergeVars, MergeTypeInv
  <1> QED BY <1>1, <1>2, <1>3, <1>4, <1>5, <1>6, <1>7, <1>8, <1>9, <1>10 DEF MergeNext, Abort, Commit

\* Pointers lead to rows, transactions lock and write rows of the table, and
\* no merge is tried more often than _MAX_LOCK_PASSES.
THEOREM MergeTypeCorrect == MergeSpec => []MergeTypeOK
  <1>1. MergeInit => MergeTypeInv
    <2> SUFFICES ASSUME MergeInit PROVE MergeTypeInv OBVIOUS
    <2>1. \A p \in Txns : txn[p] = NoTxn BY DEF MergeInit
    <2> QED BY <2>1, TypedEnds DEF MergeTypeInv
  <1>2. MergeInv /\ MergeTypeInv /\ [MergeNext]_mergeVars => MergeTypeInv' BY MergeTypeStep
  <1>3. MergeInv /\ MergeTypeInv => MergeTypeOK
    BY MergeAssumption DEF MergeInv, MergeTypeInv, Typed, Sound, MergeTypeOK
  <1> QED BY <1>1, <1>2, <1>3, MergeInvariantHolds, PTL DEF MergeSpec

-----------------------------------------------------------------------------
(***************************************************************************)
(* That a ticket waits for triage exactly while it has an undecided        *)
(* proposal, for every number of proposals, runs and operators.            *)
(*                                                                         *)
(* Proposals change under the lock of the ticket only, so what a decision  *)
(* counted under the lock (CountInv) still holds when it commits, and what *)
(* a run read under it (a ticket without proposals, DraftInv) when it      *)
(* stores its own.                                                         *)
(***************************************************************************)

Proposal == [status : {"absent", "proposed", "applied", "rejected"}, by : Jobs \cup {Unset}]
Request == [at : {"idle", "loaded", "decided", "locked", "counted"},
            k : Proposals \cup {Unset}, to : {Unset, "applied", "rejected"},
            left : 0 .. Cardinality(Proposals)]

Undecided == {k \in Proposals : proposal[k].status = "proposed"}

\* Who holds the ticket's row.
TriageLockInv ==
    /\ \A j \in Jobs : job[j] = "claimed" => ticketLock = j /\ extraction = "pending"
    /\ \A o \in Reviewers : request[o].at \in {"locked", "counted"} => ticketLock = o

\* Proposals are stored once, by one run, and the ticket says whether one
\* of them is undecided.
DraftInv ==
    /\ extraction \in {Unset, "pending", "skipped"} => Undrafted = Proposals
    /\ extraction = "proposed" <=> Undecided # {}
    /\ \A k, l \in Proposals \ Undrafted : proposal[k].by = proposal[l].by

\* A proposal in hand is undecided and in one request only.
HandInv ==
    /\ \A o \in Reviewers :
          \/ request[o] = NoRequest
          \/ /\ request[o].at # "idle" /\ request[o].k \in Undecided
             /\ request[o].to \in {"applied", "rejected"}
    /\ \A o, q \in Reviewers : request[o].k = request[q].k => request[o].k = Unset \/ o = q

\* What a request counted is what is left.
CountInv ==
    \A o \in Reviewers : request[o].at = "counted" => request[o].left = Cardinality(Remaining(o))

TriageInv == TriageTypeOK /\ TriageLockInv /\ DraftInv /\ HandInv /\ CountInv

(***************************************************************************)
(* Lemmas                                                                  *)
(***************************************************************************)
\* TypeOK in terms of the record types above.
LEMMA Shapes ==
    ASSUME TriageTypeOK
    PROVE  /\ extraction \in {Unset, "pending", "proposed", "skipped", "done"}
           /\ proposal \in [Proposals -> Proposal] /\ request \in [Reviewers -> Request]
           /\ job \in [Jobs -> {"idle", "drafting", "claimed", "over"}]
           /\ ticketLock \in Jobs \cup Reviewers \cup {Unset}
  BY DEF TriageTypeOK, Proposal, Request

\* Counting the other undecided proposals: the count fits, and it is zero
\* only when there is none (CountRemaining).
LEMMA Counting ==
    ASSUME NEW o \in Reviewers
    PROVE  /\ Cardinality(Remaining(o)) \in 0 .. Cardinality(Proposals)
           /\ Cardinality(Remaining(o)) = 0 <=> Remaining(o) = {}
  <1>1. IsFiniteSet(Proposals) /\ Remaining(o) \subseteq Proposals
    BY TriageAssumption DEF Remaining
  <1>2. IsFiniteSet(Remaining(o)) /\ Cardinality(Remaining(o)) <= Cardinality(Proposals)
    BY <1>1, FS_Subset
  <1>3. Cardinality(Remaining(o)) \in Nat /\ Cardinality(Proposals) \in Nat
    BY <1>1, <1>2, FS_CardinalityType
  <1>4. Cardinality(Remaining(o)) = 0 <=> Remaining(o) = {}
    BY <1>2, FS_EmptySet
  <1> QED BY <1>2, <1>3, <1>4

\* A request that has nothing in hand.
LEMMA Idle ==
    /\ NoRequest \in Request /\ NoRequest.at = "idle" /\ NoRequest.k = Unset
           /\ Cardinality(Proposals) \in Nat
  <1>1. Cardinality(Proposals) \in Nat BY FS_CardinalityType, TriageAssumption
  <1> QED BY <1>1 DEF NoRequest, Request

\* A step that leaves the proposals and the ticket alone, and moves one
\* request to a state that suits its lock, keeps the invariant.
LEMMA RequestMoves ==
    ASSUME TriageInv, NEW o \in Reviewers, NEW r \in Request,
           request' = [request EXCEPT ![o] = r], UNCHANGED <<extraction, proposal, job>>,
           ticketLock' \in Jobs \cup Reviewers \cup {Unset},
           \A j \in Jobs : ticketLock = j => ticketLock' = j,
           \A q \in Reviewers \ {o} : ticketLock = q => ticketLock' = q,
           r.at \in {"locked", "counted"} => ticketLock' = o,
           r.k \in {Unset, request[o].k} \/ \A q \in Reviewers : request[q].k # r.k,
           r = NoRequest \/ (r.at # "idle" /\ r.k \in Undecided /\ r.to \in {"applied", "rejected"}),
           r.at = "counted" => r.left = Cardinality(Undecided \ {r.k})
    PROVE  TriageInv'
  <1>0. /\ proposal \in [Proposals -> Proposal] /\ request \in [Reviewers -> Request]
        /\ TriageTypeOK /\ TriageLockInv /\ DraftInv /\ HandInv /\ CountInv
    BY Shapes DEF TriageInv
  <1>1. request' \in [Reviewers -> Request] /\ request'[o] = r
        /\ \A q \in Reviewers \ {o} : request'[q] = request[q]
    BY <1>0
  <1>2. TriageTypeOK' BY <1>0, <1>1 DEF TriageTypeOK, Request
  <1>3. TriageLockInv'
    <2>1. \A j \in Jobs : job'[j] = "claimed" => ticketLock' = j /\ extraction' = "pending"
      BY <1>0 DEF TriageLockInv
    <2>2. \A q \in Reviewers : request'[q].at \in {"locked", "counted"} => ticketLock' = q
      BY <1>0, <1>1 DEF TriageLockInv
    <2> QED BY <2>1, <2>2 DEF TriageLockInv
  <1>4. Undecided' = Undecided BY DEF Undecided
  <1>5. DraftInv' BY <1>0, <1>4 DEF DraftInv, Undrafted
  <1>6. HandInv'
    <2>1. \A q \in Reviewers :
            \/ request'[q] = NoRequest
            \/ /\ request'[q].at # "idle" /\ request'[q].k \in Undecided
               /\ request'[q].to \in {"applied", "rejected"}
      BY <1>0, <1>1 DEF HandInv
    <2>2. ASSUME NEW p \in Reviewers, NEW q \in Reviewers, request'[p].k = request'[q].k, request'[p].k # Unset
          PROVE  p = q
      BY <1>0, <1>1, <2>2 DEF HandInv
    <2> QED BY <1>4, <2>1, <2>2 DEF HandInv
  <1>7. CountInv'
    <2>1. \A q \in Reviewers : Remaining(q)' = Undecided \ {request'[q].k}
      BY DEF Remaining, Undecided
    <2>2. ASSUME NEW q \in Reviewers, request'[q].at = "counted"
          PROVE  request'[q].left = Cardinality(Undecided \ {request'[q].k})
      <3>1. CASE q = o BY <1>1, <2>2, <3>1
      <3>2. CASE q # o
        <4>1. request'[q] = request[q] BY <1>1, <3>2
        <4>2. Remaining(q) = Undecided \ {request[q].k} BY DEF Remaining, Undecided
        <4> QED BY <1>0, <2>2, <4>1, <4>2 DEF CountInv
      <3> QED BY <3>1, <3>2
    <2> QED BY <2>1, <2>2 DEF CountInv
  <1> QED BY <1>2, <1>3, <1>5, <1>6, <1>7 DEF TriageInv

(***************************************************************************)
(* The invariant                                                           *)
(***************************************************************************)
\* Before the ticket closes nothing is drafted and nobody decides.
LEMMA TriageInitInv == TriageInit => TriageInv
  <1> SUFFICES ASSUME TriageInit PROVE TriageInv OBVIOUS
  <1>1. \A k \in Proposals : proposal[k].status = "absent" BY DEF TriageInit
  <1>2. proposal \in [Proposals -> Proposal] BY DEF TriageInit, Proposal
  <1>3. request \in [Reviewers -> Request] /\ \A o \in Reviewers : request[o] = NoRequest
    BY Idle DEF TriageInit
  <1>4. TriageTypeOK BY <1>2, <1>3 DEF TriageInit, TriageTypeOK, Proposal, Request
  <1>5. TriageLockInv BY <1>3, Idle DEF TriageInit, TriageLockInv
  <1>6. DraftInv BY <1>1 DEF TriageInit, DraftInv, Undrafted, Undecided, Unset
  <1>7. HandInv /\ CountInv BY <1>3, Idle DEF HandInv, CountInv
  <1> QED BY <1>4, <1>5, <1>6, <1>7 DEF TriageInv

\* Every step keeps the invariant.
LEMMA TriageStepInv == ASSUME TriageInv, [TriageNext]_triageVars PROVE TriageInv'
  <1>0. /\ extraction \in {Unset, "pending", "proposed", "skipped", "done"}
        /\ proposal \in [Proposals -> Proposal] /\ request \in [Reviewers -> Request]
        /\ job \in [Jobs -> {"idle", "drafting", "claimed", "over"}]
        /\ ticketLock \in Jobs \cup Reviewers \cup {Unset}
        /\ TriageTypeOK /\ TriageLockInv /\ DraftInv /\ HandInv /\ CountInv
    BY Shapes DEF TriageInv
  <1>a. \A o \in Reviewers : Remaining(o) = Undecided \ {request[o].k}
    BY DEF Remaining, Undecided
  <1>1. CASE Close
    <2>1. /\ extraction = Unset /\ ticketLock = Unset /\ extraction' = "pending"
          /\ UNCHANGED <<proposal, job, request, ticketLock>>
      BY <1>1 DEF Close
    <2>2. TriageTypeOK' BY <1>0, <2>1 DEF TriageTypeOK
    <2>3. TriageLockInv' BY <1>0, <2>1 DEF TriageLockInv
    <2>4. Undecided = {} BY <1>0, <2>1 DEF DraftInv, Undecided, Undrafted
    <2>5. DraftInv' BY <1>0, <2>1, <2>4 DEF DraftInv, Undrafted, Undecided
    <2>6. HandInv' BY <1>0, <2>1 DEF HandInv, Undecided
    <2>7. CountInv' BY <1>0, <2>1 DEF CountInv, Remaining
    <2> QED BY <2>2, <2>3, <2>5, <2>6, <2>7 DEF TriageInv
  <1>2. ASSUME NEW j \in Jobs,
               \/ FetchPending(j)
               \/ ClaimTicket(j) /\ ~StillPending
               \/ JobFails(j)
        PROVE  TriageInv'
    <2>1. /\ \A i \in Jobs : job'[i] = "claimed" => job[i] = "claimed" /\ i # j
          /\ job' \in [Jobs -> {"idle", "drafting", "claimed", "over"}]
      BY <1>0, <1>2 DEF FetchPending, ClaimTicket, JobFails
    <2>2. UNCHANGED <<extraction, proposal, request>> /\ ticketLock' \in {ticketLock, Unset}
      BY <1>2 DEF FetchPending, ClaimTicket, JobFails
    <2>3. ticketLock' = ticketLock \/ ticketLock = j
      BY <1>2 DEF FetchPending, ClaimTicket, JobFails
    <2>4. TriageTypeOK' BY <1>0, <2>1, <2>2 DEF TriageTypeOK
    <2>5. TriageLockInv' BY <1>0, <2>1, <2>2, <2>3, TriageAssumption DEF TriageLockInv
    <2>6. DraftInv' BY <1>0, <2>2 DEF DraftInv, Undrafted, Undecided
    <2>7. HandInv' BY <1>0, <2>2 DEF HandInv, Undecided
    <2>8. CountInv' BY <1>0, <2>2 DEF CountInv, Remaining
    <2> QED BY <2>4, <2>5, <2>6, <2>7, <2>8 DEF TriageInv
  <1>3. ASSUME NEW j \in Jobs, ClaimTicket(j), StillPending PROVE TriageInv'
    <2>1. /\ ticketLock = Unset /\ ticketLock' = j /\ job' = [job EXCEPT ![j] = "claimed"] /\ extraction = "pending"
          /\ UNCHANGED <<extraction, proposal, request>>
      BY <1>3 DEF ClaimTicket, StillPending
    <2>2. TriageTypeOK' BY <1>0, <2>1 DEF TriageTypeOK
    <2>3. TriageLockInv' BY <1>0, <2>1, TriageAssumption DEF TriageLockInv
    <2>4. DraftInv' BY <1>0, <2>1 DEF DraftInv, Undrafted, Undecided
    <2>5. HandInv' BY <1>0, <2>1 DEF HandInv, Undecided
    <2>6. CountInv' BY <1>0, <2>1 DEF CountInv, Remaining
    <2> QED BY <2>2, <2>3, <2>4, <2>5, <2>6 DEF TriageInv
  <1>4. ASSUME NEW j \in Jobs, Persist(j) PROVE TriageInv'
    <2>1. ticketLock = j /\ extraction = "pending" BY <1>0, <1>4 DEF Persist, TriageLockInv
    <2>2. Undrafted = Proposals /\ Undecided = {} BY <1>0, <2>1 DEF DraftInv
    <2>3. \A o \in Reviewers : request[o] = NoRequest BY <1>0, <2>2 DEF HandInv
    <2>4. PICK drafts \in SUBSET Undrafted :
             /\ proposal' = [k \in Proposals |-> IF k \in drafts THEN [status |-> "proposed", by |-> j]
                                                 ELSE proposal[k]]
             /\ extraction' = IF drafts = {} THEN "skipped" ELSE "proposed"
      BY <1>4 DEF Persist
    <2>5. job' = [job EXCEPT ![j] = "over"] /\ ticketLock' = Unset /\ request' = request BY <1>4 DEF Persist
    <2>6. proposal' \in [Proposals -> Proposal] BY <1>0, <2>4 DEF Proposal
    <2>7. /\ \A k \in drafts : proposal'[k].status = "proposed" /\ proposal'[k].by = j
          /\ \A k \in Proposals \ drafts : proposal'[k].status = "absent"
      BY <2>2, <2>4 DEF Undrafted
    <2>8. TriageTypeOK' BY <1>0, <2>4, <2>5, <2>6 DEF TriageTypeOK, Proposal
    <2>9. TriageLockInv' BY <1>0, <2>1, <2>3, <2>5, Idle DEF TriageLockInv
    <2>10. DraftInv'
      <3>1. Undecided' = drafts /\ Undrafted' = Proposals \ drafts
        BY <2>2, <2>7 DEF Undecided, Undrafted
      <3>2. drafts \subseteq Proposals BY <2>2, <2>4
      <3>3. \A k, l \in Proposals \ Undrafted' : proposal'[k].by = proposal'[l].by
        BY <2>7, <3>1, <3>2
      <3>4. extraction' = "proposed" <=> Undecided' # {} BY <2>4, <3>1
      <3>5. extraction' \in {Unset, "pending", "skipped"} => Undrafted' = Proposals
        BY <2>4, <3>1 DEF Unset
      <3> QED BY <3>3, <3>4, <3>5 DEF DraftInv
    <2>11. HandInv' /\ CountInv' BY <2>3, <2>5, Idle DEF HandInv, CountInv
    <2> QED BY <2>8, <2>9, <2>10, <2>11 DEF TriageInv
  <1>5. ASSUME NEW o \in Reviewers, NEW k \in Proposals, LoadProposed(o, k) PROVE TriageInv'
    <2>1. PICK to \in {"applied", "rejected"} :
             request' = [request EXCEPT ![o] = [NoRequest EXCEPT !.at = "loaded", !.k = k, !.to = to]]
      BY <1>5 DEF LoadProposed
    <2> DEFINE r == [NoRequest EXCEPT !.at = "loaded", !.k = k, !.to = to]
    <2>2. r \in Request /\ r.at = "loaded" /\ r.k = k /\ r.to = to
      BY Idle DEF NoRequest, Request
    <2>3. k \in Undecided /\ \A q \in Reviewers : request[q].k # k
      BY <1>5 DEF LoadProposed, Undecided, InHand
    <2>4. UNCHANGED <<extraction, proposal, job, ticketLock>> BY <1>5 DEF LoadProposed
    <2> HIDE DEF r
    <2> QED BY <1>0, <2>1, <2>2, <2>3, <2>4, RequestMoves DEF r
  <1>6. ASSUME NEW o \in Reviewers, Decide(o) PROVE TriageInv'
    <2> DEFINE r == [request[o] EXCEPT !.at = "decided"]
    <2>1. request[o] \in Request BY <1>0
    <2>2. r \in Request /\ r.at = "decided" /\ r.k = request[o].k /\ r.to = request[o].to
      BY <2>1 DEF Request
    <2>3. request' = [request EXCEPT ![o] = r] /\ UNCHANGED <<extraction, proposal, job, ticketLock>>
      BY <1>6 DEF Decide
    <2>4. request[o] # NoRequest BY <1>6, Idle DEF Decide
    <2> HIDE DEF r
    <2>5. r.at # "idle" /\ r.k \in Undecided /\ r.to \in {"applied", "rejected"}
      BY <1>0, <2>2, <2>4 DEF HandInv
    <2> QED BY <1>0, <2>2, <2>3, <2>5, RequestMoves
  <1>7. ASSUME NEW o \in Reviewers, LockTicket(o) PROVE TriageInv'
    <2> DEFINE r == [request[o] EXCEPT !.at = "locked"]
    <2>1. request[o] \in Request BY <1>0
    <2>2. r \in Request /\ r.at = "locked" /\ r.k = request[o].k /\ r.to = request[o].to
      BY <2>1 DEF Request
    <2>3. /\ request' = [request EXCEPT ![o] = r] /\ UNCHANGED <<extraction, proposal, job>>
          /\ ticketLock = Unset /\ ticketLock' = o
      BY <1>7 DEF LockTicket
    <2>4. request[o] # NoRequest BY <1>7, Idle DEF LockTicket
    <2> HIDE DEF r
    <2>5. r.at # "idle" /\ r.k \in Undecided /\ r.to \in {"applied", "rejected"}
      BY <1>0, <2>2, <2>4 DEF HandInv
    <2> QED BY <1>0, <2>2, <2>3, <2>5, RequestMoves, TriageAssumption
  <1>8. ASSUME NEW o \in Reviewers, CountRemaining(o) PROVE TriageInv'
    <2> DEFINE n == Cardinality(Remaining(o))
               r == [request[o] EXCEPT !.at = "counted", !.left = n]
    <2>1. request[o] \in Request /\ n \in 0 .. Cardinality(Proposals) BY <1>0, Counting
    <2>2. request' = [request EXCEPT ![o] = r] /\ UNCHANGED <<extraction, proposal, job, ticketLock>>
      BY <1>8 DEF CountRemaining
    <2>3. n = Cardinality(Undecided \ {request[o].k}) BY <1>a
    <2> HIDE DEF n
    <2>4. r \in Request /\ r.at = "counted" /\ r.k = request[o].k /\ r.to = request[o].to /\ r.left = n
      BY <2>1 DEF Request
    <2>5. request[o] # NoRequest BY <1>8, Idle DEF CountRemaining
    <2>6. ticketLock = o BY <1>0, <1>8 DEF CountRemaining, TriageLockInv
    <2> HIDE DEF r
    <2>7. r.at # "idle" /\ r.k \in Undecided /\ r.to \in {"applied", "rejected"}
      BY <1>0, <2>4, <2>5 DEF HandInv
    <2> QED BY <1>0, <2>2, <2>3, <2>4, <2>6, <2>7, RequestMoves
  <1>9. ASSUME NEW o \in Reviewers, CommitDecision(o) PROVE TriageInv'
    <2> DEFINE k == request[o].k
               d == [proposal[k] EXCEPT !.status = request[o].to]
    <2>1. /\ request[o].at = "counted" /\ proposal' = [proposal EXCEPT ![k] = d]
          /\ extraction' = (IF request[o].left = 0 THEN "done" ELSE extraction)
          /\ request' = [request EXCEPT ![o] = NoRequest] /\ job' = job
          /\ ticketLock' = (IF ticketLock = o THEN Unset ELSE ticketLock)
      BY <1>9 DEF CommitDecision
    <2>2. ticketLock = o BY <1>0, <2>1 DEF TriageLockInv
    <2>3. k \in Undecided /\ k \in Proposals /\ request[o].to \in {"applied", "rejected"}
      BY <1>0, <2>1, Idle DEF HandInv, Undecided
    <2>4. proposal[k] \in Proposal BY <1>0, <2>3
    <2>5. d \in Proposal /\ d.status = request[o].to /\ d.by = proposal[k].by
      BY <2>3, <2>4 DEF Proposal
    <2>6. request[o].left = 0 <=> Undecided \ {k} = {}
      BY <1>0, <1>a, <2>1, Counting DEF CountInv
    <2> HIDE DEF k, d
    <2>7. /\ proposal' \in [Proposals -> Proposal] /\ proposal'[k] = d
          /\ \A l \in Proposals \ {k} : proposal'[l] = proposal[l]
      BY <1>0, <2>1, <2>3, <2>5
    <2>8. Undecided' = Undecided \ {k}
      BY <2>3, <2>5, <2>7 DEF Undecided
    <2>9. Undrafted' = Undrafted /\ k \notin Undrafted
      BY <2>3, <2>5, <2>7 DEF Undecided, Undrafted
    <2>10. extraction = "proposed" BY <1>0, <2>3 DEF DraftInv
    <2>11. /\ request' \in [Reviewers -> Request] /\ request'[o] = NoRequest
           /\ \A q \in Reviewers \ {o} : request'[q] = request[q]
      BY <1>0, <2>1, Idle
    <2>12. TriageTypeOK' BY <1>0, <2>1, <2>2, <2>7, <2>11 DEF TriageTypeOK, Proposal, Request
    <2>13. TriageLockInv'
      <3>1. \A j \in Jobs : job[j] # "claimed" BY <1>0, <2>2, TriageAssumption DEF TriageLockInv
      <3>2. \A q \in Reviewers : request'[q].at \notin {"locked", "counted"}
        BY <1>0, <2>2, <2>11, Idle DEF TriageLockInv
      <3> QED BY <2>1, <3>1, <3>2 DEF TriageLockInv
    <2>14. DraftInv'
      <3>1. extraction' \in {Unset, "pending", "skipped"} => Undrafted' = Proposals
        BY <2>1, <2>10 DEF Unset
      <3>2. extraction' = "proposed" <=> Undecided' # {}
        BY <2>1, <2>6, <2>8, <2>10
      <3>3. \A l \in Proposals : proposal'[l].by = proposal[l].by BY <2>5, <2>7
      <3>4. \A l, m \in Proposals \ Undrafted' : proposal'[l].by = proposal'[m].by
        BY <1>0, <2>9, <3>3 DEF DraftInv
      <3> QED BY <3>1, <3>2, <3>4 DEF DraftInv
    <2>15. HandInv'
      <3>1. ASSUME NEW q \in Reviewers
            PROVE  \/ request'[q] = NoRequest
                   \/ /\ request'[q].at # "idle" /\ request'[q].k \in Undecided'
                      /\ request'[q].to \in {"applied", "rejected"}
        <4>1. CASE q = o BY <2>11, <4>1
        <4>2. CASE q # o
          <5>1. request[q].k # k BY <1>0, <2>3, <4>2, TriageAssumption DEF HandInv, k
          <5> QED BY <1>0, <2>8, <2>11, <4>2, <5>1 DEF HandInv
        <4> QED BY <4>1, <4>2
      <3>2. ASSUME NEW p \in Reviewers, NEW q \in Reviewers,
                   request'[p].k = request'[q].k, request'[p].k # Unset
            PROVE  p = q
        BY <1>0, <2>11, <3>2, Idle DEF HandInv
      <3> QED BY <3>1, <3>2 DEF HandInv
    <2>16. CountInv'
      <3>1. \A q \in Reviewers : request'[q].at # "counted"
        BY <1>0, <2>2, <2>11, Idle DEF TriageLockInv
      <3> QED BY <3>1 DEF CountInv
    <2> QED BY <2>12, <2>13, <2>14, <2>15, <2>16 DEF TriageInv
  <1>10. ASSUME NEW o \in Reviewers, RequestFails(o) PROVE TriageInv'
    <2>1. /\ request' = [request EXCEPT ![o] = NoRequest] /\ UNCHANGED <<extraction, proposal, job>>
          /\ ticketLock' = IF ticketLock = o THEN Unset ELSE ticketLock
      BY <1>10 DEF RequestFails
    <2>2. \A j \in Jobs : j # o BY TriageAssumption
    <2> QED BY <1>0, <2>1, <2>2, Idle, RequestMoves
  <1>11. CASE UNCHANGED triageVars
    BY <1>0, <1>11 DEF triageVars, TriageInv, TriageTypeOK, TriageLockInv, DraftInv, HandInv, CountInv, Undecided, Undrafted, Remaining
  <1> QED BY <1>1, <1>2, <1>3, <1>4, <1>5, <1>6, <1>7, <1>8, <1>9, <1>10, <1>11 DEF TriageNext

\* The invariant holds throughout.
THEOREM TriageInvariantHolds == TriageSpec => []TriageInv
  BY TriageInitInv, TriageStepInv, PTL DEF TriageSpec

\* The ticket, its proposals and the transactions keep their shapes.
THEOREM TriageTypeCorrect == TriageSpec => []TriageTypeOK
  <1>1. TriageInv => TriageTypeOK BY DEF TriageInv
  <1> QED BY <1>1, TriageInvariantHolds, PTL

\* A ticket waits for triage exactly while it has an undecided proposal, and
\* only one run stores proposals for it, however many runs and operators
\* work on it at once.
THEOREM TriageTheorem == TriageSpec => []DoneWhenTriaged
  <1>1. TriageInv => DoneWhenTriaged BY DEF TriageInv, DraftInv, DoneWhenTriaged, Undecided
  <1> QED BY <1>1, TriageInvariantHolds, PTL
=============================================================================
