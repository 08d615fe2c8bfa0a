------------------------- MODULE DeliveryLocksProofs -------------------------
(***************************************************************************)
(* Theorems about DeliveryLocks, for any project and any number of         *)
(* transactions.  The inductive invariant says, per transaction, which     *)
(* phase its operation may be in, which locks it has there and that what   *)
(* it still wants comes after what it holds; between transactions, that    *)
(* their locks agree; and of the rows, what a transaction behind the fence *)
(* already knows when it commits.                                          *)
(***************************************************************************)
EXTENDS DeliveryLocks, FiniteSetTheorems, WellFoundedInduction, TLAPS

TxSet == [op : Operations \cup {NoOp}, phase : Phases, want : SUBSET Locks,
          held : SUBSET Locks, picked : SUBSET FocusSlots]

Deciding == {"integrate", "reopen", "release", "contract", "bind_pr"}
Proving == {"integrate", "release"}
TicketLock(t) == <<<<"ticket", t>>, "X">>
SlotLock(s) == <<<<"slot", s>>, "X">>
Fence(mode) == <<<<"fence", 0>>, mode>>

(***************************************************************************)
(* One transaction                                                         *)
(***************************************************************************)
PhaseFits(r) ==
    /\ r.phase \in {"idle", "done"} => r.held = {} /\ r.want = {}
    /\ r.phase \notin {"idle", "done"} => r.op \in Operations
    /\ r.phase = "session" => r.op.do \in {"bind", "end"}
    /\ r.phase = "tickets" => r.op.do = "open"
    /\ r.phase \in {"graph", "workflows"} => r.op.do \in Deciding
    /\ r.phase = "fence" => r.op.do \in Proving \cup {"open"}
    /\ r.phase = "slots" => r.op.do \in Proving \cup {"close", "bind", "end"}
    /\ r.phase = "judge" => r.op.do \in Proving \cup {"open"} /\ r.want = {}

Floor(f) ==
    CASE f = "graph" -> 1 [] f \in {"tickets", "workflows"} -> 2 [] f = "fence" -> 4
      [] f = "session" -> 5 [] f = "slots" -> 6 [] OTHER -> 0
Ceiling(f) ==
    CASE f = "graph" -> 1 [] f = "tickets" -> 2 [] f = "workflows" -> 3 [] f = "fence" -> 4
      [] f = "session" -> 5 [] OTHER -> 7

Ranked(r) ==
    /\ \A l \in r.held \cup r.want : Rank(l[1]) <= Ceiling(r.phase)
    /\ \A l \in r.want : Floor(r.phase) <= Rank(l[1])

Comparable(L) == \A l, m \in L : l = m \/ Precedes(l[1], m[1]) \/ Precedes(m[1], l[1])

Ordered(r) == (\A h \in r.held, l \in r.want : Precedes(h[1], l[1])) /\ Comparable(r.want)

Behind(r) ==
    /\ (r.phase \in {"workflows", "fence", "slots", "judge"} /\ r.op.do \in Deciding)
         => TicketLock(r.op.t) \in r.held \cup r.want
    /\ (r.phase \in {"fence", "slots", "judge"} /\ r.op.do \in Proving) => Fence("X") \in r.held \cup r.want
    /\ (r.phase \in {"fence", "judge"} /\ r.op.do = "open") => Fence("S") \in r.held \cup r.want

Sound(r) == PhaseFits(r) /\ Ranked(r) /\ Ordered(r) /\ Behind(r)

(***************************************************************************)
(* The rows, as constant-level operators                                   *)
(***************************************************************************)
PrMetIn(B, R, pr) == \E t \in Tickets : B[t].pr = pr /\ R[t] # 0 /\ R[t] = B[t].id
MetIn(B, R, L, a) ==
    \/ a.kind = "ticket" /\ R[a.of] # 0
    \/ a.kind = "pr" /\ PrMetIn(B, R, a.of)
    \/ a.kind = "lot" /\ a.of \in L
SatIn(B, R, L, s) == Decisive(s) # {} /\ \A a \in Decisive(s) : MetIn(B, R, L, a)

\* An open that read no receipt still finds none when it commits.
Unmet(r, B, R, L) ==
    (r.phase = "judge" /\ r.op.do = "open") => \A a \in Anchors[r.op.s] : ~MetIn(B, R, L, a)

\* What a transaction writes as its receipt.
OwnR(op, B, R) == IF op.do = "integrate" THEN [R EXCEPT ![op.t] = B[op.t].id] ELSE R
OwnL(op, L) == IF op.do = "release" THEN Lots ELSE L

\* An open slot that its receipt satisfies is picked, or about to be locked.
Covered(r, B, R, L, S) ==
    (r.phase \in {"slots", "judge"} /\ r.op.do \in Proving) =>
        \A s \in FocusSlots : (S[s] = "open" /\ SatIn(B, OwnR(r.op, B, R), OwnL(r.op, L), s))
                                => s \in r.picked \/ SlotLock(s) \in r.want

(***************************************************************************)
(* The invariant                                                           *)
(***************************************************************************)
SoundInv == \A p \in Transactions : Sound(tx[p])
Mutex == \A p, q \in Transactions : p # q =>
            \A h \in tx[p].held, g \in tx[q].held : ~Excludes(h, g)
IdInv == \A t \in Tickets : received[t] <= binding[t].id
OpenSlotInv == \A s \in FocusSlots : slots[s] = "open" => ~SatIn(binding, received, released, s)
UnmetInv == \A p \in Transactions : Unmet(tx[p], binding, received, released)
CoveredInv == \A p \in Transactions : Covered(tx[p], binding, received, released, slots)
WaitInv == \A p \in DOMAIN queue : tx[p].want # {}
QueueInv == \A P \in SUBSET DOMAIN queue : P # {} => \E p \in P : queue[p] \cap P = {}

IInv == /\ LocksTypeOK /\ SoundInv /\ Mutex /\ IdInv /\ OpenSlotInv /\ UnmetInv /\ CoveredInv
        /\ WaitInv /\ QueueInv

(***************************************************************************)
(* Least and greatest                                                      *)
(***************************************************************************)
LEMMA Least ==
    ASSUME NEW S, S \subseteq Nat, S # {}
    PROVE  \E c \in S : \A d \in S : c <= d
  <1>1. PICK c \in S : \A d \in S : ~(<<d, c>> \in OpToRel(<, Nat))
    BY WFMin, NatLessThanWellFounded
  <1>2. \A d \in S : ~(d < c) BY <1>1 DEF OpToRel
  <1> QED BY <1>2

LEMMA Greatest ==
    ASSUME NEW S, S \subseteq Nat, S # {}, IsFiniteSet(S)
    PROVE  \E c \in S : \A d \in S : d <= c
  <1> DEFINE Above(y) == {x \in S : x > y}
             Sizes == {Cardinality(Above(y)) : y \in S}
  <1>1. \A c \in S : IsFiniteSet(Above(c)) /\ Cardinality(Above(c)) \in Nat
    <2> TAKE c \in S
    <2>1. Above(c) \in SUBSET S OBVIOUS
    <2>2. IsFiniteSet(Above(c)) BY <2>1, FS_Subset
    <2> QED BY <2>2, FS_CardinalityType
  <1>2. Sizes \subseteq Nat /\ Sizes # {} BY <1>1
  <1>3. PICK n \in Sizes : \A m \in Sizes : n <= m BY <1>2, Least
  <1>4. PICK c \in S : n = Cardinality(Above(c)) BY <1>3
  <1>5. ASSUME NEW d \in S, ~(d <= c) PROVE FALSE
    <2>0. c \in Nat /\ d \in Nat /\ c < d BY <1>5
    <2>1. Above(d) \in SUBSET Above(c)
      <3>1. \A x \in S : x > d => x > c BY <2>0
      <3> QED BY <3>1
    <2>2. d \in Above(c) /\ d \notin Above(d) BY <2>0
    <2> HIDE DEF Above
    <2>3. IsFiniteSet(Above(c)) /\ IsFiniteSet(Above(d)) /\ Cardinality(Above(c)) \in Nat /\ Cardinality(Above(d)) \in Nat
      BY <1>1
    <2>4. Cardinality(Above(d)) <= Cardinality(Above(c))
          /\ (Cardinality(Above(c)) = Cardinality(Above(d)) => Above(c) = Above(d))
      BY <2>1, <2>3, FS_Subset
    <2>5. Cardinality(Above(c)) # Cardinality(Above(d)) BY <2>2, <2>4
    <2>6. n <= Cardinality(Above(d)) BY <1>3
    <2> QED BY <1>4, <2>3, <2>4, <2>5, <2>6
  <1> QED BY <1>5

(***************************************************************************)
(* The order of the locks                                                  *)
(***************************************************************************)
LEMMA LockShape ==
    ASSUME NEW l \in Locks
    PROVE  Rank(l[1]) \in 1 .. 7 /\ Num(l[1]) \in Tickets \cup FocusSlots \cup {0} /\ Num(l[1]) \in Nat
  <1>1. l[1] \in Resources BY DEF Locks
  <1>2. Tickets \cup FocusSlots \subseteq Nat BY LocksAssumption
  <1> QED BY <1>1, <1>2 DEF Resources, Rank, Num

LEMMA RankOf ==
    ASSUME NEW i
    PROVE  /\ Rank(<<"graph", i>>) = 1 /\ Rank(<<"ticket", i>>) = 2 /\ Rank(<<"workflow", i>>) = 3
           /\ Rank(<<"fence", i>>) = 4 /\ Rank(<<"session", i>>) = 5 /\ Rank(<<"slot", i>>) = 6
           /\ Rank(<<"base", i>>) = 7
           /\ Num(<<"ticket", i>>) = i /\ Num(<<"workflow", i>>) = i /\ Num(<<"slot", i>>) = i
  BY DEF Rank, Num

LEMMA PrecedesStrict ==
    ASSUME NEW l \in Locks, NEW m \in Locks, Precedes(l[1], m[1])
    PROVE  l[1] # m[1] /\ ~Precedes(m[1], l[1])
  BY LockShape DEF Precedes

\* The next lock of a transaction is the first one it wants.
LEMMA FirstOf ==
    ASSUME NEW L, L \subseteq Locks, L # {}, Comparable(L)
    PROVE  First(L) \in L /\ \A m \in L : m = First(L) \/ Precedes(First(L)[1], m[1])
  <1> DEFINE Ranks == {Rank(l[1]) : l \in L}
  <1>1. Ranks \subseteq Nat /\ Ranks # {} BY LockShape
  <1>2. PICK k \in Ranks : \A m \in Ranks : k <= m BY <1>1, Least
  <1> DEFINE L1 == {l \in L : Rank(l[1]) = k}
             Nums == {Num(l[1]) : l \in L1}
  <1>3. L1 # {} /\ L1 \subseteq L BY <1>2
  <1>4. Nums \subseteq Nat /\ Nums # {} BY <1>3, LockShape
  <1>5. PICK n \in Nums : \A m \in Nums : n <= m BY <1>4, Least
  <1>6. PICK l \in L1 : Num(l[1]) = n BY <1>5
  <1>7. ASSUME NEW m \in L, m # l PROVE Precedes(l[1], m[1])
    <2>1. l \in L /\ Rank(l[1]) = k BY <1>6
    <2>2. Rank(m[1]) \in Ranks OBVIOUS
    <2>3. k <= Rank(m[1]) BY <1>2, <2>2
    <2>4. Rank(m[1]) = k => n <= Num(m[1]) BY <1>5
    <2>5. Precedes(l[1], m[1]) \/ Precedes(m[1], l[1]) BY <1>7, <2>1 DEF Comparable
    <2>6. ~Precedes(m[1], l[1]) BY <2>1, <2>3, <2>4, <1>6, LockShape DEF Precedes
    <2> QED BY <2>5, <2>6
  <1>8. \E x \in L : \A m \in L : m = x \/ Precedes(x[1], m[1]) BY <1>6, <1>7
  <1> QED BY <1>8 DEF First

\* Rows of one kind are locked by id.
LEMMA RowLocksOf ==
    ASSUME NEW kind \in {"ticket", "workflow", "slot"}, NEW S, S \subseteq Nat, NEW mode
    PROVE  Comparable(RowLocks(kind, S, mode))
  <1> SUFFICES ASSUME NEW i \in S, NEW j \in S, i # j
               PROVE  Precedes(<<kind, i>>, <<kind, j>>) \/ Precedes(<<kind, j>>, <<kind, i>>)
    BY DEF Comparable, RowLocks
  <1>1. Rank(<<kind, i>>) = Rank(<<kind, j>>) /\ Num(<<kind, i>>) = i /\ Num(<<kind, j>>) = j
    BY RankOf
  <1> QED BY <1>1 DEF Precedes

(***************************************************************************)
(* Shapes                                                                  *)
(***************************************************************************)
LEMMA OpShape ==
    ASSUME NEW op \in Operations
    PROVE  /\ op.do \in Deciding \cup {"open", "close", "bind", "end"}
           /\ op.do \in Deciding => op.t \in Tickets
           /\ op.do = "bind_pr" => op.pr \in Prs
           /\ op.do \in {"open", "close", "bind"} => op.s \in FocusSlots
           /\ op.do \in {"bind", "end"} => op.x \in Sessions
  BY DEF Operations, Deciding

LEMMA Typed ==
    ASSUME LocksTypeOK, NEW p \in Transactions
    PROVE  /\ tx[p] \in TxSet /\ tx[p].op \in Operations \cup {NoOp} /\ tx[p].phase \in Phases
           /\ tx[p].want \subseteq Locks /\ tx[p].held \subseteq Locks /\ tx[p].picked \subseteq FocusSlots
  BY DEF LocksTypeOK, TxSet

\* The next lock of a transaction that wants one.
LEMMA NextOf ==
    ASSUME LocksTypeOK, SoundInv, NEW p \in Transactions, tx[p].want # {}
    PROVE  /\ NextLock(p) \in tx[p].want /\ NextLock(p) \in Locks
           /\ \A m \in tx[p].want : m = NextLock(p) \/ Precedes(NextLock(p)[1], m[1])
           /\ \A h \in tx[p].held : Precedes(h[1], NextLock(p)[1])
  <1>1. tx[p].want \subseteq Locks BY Typed
  <1>2. Ordered(tx[p]) BY DEF SoundInv, Sound
  <1>3. Comparable(tx[p].want) BY <1>2 DEF Ordered
  <1>4. /\ First(tx[p].want) \in tx[p].want
        /\ \A m \in tx[p].want : m = First(tx[p].want) \/ Precedes(First(tx[p].want)[1], m[1])
    BY <1>1, <1>3, FirstOf
  <1> QED BY <1>1, <1>2, <1>4 DEF NextLock, Ordered

(***************************************************************************)
(* What the rows say                                                       *)
(***************************************************************************)
LEMMA Links ==
    /\ \A R, L, a : Met(R, L, a) <=> MetIn(binding, R, L, a)
    /\ \A R, L, s : Satisfied(R, L, s) <=> SatIn(binding, R, L, s)
    /\ \A op : OwnReceived(op) = OwnR(op, binding, received) /\ OwnReleased(op) = OwnL(op, released)
  BY DEF Met, MetIn, PrMet, PrMetIn, Satisfied, SatIn, OwnReceived, OwnR, OwnReleased, OwnL

LEMMA AnchorShape ==
    ASSUME NEW s \in FocusSlots
    PROVE  /\ Decisive(s) \subseteq Anchors[s]
           /\ \A a \in Anchors[s] : /\ a.kind \in {"ticket", "pr", "lot"}
                                    /\ a.kind = "ticket" => a.of \in Tickets
                                    /\ a.kind = "pr" => a.of \in Prs
                                    /\ a.kind = "lot" => a.of \in Lots
  <1>1. Anchors[s] \subseteq AnchorKinds BY LocksAssumption
  <1> QED BY <1>1 DEF AnchorKinds, Decisive

\* A transaction that changes one ticket's binding without a receipt for it
\* meets no further anchor.
LEMMA MetShrinks ==
    ASSUME NEW t \in Tickets, NEW B \in [Tickets -> Bindings], NEW C \in [Tickets -> Bindings],
           NEW R \in [Tickets -> Nat], NEW Q \in [Tickets -> Nat], NEW L,
           \A u \in Tickets : R[u] <= B[u].id,
           \A u \in Tickets \ {t} : C[u].pr = B[u].pr /\ C[u].id = B[u].id,
           \/ C[t].pr = NoPr
           \/ C[t].pr = B[t].pr /\ C[t].id = B[t].id
           \/ C[t].id = B[t].id + 1,
           \A u \in Tickets : Q[u] = R[u] \/ Q[u] = 0,
           NEW s \in FocusSlots
    PROVE  /\ \A a \in Anchors[s] : MetIn(C, Q, L, a) => MetIn(B, R, L, a)
           /\ SatIn(C, Q, L, s) => SatIn(B, R, L, s)
  <1>1. ASSUME NEW a \in Anchors[s], MetIn(C, Q, L, a) PROVE MetIn(B, R, L, a)
    <2>1. CASE a.kind = "ticket"
      <3>1. a.of \in Tickets /\ Q[a.of] # 0 BY <1>1, <2>1, AnchorShape DEF MetIn
      <3> QED BY <2>1, <3>1 DEF MetIn
    <2>2. CASE a.kind = "pr"
      <3>1. a.of \in Prs /\ PrMetIn(C, Q, a.of) BY <1>1, <2>2, AnchorShape DEF MetIn
      <3>2. PICK u \in Tickets : C[u].pr = a.of /\ Q[u] # 0 /\ Q[u] = C[u].id BY <3>1 DEF PrMetIn
      <3>3. Q[u] = R[u] BY <3>2
      <3>4. a.of # NoPr BY <3>1, LocksAssumption
      <3>5. B[u].id \in Nat /\ C[u].id \in Nat /\ R[u] <= B[u].id /\ R[u] \in Nat BY DEF Bindings
      <3>6. C[u].id # B[u].id + 1 BY <3>2, <3>3, <3>5
      <3>7. C[u].pr = B[u].pr /\ C[u].id = B[u].id BY <3>2, <3>4, <3>6
      <3>8. PrMetIn(B, R, a.of) BY <3>2, <3>3, <3>7 DEF PrMetIn
      <3> QED BY <2>2, <3>8 DEF MetIn
    <2>3. CASE a.kind = "lot" BY <1>1, <2>3 DEF MetIn
    <2> QED BY <2>1, <2>2, <2>3, AnchorShape
  <1> QED BY <1>1, AnchorShape DEF SatIn

\* A receipt of ticket t meets anchors that name t, its pull request or a lot.
LEMMA MetByReceipt ==
    ASSUME NEW op \in Operations, op.do \in Proving,
           NEW B \in [Tickets -> Bindings], NEW R \in [Tickets -> Nat], NEW L, NEW s \in FocusSlots,
           SatIn(B, OwnR(op, B, R), OwnL(op, L), s), ~SatIn(B, R, L, s)
    PROVE  \E a \in Anchors[s] : \/ a.kind = "ticket" /\ a.of = op.t
                                 \/ a.kind = "pr" /\ B[op.t].pr = a.of
                                 \/ a.kind = "lot"
  <1>1. PICK a \in Decisive(s) : MetIn(B, OwnR(op, B, R), OwnL(op, L), a) /\ ~MetIn(B, R, L, a)
    BY DEF SatIn
  <1>2. a \in Anchors[s] /\ a.kind \in {"ticket", "pr", "lot"} BY AnchorShape
  <1>3. op.t \in Tickets BY OpShape DEF Proving, Deciding
  <1>4. \A u \in Tickets \ {op.t} : OwnR(op, B, R)[u] = R[u] BY <1>3 DEF OwnR
  <1>5. CASE a.kind = "ticket"
    <2>1. a.of \in Tickets BY <1>2, <1>5, AnchorShape
    <2>2. OwnR(op, B, R)[a.of] # 0 /\ R[a.of] = 0 BY <1>1, <1>5 DEF MetIn
    <2> QED BY <1>2, <1>4, <1>5, <2>1, <2>2
  <1>6. CASE a.kind = "pr"
    <2>1. PrMetIn(B, OwnR(op, B, R), a.of) /\ ~PrMetIn(B, R, a.of) BY <1>1, <1>6 DEF MetIn
    <2>2. PICK u \in Tickets : B[u].pr = a.of /\ OwnR(op, B, R)[u] # 0 /\ OwnR(op, B, R)[u] = B[u].id
      BY <2>1 DEF PrMetIn
    <2>3. u = op.t BY <1>4, <2>1, <2>2 DEF PrMetIn
    <2> QED BY <1>2, <1>6, <2>2, <2>3
  <1>7. CASE a.kind = "lot" BY <1>2, <1>7
  <1> QED BY <1>2, <1>5, <1>6, <1>7

(***************************************************************************)
(* Waiting                                                                 *)
(***************************************************************************)
LEMMA NoCycle ==
    ASSUME IInv PROVE NoWaitCycle
  <1> SUFFICES ASSUME NEW P \in SUBSET {p \in Transactions : Waiting(p)}, P # {}
               PROVE  \E p \in P : Blockers(p) \cap P = {}
    BY DEF NoWaitCycle
  <1>1. /\ P \subseteq DOMAIN queue /\ P \subseteq Transactions
        /\ LocksTypeOK /\ SoundInv /\ WaitInv /\ QueueInv
    BY DEF Waiting, IInv
  <1>2. \A p \in P : tx[p].want # {} BY <1>1 DEF WaitInv
  <1>3. \A p \in P : NextLock(p) \in Locks /\ \A h \in tx[p].held : Precedes(h[1], NextLock(p)[1])
    BY <1>1, <1>2, NextOf
  <1> DEFINE Ranks == {Rank(NextLock(p)[1]) : p \in P}
  <1>4. Ranks \subseteq 1 .. 7 /\ Ranks # {} /\ Ranks \subseteq Nat BY <1>3, LockShape
  <1>5. IsFiniteSet(Ranks)
    <2>1. Ranks \in SUBSET Nat /\ 7 \in Nat /\ \A m \in Ranks : m <= 7 BY <1>4
    <2> HIDE DEF Ranks
    <2> QED BY <2>1, FS_BoundedSetOfNaturals
  <1>6. PICK k \in Ranks : \A m \in Ranks : m <= k BY <1>4, <1>5, Greatest
  <1> DEFINE P1 == {p \in P : Rank(NextLock(p)[1]) = k}
             Nums == {Num(NextLock(p)[1]) : p \in P1}
  <1>7. P1 # {} /\ P1 \subseteq P BY <1>6
  <1>8. Nums # {} /\ Nums \subseteq Nat /\ Nums \in SUBSET (Tickets \cup FocusSlots \cup {0})
    BY <1>3, <1>7, LockShape
  <1>9. IsFiniteSet(Nums)
    <2>1. IsFiniteSet(Tickets \cup FocusSlots \cup {0}) BY LocksAssumption, FS_AddElement
    <2> QED BY <1>8, <2>1, FS_Subset
  <1>10. PICK n \in Nums : \A m \in Nums : m <= n BY <1>8, <1>9, Greatest
  <1> DEFINE P2 == {p \in P1 : Num(NextLock(p)[1]) = n}
  <1>11. P2 # {} /\ P2 \in SUBSET DOMAIN queue BY <1>1, <1>7, <1>10
  <1>12. PICK p \in P2 : queue[p] \cap P2 = {} BY <1>1, <1>11 DEF QueueInv
  <1>13. ASSUME NEW q \in Blockers(p) \cap P PROVE FALSE
    <2>1. /\ q \in P /\ p \in P /\ Waiting(p)
          /\ \/ \E h \in tx[q].held : Excludes(NextLock(p), h)
             \/ q \in queue[p] /\ Excludes(NextLock(p), NextLock(q))
      BY <1>1, <1>12 DEF Blockers, Waiting
    <2>2. Rank(NextLock(q)[1]) <= k BY <1>6, <2>1
    <2>3. Rank(NextLock(q)[1]) = k => Num(NextLock(q)[1]) <= n BY <1>10, <2>1
    <2>4. Rank(NextLock(p)[1]) = k /\ Num(NextLock(p)[1]) = n BY <1>12
    <2>5. CASE \E h \in tx[q].held : Excludes(NextLock(p), h)
      <3>1. PICK h \in tx[q].held : h[1] = NextLock(p)[1] BY <2>5 DEF Excludes
      <3>2. Precedes(NextLock(p)[1], NextLock(q)[1]) BY <1>3, <2>1, <3>1
      <3>3. NextLock(p) \in Locks /\ NextLock(q) \in Locks BY <1>3, <2>1
      <3> QED BY <2>2, <2>3, <2>4, <3>2, <3>3, LockShape DEF Precedes
    <2>6. CASE q \in queue[p] /\ Excludes(NextLock(p), NextLock(q))
      <3>1. NextLock(p)[1] = NextLock(q)[1] BY <2>6 DEF Excludes
      <3>2. q \in P2 BY <2>1, <2>4, <3>1
      <3> QED BY <1>12, <2>6, <3>2
    <2> QED BY <2>1, <2>5, <2>6
  <1> QED BY <1>12, <1>13

(***************************************************************************)
(* Steps                                                                   *)
(***************************************************************************)
LEMMA Begins == LocksInit => IInv
  <1> SUFFICES ASSUME LocksInit PROVE IInv OBVIOUS
  <1> USE DEF LocksInit
  <1>1. NewTx \in TxSet BY DEF NewTx, TxAt, TxSet, Phases
  <1>2. \A p \in Transactions : tx[p] = NewTx OBVIOUS
  <1>3. DOMAIN queue = {} OBVIOUS
  <1>4. LocksTypeOK
    <2>1. deps \in [Tickets -> SUBSET Tickets] BY LocksAssumption
    <2>2. binding \in [Tickets -> Bindings]
      <3>1. Unbound \in Bindings BY DEF Unbound, Bindings
      <3>2. ASSUME NEW b \in [pr : Prs, id : {1}, merged : {FALSE}] PROVE b \in Bindings
        <4>1. b = [pr |-> b.pr, id |-> 1, merged |-> FALSE] /\ b.pr \in Prs OBVIOUS
        <4>2. \A x \in Prs : [pr |-> x, id |-> 1, merged |-> FALSE] \in Bindings BY DEF Bindings
        <4>3. PICK x \in Prs : b = [pr |-> x, id |-> 1, merged |-> FALSE] BY <4>1
        <4> QED BY <4>2, <4>3
      <3> QED BY <3>1, <3>2
    <2>3. received \in [Tickets -> Nat] /\ released \in SUBSET Lots OBVIOUS
    <2>4. slots \in [FocusSlots -> {"absent", "open", "received", "explicit"}] OBVIOUS
    <2>5. session \in [Sessions -> [open : BOOLEAN, slot : FocusSlots \cup {NoSlot}]] OBVIOUS
    <2>6. tx \in [Transactions -> TxSet] BY <1>1
    <2>7. queue \in [DOMAIN queue -> SUBSET DOMAIN queue] BY <1>3
    <2> QED BY <2>1, <2>2, <2>3, <2>4, <2>5, <2>6, <2>7, <1>3 DEF LocksTypeOK, TxSet
  <1>5. SoundInv
    <2>1. PhaseFits(NewTx) BY DEF NewTx, TxAt, PhaseFits
    <2>2. Ranked(NewTx) /\ Ordered(NewTx) BY DEF NewTx, TxAt, Ranked, Ordered, Comparable
    <2>3. Behind(NewTx) BY DEF NewTx, TxAt, Behind
    <2> QED BY <1>2, <2>1, <2>2, <2>3 DEF SoundInv, Sound
  <1>6. Mutex BY <1>2 DEF Mutex, NewTx, TxAt
  <1>7. \A t \in Tickets : binding[t].id \in Nat /\ received[t] = 0
    BY <1>4 DEF LocksTypeOK, Bindings
  <1>8. IdInv BY <1>7 DEF IdInv
  <1>9. \A s \in FocusSlots : \A a \in Anchors[s] : ~MetIn(binding, received, released, a)
    BY <1>7, AnchorShape DEF MetIn, PrMetIn
  <1>10. OpenSlotInv BY <1>9, AnchorShape DEF OpenSlotInv, SatIn
  <1>11. UnmetInv /\ CoveredInv BY <1>2 DEF UnmetInv, Unmet, CoveredInv, Covered, NewTx, TxAt
  <1>12. WaitInv /\ QueueInv BY <1>3 DEF WaitInv, QueueInv
  <1> QED BY <1>4, <1>5, <1>6, <1>8, <1>10, <1>11, <1>12 DEF IInv

\* What a transaction knows of the others.
Peers(r, p) == \A q \in Transactions \ {p} : \A h \in r.held, g \in tx[q].held : ~Excludes(h, g)

LEMMA ExcludesBoth == \A a, b : Excludes(a, b) <=> Excludes(b, a)
  BY DEF Excludes

\* One transaction moves, the others stay.
LEMMA OneMoves ==
    ASSUME IInv, NEW p \in Transactions, NEW r \in TxSet, tx' = [tx EXCEPT ![p] = r],
           Sound(r), Peers(r, p)
    PROVE  /\ tx' \in [Transactions -> TxSet] /\ tx'[p] = r /\ \A q \in Transactions \ {p} : tx'[q] = tx[q]
           /\ SoundInv' /\ Mutex'
  <1>1. tx \in [Transactions -> TxSet] BY DEF IInv, LocksTypeOK, TxSet
  <1>2. tx' \in [Transactions -> TxSet] /\ tx'[p] = r /\ \A q \in Transactions \ {p} : tx'[q] = tx[q]
    BY <1>1
  <1>3. SoundInv' BY <1>2 DEF IInv, SoundInv
  <1>4. Mutex'
    <2> SUFFICES ASSUME NEW q \in Transactions, NEW u \in Transactions, q # u,
                        NEW h \in tx'[q].held, NEW g \in tx'[u].held
                 PROVE  ~Excludes(h, g)
      BY DEF Mutex
    <2>1. CASE q = p BY <1>2, <2>1 DEF Peers
    <2>2. CASE u = p
      <3>1. ~Excludes(g, h) BY <1>2, <2>2 DEF Peers
      <3> QED BY <3>1, ExcludesBoth
    <2>3. CASE q # p /\ u # p
      <3>1. tx'[q] = tx[q] /\ tx'[u] = tx[u] BY <1>2, <2>3
      <3> QED BY <3>1 DEF IInv, Mutex
    <2> QED BY <2>1, <2>2, <2>3
  <1> QED BY <1>2, <1>3, <1>4

\* A step of a running transaction that takes no lock and writes nothing.
LEMMA Moves ==
    ASSUME IInv, NEW p \in Transactions, NEW r \in TxSet, tx' = [tx EXCEPT ![p] = r],
           tx[p].want = {}, r.held \subseteq tx[p].held, UNCHANGED <<rows, queue>>,
           Sound(r), Unmet(r, binding, received, released), Covered(r, binding, received, released, slots)
    PROVE  IInv'
  <1>1. Peers(r, p) BY DEF IInv, Mutex, Peers
  <1>2. /\ tx' \in [Transactions -> TxSet] /\ tx'[p] = r /\ \A q \in Transactions \ {p} : tx'[q] = tx[q]
        /\ SoundInv' /\ Mutex'
    BY <1>1, OneMoves
  <1>3. /\ deps' = deps /\ binding' = binding /\ received' = received /\ released' = released
        /\ slots' = slots /\ session' = session /\ queue' = queue
    BY DEF rows
  <1>4. LocksTypeOK' BY <1>2, <1>3 DEF IInv, LocksTypeOK, TxSet
  <1>5. IdInv' /\ OpenSlotInv' BY <1>3 DEF IInv, IdInv, OpenSlotInv
  <1>6. UnmetInv' BY <1>2, <1>3 DEF IInv, UnmetInv
  <1>7. CoveredInv' BY <1>2, <1>3 DEF IInv, CoveredInv
  <1>8. WaitInv'
    <2>1. p \notin DOMAIN queue BY DEF IInv, WaitInv
    <2>2. DOMAIN queue \subseteq Transactions BY DEF IInv, LocksTypeOK
    <2> QED BY <1>2, <1>3, <2>1, <2>2 DEF IInv, WaitInv
  <1>9. QueueInv' BY <1>3 DEF IInv, QueueInv
  <1> QED BY <1>2, <1>4, <1>5, <1>6, <1>7, <1>8, <1>9 DEF IInv

Done == TxAt(NoOp, "done", {}, {}, {})

LEMMA DoneSound ==
    /\ Done \in TxSet /\ Done.phase = "done" /\ Done.held = {} /\ Done.want = {} /\ Sound(Done)
    /\ \A B, R, L, S : Unmet(Done, B, R, L) /\ Covered(Done, B, R, L, S)
  <1>1. Done = [op |-> NoOp, phase |-> "done", want |-> {}, held |-> {}, picked |-> {}]
    BY DEF Done, TxAt
  <1>2. Done \in TxSet BY <1>1 DEF TxSet, Phases
  <1>3. Done.phase = "done" /\ Done.held = {} /\ Done.want = {} BY <1>1
  <1>4. PhaseFits(Done) BY <1>3 DEF PhaseFits
  <1>5. Ranked(Done) /\ Ordered(Done) BY <1>3 DEF Ranked, Ordered, Comparable
  <1>6. Behind(Done) BY <1>3 DEF Behind
  <1> QED BY <1>2, <1>3, <1>4, <1>5, <1>6 DEF Sound, Unmet, Covered

LEMMA RollsBack ==
    ASSUME IInv, NEW p \in Transactions, tx[p].want = {}, Rollback(p) PROVE IInv'
  <1>1. tx' = [tx EXCEPT ![p] = Done] /\ UNCHANGED <<rows, queue>> BY DEF Rollback, Released, Done
  <1> QED BY <1>1, DoneSound, Moves

\* The next phase of a running transaction.
LEMMA Enters ==
    ASSUME IInv, NEW p \in Transactions, tx[p].want = {}, UNCHANGED <<rows, queue>>,
           NEW f \in Phases, NEW w \in SUBSET Locks, NEW k \in SUBSET FocusSlots, NEW o \in Operations,
           NEW r, r = TxAt(o, f, w, tx[p].held, k),
           tx' = [tx EXCEPT ![p] = r],
           PhaseFits(r), Behind(r), Comparable(w),
           \A l \in tx[p].held : Rank(l[1]) <= Ceiling(f),
           \A l \in w : Floor(f) <= Rank(l[1]) /\ Rank(l[1]) <= Ceiling(f),
           \A h \in tx[p].held, l \in w : Rank(h[1]) < Rank(l[1]),
           Unmet(r, binding, received, released), Covered(r, binding, received, released, slots)
    PROVE  IInv'
  <1>1. r.op = o /\ r.phase = f /\ r.want = w /\ r.held = tx[p].held /\ r.picked = k BY DEF TxAt
  <1>2. r \in TxSet
    <2>1. tx[p].held \in SUBSET Locks BY Typed DEF IInv
    <2> QED BY <2>1 DEF TxSet, TxAt
  <1>3. Ranked(r) BY <1>1 DEF Ranked
  <1>4. Ordered(r) BY <1>1 DEF Ordered, Precedes
  <1>5. Sound(r) BY <1>3, <1>4 DEF Sound
  <1> QED BY <1>1, <1>2, <1>5, Moves

LEMMA Waits ==
    ASSUME IInv, NEW p \in Transactions, Wait(p) PROVE IInv'
  <1>1. /\ deps' = deps /\ binding' = binding /\ received' = received /\ released' = released
        /\ slots' = slots /\ session' = session /\ tx' = tx
    BY DEF Wait, rows
  <1>2. /\ tx[p].want # {} /\ p \notin DOMAIN queue
        /\ queue' = [q \in DOMAIN queue \cup {p} |-> IF q = p THEN DOMAIN queue ELSE queue[q]]
    BY DEF Wait, Waiting
  <1>3. DOMAIN queue' = DOMAIN queue \cup {p} BY <1>2
  <1>4. \A q \in DOMAIN queue : queue[q] \subseteq DOMAIN queue BY DEF IInv, LocksTypeOK
  <1>5. LocksTypeOK'
    <2>1. DOMAIN queue \subseteq Transactions BY DEF IInv, LocksTypeOK
    <2>2. queue' \in [DOMAIN queue' -> SUBSET DOMAIN queue'] BY <1>2, <1>3, <1>4
    <2> QED BY <1>1, <1>3, <2>1, <2>2 DEF IInv, LocksTypeOK
  <1>6. SoundInv' /\ Mutex' /\ IdInv' /\ OpenSlotInv' /\ UnmetInv' /\ CoveredInv'
    BY <1>1 DEF IInv, SoundInv, Mutex, IdInv, OpenSlotInv, UnmetInv, CoveredInv
  <1>7. WaitInv' BY <1>1, <1>2, <1>3 DEF IInv, WaitInv
  <1>8. QueueInv'
    <2> SUFFICES ASSUME NEW P \in SUBSET DOMAIN queue', P # {}
                 PROVE  \E q \in P : queue'[q] \cap P = {}
      BY DEF QueueInv
    <2>1. CASE P \subseteq {p}
      <3>1. p \in P /\ queue'[p] = DOMAIN queue BY <1>2, <2>1
      <3> QED BY <1>2, <2>1, <3>1
    <2>2. CASE ~(P \subseteq {p})
      <3>1. P \ {p} \in SUBSET DOMAIN queue /\ P \ {p} # {} BY <1>3, <2>2
      <3>2. PICK q \in P \ {p} : queue[q] \cap (P \ {p}) = {} BY <3>1 DEF IInv, QueueInv
      <3>3. queue'[q] = queue[q] /\ p \notin queue[q] BY <1>2, <1>4, <3>1
      <3> QED BY <3>2, <3>3
    <2> QED BY <2>1, <2>2
  <1> QED BY <1>5, <1>6, <1>7, <1>8 DEF IInv

LEMMA Takes ==
    ASSUME IInv, NEW p \in Transactions, Take(p) PROVE IInv'
  <1> DEFINE l == NextLock(p)
  <1>1. LocksTypeOK /\ SoundInv BY DEF IInv
  <1>2. tx[p].want # {} /\ ~Blocked(p) BY DEF Take
  <1>3. /\ l \in tx[p].want /\ l \in Locks
        /\ \A m \in tx[p].want : m = l \/ Precedes(l[1], m[1])
    BY <1>1, <1>2, NextOf
  <1> HIDE DEF l
  <1>4. /\ tx[p] \in TxSet /\ tx[p].want \subseteq Locks /\ tx[p].held \subseteq Locks
        /\ tx[p].picked \subseteq FocusSlots /\ tx[p].op \in Operations \cup {NoOp} /\ tx[p].phase \in Phases
    BY <1>1, Typed
  <1> DEFINE k == PickedWith(p, l)
             r == TxAt(tx[p].op, tx[p].phase, tx[p].want \ {l}, tx[p].held \cup {l}, k)
  <1>5. tx' = [tx EXCEPT ![p] = r]
    <2>1. tx \in [Transactions -> TxSet] BY <1>1 DEF LocksTypeOK, TxSet
    <2> QED BY <2>1 DEF Take, l
  <1>6. /\ deps' = deps /\ binding' = binding /\ received' = received /\ released' = released
        /\ slots' = slots /\ session' = session
        /\ queue' = [q \in DOMAIN queue \ {p} |-> queue[q] \ {p}]
    BY DEF Take, rows
  <1>7. k \subseteq FocusSlots
    <2>1. l[1] \in Resources BY <1>3 DEF Locks
    <2>2. l[1][1] = "slot" => l[1][2] \in FocusSlots BY <2>1 DEF Resources
    <2> QED BY <1>4, <2>2 DEF PickedWith
  <1>8. /\ r.op = tx[p].op /\ r.phase = tx[p].phase /\ r.want = tx[p].want \ {l}
        /\ r.held = tx[p].held \cup {l} /\ r.picked = k
    BY DEF TxAt
  <1>9. r \in TxSet
    <2> HIDE DEF k
    <2> QED BY <1>3, <1>4, <1>7 DEF TxSet, TxAt
  <1>10. tx[p].picked \subseteq k BY DEF PickedWith
  <1>11. Sound(r)
    <2> HIDE DEF r
    <2>1. PhaseFits(tx[p]) /\ Ranked(tx[p]) /\ Ordered(tx[p]) /\ Behind(tx[p]) BY <1>1 DEF SoundInv, Sound
    <2>2. PhaseFits(r) BY <1>2, <1>8, <2>1 DEF PhaseFits
    <2>3. Ranked(r) BY <1>3, <1>8, <2>1 DEF Ranked
    <2>4. Ordered(r) BY <1>3, <1>8, <2>1 DEF Ordered, Comparable
    <2>5. Behind(r) BY <1>3, <1>8, <2>1 DEF Behind
    <2> QED BY <2>2, <2>3, <2>4, <2>5 DEF Sound
  <1>12. Peers(r, p)
    <2> SUFFICES ASSUME NEW q \in Transactions \ {p}, NEW h \in r.held, NEW g \in tx[q].held
                 PROVE  ~Excludes(h, g)
      BY DEF Peers
    <2>1. CASE h \in tx[p].held BY <2>1 DEF IInv, Mutex
    <2>2. CASE h = l /\ h \notin tx[p].held
      <3>1. Blockers(p) = {} BY <1>2, <2>2 DEF Blocked, Holds, l
      <3> QED BY <2>2, <3>1 DEF Blockers, l
    <2> QED BY <1>8, <2>1, <2>2
  <1> HIDE DEF r
  <1>13. /\ tx' \in [Transactions -> TxSet] /\ tx'[p] = r /\ \A q \in Transactions \ {p} : tx'[q] = tx[q]
         /\ SoundInv' /\ Mutex'
    BY <1>5, <1>9, <1>11, <1>12, OneMoves
  <1>14. DOMAIN queue' = DOMAIN queue \ {p} /\ DOMAIN queue \subseteq Transactions
         /\ \A q \in DOMAIN queue : queue[q] \subseteq DOMAIN queue
    BY <1>1, <1>6 DEF LocksTypeOK
  <1>15. LocksTypeOK'
    <2>1. queue' \in [DOMAIN queue' -> SUBSET DOMAIN queue'] BY <1>6, <1>14
    <2> QED BY <1>1, <1>6, <1>13, <1>14, <2>1 DEF LocksTypeOK, TxSet
  <1>16. IdInv' /\ OpenSlotInv' BY <1>6 DEF IInv, IdInv, OpenSlotInv
  <1>17. UnmetInv'
    <2>1. Unmet(r, binding, received, released) BY <1>8 DEF IInv, UnmetInv, Unmet
    <2> QED BY <1>6, <1>13, <2>1 DEF IInv, UnmetInv
  <1>18. CoveredInv'
    <2>1. Covered(r, binding, received, released, slots)
      <3> SUFFICES ASSUME r.phase \in {"slots", "judge"}, r.op.do \in Proving, NEW s \in FocusSlots,
                          slots[s] = "open", SatIn(binding, OwnR(r.op, binding, received), OwnL(r.op, released), s)
                   PROVE  s \in r.picked \/ SlotLock(s) \in r.want
        BY DEF Covered
      <3>1. s \in tx[p].picked \/ SlotLock(s) \in tx[p].want BY <1>8 DEF IInv, CoveredInv, Covered
      <3>2. CASE SlotLock(s) = l
        <4>1. l[1][1] = "slot" /\ l[1][2] = s BY <3>2 DEF SlotLock
        <4>2. tx[p].op.do \in {"integrate", "release"} BY <1>8 DEF Proving
        <4> QED BY <1>8, <4>1, <4>2 DEF PickedWith
      <3>3. CASE SlotLock(s) # l BY <1>8, <1>10, <3>1, <3>3
      <3> QED BY <3>2, <3>3
    <2> QED BY <1>6, <1>13, <2>1 DEF IInv, CoveredInv
  <1>19. WaitInv' BY <1>13, <1>14 DEF IInv, WaitInv
  <1>20. QueueInv'
    <2> SUFFICES ASSUME NEW P \in SUBSET DOMAIN queue', P # {}
                 PROVE  \E q \in P : queue'[q] \cap P = {}
      BY DEF QueueInv
    <2>1. P \in SUBSET DOMAIN queue BY <1>14
    <2>2. PICK q \in P : queue[q] \cap P = {} BY <2>1 DEF IInv, QueueInv
    <2>3. queue'[q] = queue[q] \ {p} BY <1>6, <1>14
    <2> QED BY <2>2, <2>3
  <1> QED BY <1>13, <1>15, <1>16, <1>17, <1>18, <1>19, <1>20 DEF IInv

(***************************************************************************)
(* Steps that move a transaction to its next phase                         *)
(***************************************************************************)
LEMMA RowLocksAre ==
    ASSUME NEW mode \in {"S", "X"}
    PROVE  /\ \A T \in SUBSET Tickets : /\ RowLocks("ticket", T, mode) \subseteq Locks
                                        /\ RowLocks("workflow", T, mode) \subseteq Locks
           /\ \A T \in SUBSET FocusSlots : RowLocks("slot", T, mode) \subseteq Locks
           /\ \A T : \A l \in RowLocks("ticket", T, mode) : Rank(l[1]) = 2
           /\ \A T : \A l \in RowLocks("workflow", T, mode) : Rank(l[1]) = 3
           /\ \A T : \A l \in RowLocks("slot", T, mode) : Rank(l[1]) = 6
  <1>1. \A T \in SUBSET Tickets : RowLocks("ticket", T, mode) \subseteq Locks BY DEF RowLocks, Locks, Resources
  <1>2. \A T \in SUBSET Tickets : RowLocks("workflow", T, mode) \subseteq Locks BY DEF RowLocks, Locks, Resources
  <1>3. \A T \in SUBSET FocusSlots : RowLocks("slot", T, mode) \subseteq Locks BY DEF RowLocks, Locks, Resources
  <1>4. \A T : \A l \in RowLocks("ticket", T, mode) : Rank(l[1]) = 2
    <2> TAKE T
    <2> TAKE l \in RowLocks("ticket", T, mode)
    <2>1. PICK i \in T : l = <<<<"ticket", i>>, mode>> BY DEF RowLocks
    <2>2. l[1] = <<"ticket", i>> BY <2>1
    <2> QED BY <2>2, RankOf
  <1>5. \A T : \A l \in RowLocks("workflow", T, mode) : Rank(l[1]) = 3
    <2> TAKE T
    <2> TAKE l \in RowLocks("workflow", T, mode)
    <2>1. PICK i \in T : l = <<<<"workflow", i>>, mode>> BY DEF RowLocks
    <2>2. l[1] = <<"workflow", i>> BY <2>1
    <2> QED BY <2>2, RankOf
  <1>6. \A T : \A l \in RowLocks("slot", T, mode) : Rank(l[1]) = 6
    <2> TAKE T
    <2> TAKE l \in RowLocks("slot", T, mode)
    <2>1. PICK i \in T : l = <<<<"slot", i>>, mode>> BY DEF RowLocks
    <2>2. l[1] = <<"slot", i>> BY <2>1
    <2> QED BY <2>2, RankOf
  <1> QED BY <1>1, <1>2, <1>3, <1>4, <1>5, <1>6

\* A single lock.
LEMMA OneLock ==
    ASSUME NEW l \in Locks PROVE {l} \in SUBSET Locks /\ Comparable({l})
  BY DEF Comparable

LEMMA FenceLock ==
    ASSUME NEW mode \in {"S", "X"}
    PROVE  Fence(mode) \in Locks /\ Rank(Fence(mode)[1]) = 4 /\ <<<<"fence", 0>>, mode>> = Fence(mode)
  <1>1. Fence(mode) \in Locks BY DEF Fence, Locks, Resources
  <1>2. Rank(Fence(mode)[1]) = 4 BY RankOf DEF Fence
  <1> QED BY <1>1, <1>2 DEF Fence

\* What a running transaction holds when it wants nothing more.
LEMMA Running ==
    ASSUME IInv, NEW p \in Transactions, tx[p].want = {}
    PROVE  /\ PhaseFits(tx[p]) /\ Behind(tx[p])
           /\ \A l \in tx[p].held : l \in Locks /\ Rank(l[1]) \in 1 .. 7 /\ Rank(l[1]) <= Ceiling(tx[p].phase)
           /\ tx[p].picked \in SUBSET FocusSlots /\ tx[p].held \in SUBSET Locks
  <1>1. Sound(tx[p]) BY DEF IInv, SoundInv
  <1>2. tx[p].held \subseteq Locks /\ tx[p].picked \subseteq FocusSlots BY Typed DEF IInv
  <1> QED BY <1>1, <1>2, LockShape DEF Sound, Ranked

LEMMA Entered ==
    ASSUME IInv, NEW p \in Transactions, NEW f, NEW w, Enter(p, f, w)
    PROVE  tx' = [tx EXCEPT ![p] = TxAt(tx[p].op, f, w, tx[p].held, tx[p].picked)]
  <1>1. tx \in [Transactions -> TxSet] BY DEF IInv, LocksTypeOK, TxSet
  <1> QED BY <1>1 DEF Enter

LEMMA AtFields ==
    ASSUME NEW o, NEW f, NEW w, NEW h, NEW k
    PROVE  /\ TxAt(o, f, w, h, k).op = o /\ TxAt(o, f, w, h, k).phase = f /\ TxAt(o, f, w, h, k).want = w
           /\ TxAt(o, f, w, h, k).held = h /\ TxAt(o, f, w, h, k).picked = k
  BY DEF TxAt

LEMMA BeginTxStep ==
    ASSUME IInv, NEW p \in Transactions, NEW op \in Requests[p], BeginTx(p, op) PROVE IInv'
  <1>1. op \in Operations BY LocksAssumption
  <1>2. tx[p].phase = "idle" /\ UNCHANGED <<rows, queue>> BY DEF BeginTx
  <1>3. tx[p].want = {} /\ tx[p].held = {} BY <1>2 DEF IInv, SoundInv, Sound, PhaseFits
  <1> DEFINE f == FirstPhase(op)
             w == FirstLocks(op)
             r == TxAt(op, f, w, tx[p].held, {})
  <1>4. tx' = [tx EXCEPT ![p] = r] BY <1>3 DEF BeginTx
  <1>5. r.op = op /\ r.phase = f /\ r.want = w /\ r.held = {} /\ r.picked = {} BY <1>3, AtFields
  <1> HIDE DEF r
  <1>6. /\ f \in Phases /\ w \in SUBSET Locks /\ Comparable(w)
        /\ \A l \in w : Floor(f) <= Rank(l[1]) /\ Rank(l[1]) <= Ceiling(f)
    <2>1. CASE op.do \in {"bind", "end"}
      <3>1. f = "session" /\ w = {<<<<"session", op.x>>, "X">>} BY <2>1 DEF FirstPhase, FirstLocks
      <3>2. op.x \in Sessions BY <1>1, <2>1, OpShape
      <3>3. <<<<"session", op.x>>, "X">> \in Locks BY <3>2 DEF Locks, Resources
      <3>4. Rank(<<"session", op.x>>) = 5 BY RankOf
      <3>5. \A l \in w : Rank(l[1]) = 5 BY <3>1, <3>4
      <3>6. f \in Phases /\ Floor(f) = 5 /\ Ceiling(f) = 5 BY <3>1 DEF Floor, Ceiling, Phases
      <3>7. w \in SUBSET Locks /\ Comparable(w) BY <3>1, <3>3, OneLock
      <3> HIDE DEF f, w
      <3> QED BY <3>5, <3>6, <3>7
    <2>2. CASE op.do = "close"
      <3>1. f = "slots" /\ w = RowLocks("slot", {op.s}, "X") BY <2>2 DEF FirstPhase, FirstLocks
      <3>2. op.s \in FocusSlots BY <1>1, <2>2, OpShape
      <3>3. {op.s} \subseteq Nat BY <3>2, LocksAssumption
      <3>4. w \in SUBSET Locks /\ \A l \in w : Rank(l[1]) = 6 BY <3>1, <3>2, RowLocksAre
      <3>5. Comparable(w) BY <3>1, <3>3, RowLocksOf
      <3>6. f \in Phases /\ Floor(f) = 6 /\ Ceiling(f) = 7 BY <3>1 DEF Floor, Ceiling, Phases
      <3> HIDE DEF f, w
      <3> QED BY <3>4, <3>5, <3>6
    <2>3. CASE op.do = "open"
      <3>1. f = "tickets" /\ w = RowLocks("ticket", AnchorTickets(op.s), "S") BY <2>3 DEF FirstPhase, FirstLocks
      <3>2. AnchorTickets(op.s) \in SUBSET Tickets BY DEF AnchorTickets
      <3>3. AnchorTickets(op.s) \subseteq Nat BY <3>2, LocksAssumption
      <3>4. w \in SUBSET Locks /\ \A l \in w : Rank(l[1]) = 2 BY <3>1, <3>2, RowLocksAre
      <3>5. Comparable(w) BY <3>1, <3>3, RowLocksOf
      <3>6. f \in Phases /\ Floor(f) = 2 /\ Ceiling(f) = 2 BY <3>1 DEF Floor, Ceiling, Phases
      <3> HIDE DEF f, w
      <3> QED BY <3>4, <3>5, <3>6
    <2>4. CASE op.do \in Deciding
      <3>1. f = "graph" /\ w = {<<<<"graph", 0>>, GraphMode(op)>>} BY <2>4 DEF FirstPhase, FirstLocks, Deciding
      <3>2. <<<<"graph", 0>>, GraphMode(op)>> \in Locks BY DEF Locks, Resources, GraphMode
      <3>3. Rank(<<"graph", 0>>) = 1 BY RankOf
      <3>4. \A l \in w : Rank(l[1]) = 1 BY <3>1, <3>3
      <3>5. f \in Phases /\ Floor(f) = 1 /\ Ceiling(f) = 1 BY <3>1 DEF Floor, Ceiling, Phases
      <3>6. w \in SUBSET Locks /\ Comparable(w) BY <3>1, <3>2, OneLock
      <3> HIDE DEF f, w
      <3> QED BY <3>4, <3>5, <3>6
    <2> QED BY <1>1, <2>1, <2>2, <2>3, <2>4, OpShape
  <1>7. PhaseFits(r) /\ Behind(r) /\ f # "judge" /\ ~(f = "slots" /\ op.do \in Proving)
    <2>1. \/ f = "session" /\ op.do \in {"bind", "end"}
          \/ f = "slots" /\ op.do = "close"
          \/ f = "tickets" /\ op.do = "open"
          \/ f = "graph" /\ op.do \in Deciding
      BY <1>1, OpShape DEF FirstPhase, Deciding
    <2> HIDE DEF f, w
    <2>2. PhaseFits(r) BY <1>1, <1>5, <2>1 DEF PhaseFits, Proving
    <2>3. Behind(r) BY <1>5, <2>1 DEF Behind, Deciding, Proving
    <2> QED BY <2>1, <2>2, <2>3 DEF Proving
  <1>8. Unmet(r, binding, received, released) /\ Covered(r, binding, received, released, slots)
    BY <1>5, <1>7 DEF Unmet, Covered
  <1> HIDE DEF f, w
  <1> QED BY <1>1, <1>2, <1>3, <1>4, <1>6, <1>7, <1>8, Enters DEF r

LEMMA LockScopeStep ==
    ASSUME IInv, NEW p \in Transactions, LockScope(p) PROVE IInv'
  <1>1. tx[p].phase = "graph" /\ tx[p].want = {} /\ UNCHANGED <<rows, queue>> BY DEF LockScope, Runs
  <1> DEFINE o == tx[p].op
             S == Scope(o)
             w == RowLocks("ticket", S, "X") \cup RowLocks("workflow", S, "X")
             r == TxAt(o, "workflows", w, tx[p].held, tx[p].picked)
  <1>2. tx' = [tx EXCEPT ![p] = r] BY Entered DEF LockScope
  <1>3. o \in Operations /\ o.do \in Deciding BY <1>1, Running DEF PhaseFits
  <1>4. o.t \in Tickets BY <1>3, OpShape
  <1>5. S \in SUBSET Tickets /\ o.t \in S BY <1>4 DEF IInv, LocksTypeOK, Scope
  <1>6. r.op = o /\ r.phase = "workflows" /\ r.want = w /\ r.held = tx[p].held /\ r.picked = tx[p].picked
    BY AtFields
  <1> HIDE DEF r, o, S
  <1>7. w \in SUBSET Locks /\ \A l \in w : Rank(l[1]) \in {2, 3} BY <1>5, RowLocksAre
  <1>8. Comparable(w)
    <2>1. S \subseteq Nat BY <1>5, LocksAssumption
    <2>2. Comparable(RowLocks("ticket", S, "X")) /\ Comparable(RowLocks("workflow", S, "X")) BY <2>1, RowLocksOf
    <2>3. /\ \A l \in RowLocks("ticket", S, "X") : Rank(l[1]) = 2
          /\ \A l \in RowLocks("workflow", S, "X") : Rank(l[1]) = 3
      BY RowLocksAre
    <2>4. \A l \in RowLocks("ticket", S, "X"), m \in RowLocks("workflow", S, "X") : Precedes(l[1], m[1])
      BY <2>3 DEF Precedes
    <2> QED BY <2>2, <2>4 DEF Comparable
  <1>9. TicketLock(o.t) \in w BY <1>5 DEF TicketLock, RowLocks
  <1> HIDE DEF w
  <1>10. PhaseFits(r) BY <1>3, <1>6 DEF PhaseFits
  <1>11. Behind(r) BY <1>6, <1>9 DEF Behind
  <1>12. Ceiling("graph") = 1 /\ Ceiling("workflows") = 3 /\ Floor("workflows") = 2 BY DEF Ceiling, Floor
  <1>13. \A l \in tx[p].held : Rank(l[1]) \in 1 .. 7 /\ Rank(l[1]) <= 1 BY <1>1, <1>12, Running
  <1>14. Unmet(r, binding, received, released) /\ Covered(r, binding, received, released, slots)
    BY <1>6 DEF Unmet, Covered
  <1>15. \A l \in w : Floor("workflows") <= Rank(l[1]) /\ Rank(l[1]) <= Ceiling("workflows") BY <1>7, <1>12
  <1>16. \A l \in tx[p].held : Rank(l[1]) <= Ceiling("workflows") BY <1>12, <1>13
  <1>17. \A h \in tx[p].held, l \in w : Rank(h[1]) < Rank(l[1]) BY <1>7, <1>13
  <1>18. tx[p].picked \in SUBSET FocusSlots /\ "workflows" \in Phases BY <1>1, Running DEF Phases
  <1> QED BY <1>1, <1>2, <1>3, <1>7, <1>8, <1>10, <1>11, <1>14, <1>15, <1>16, <1>17, <1>18, Enters DEF r

LEMMA TakeFenceStep ==
    ASSUME IInv, NEW p \in Transactions, TakeFence(p) PROVE IInv'
  <1>1. tx[p].phase = "workflows" /\ tx[p].want = {} /\ UNCHANGED <<rows, queue>> BY DEF TakeFence, Runs
  <1> DEFINE o == tx[p].op
             w == {Fence("X")}
             r == TxAt(o, "fence", w, tx[p].held, tx[p].picked)
  <1>2. tx' = [tx EXCEPT ![p] = r] BY Entered, FenceLock DEF TakeFence
  <1>3. o \in Operations /\ o.do \in Proving BY <1>1, Running DEF PhaseFits, TakeFence, Receipt, Releases, Proving
  <1>4. TicketLock(o.t) \in tx[p].held BY <1>1, <1>3, Running DEF Behind, Proving, Deciding
  <1>5. r.op = o /\ r.phase = "fence" /\ r.want = w /\ r.held = tx[p].held /\ r.picked = tx[p].picked
    BY AtFields
  <1> HIDE DEF r, o
  <1>6. w \in SUBSET Locks /\ Comparable(w) /\ \A l \in w : Rank(l[1]) = 4 BY FenceLock, OneLock
  <1>7. PhaseFits(r) BY <1>3, <1>5 DEF PhaseFits
  <1>8. Behind(r) BY <1>3, <1>4, <1>5 DEF Behind, Proving
  <1> HIDE DEF w
  <1>9. Ceiling("workflows") = 3 /\ Ceiling("fence") = 4 /\ Floor("fence") = 4 BY DEF Ceiling, Floor
  <1>10. \A l \in tx[p].held : Rank(l[1]) \in 1 .. 7 /\ Rank(l[1]) <= 3 BY <1>1, <1>9, Running
  <1>11. Unmet(r, binding, received, released) /\ Covered(r, binding, received, released, slots)
    BY <1>5 DEF Unmet, Covered
  <1>12. \A l \in w : Floor("fence") <= Rank(l[1]) /\ Rank(l[1]) <= Ceiling("fence") BY <1>6, <1>9
  <1>13. \A l \in tx[p].held : Rank(l[1]) <= Ceiling("fence") BY <1>9, <1>10
  <1>14. \A h \in tx[p].held, l \in w : Rank(h[1]) < Rank(l[1]) BY <1>6, <1>10
  <1>15. tx[p].picked \in SUBSET FocusSlots /\ "fence" \in Phases BY <1>1, Running DEF Phases
  <1> QED BY <1>1, <1>2, <1>3, <1>6, <1>7, <1>8, <1>11, <1>12, <1>13, <1>14, <1>15, Enters DEF r

\* The slots a receipt may satisfy are the ones the hook locks.
LEMMA LockSlotsStep ==
    ASSUME IInv, NEW p \in Transactions, LockSlots(p) PROVE IInv'
  <1>1. tx[p].phase = "fence" /\ tx[p].want = {} /\ tx[p].op.do # "open" /\ UNCHANGED <<rows, queue>>
    BY DEF LockSlots, Runs
  <1> DEFINE o == tx[p].op
             w == RowLocks("slot", TouchedSlots(o), "X")
             r == TxAt(o, "slots", w, tx[p].held, tx[p].picked)
  <1>2. tx' = [tx EXCEPT ![p] = r] BY Entered DEF LockSlots
  <1>3. o \in Operations /\ o.do \in Proving BY <1>1, Running DEF PhaseFits
  <1>4. TicketLock(o.t) \in tx[p].held /\ Fence("X") \in tx[p].held
    BY <1>1, <1>3, Running DEF Behind, Proving, Deciding
  <1>5. r.op = o /\ r.phase = "slots" /\ r.want = w /\ r.held = tx[p].held /\ r.picked = tx[p].picked
    BY AtFields
  <1>6. TouchedSlots(o) \in SUBSET FocusSlots BY DEF TouchedSlots
  <1> HIDE DEF r
  <1>7. w \in SUBSET Locks /\ \A l \in w : Rank(l[1]) = 6 BY <1>6, RowLocksAre
  <1>8. Comparable(w)
    <2>1. TouchedSlots(o) \subseteq Nat BY <1>6, LocksAssumption
    <2> QED BY <2>1, RowLocksOf
  <1>9. PhaseFits(r) BY <1>3, <1>5 DEF PhaseFits
  <1>10. Behind(r) BY <1>3, <1>4, <1>5 DEF Behind, Proving
  <1>11. Covered(r, binding, received, released, slots)
    <2> SUFFICES ASSUME NEW s \in FocusSlots, slots[s] = "open",
                        SatIn(binding, OwnR(o, binding, received), OwnL(o, released), s)
                 PROVE  SlotLock(s) \in w
      BY <1>5 DEF Covered
    <2>1. binding \in [Tickets -> Bindings] /\ received \in [Tickets -> Nat] BY DEF IInv, LocksTypeOK
    <2>2. ~SatIn(binding, received, released, s) BY DEF IInv, OpenSlotInv
    <2> HIDE DEF o
    <2>3. \E a \in Anchors[s] : \/ a.kind = "ticket" /\ a.of = o.t
                                \/ a.kind = "pr" /\ binding[o.t].pr = a.of
                                \/ a.kind = "lot"
      BY <1>3, <2>1, <2>2, MetByReceipt
    <2>4. s \in TouchedSlots(o) BY <2>3 DEF TouchedSlots
    <2> QED BY <2>4 DEF RowLocks, SlotLock
  <1> HIDE DEF w, o
  <1>12. Ceiling("slots") = 7 /\ Ceiling("fence") = 4 /\ Floor("slots") = 6 BY DEF Ceiling, Floor
  <1>13. \A l \in tx[p].held : Rank(l[1]) \in 1 .. 7 /\ Rank(l[1]) <= 4 BY <1>1, <1>12, Running
  <1>14. Unmet(r, binding, received, released) BY <1>5 DEF Unmet
  <1>15. \A l \in w : Floor("slots") <= Rank(l[1]) /\ Rank(l[1]) <= Ceiling("slots") BY <1>7, <1>12
  <1>16. \A l \in tx[p].held : Rank(l[1]) <= Ceiling("slots") BY <1>12, <1>13
  <1>17. \A h \in tx[p].held, l \in w : Rank(h[1]) < Rank(l[1]) BY <1>7, <1>13
  <1>18. tx[p].picked \in SUBSET FocusSlots /\ "slots" \in Phases BY <1>1, Running DEF Phases
  <1> QED BY <1>1, <1>2, <1>3, <1>7, <1>8, <1>9, <1>10, <1>11, <1>14, <1>15, <1>16, <1>17, <1>18, Enters DEF r

LEMMA JudgeStep ==
    ASSUME IInv, NEW p \in Transactions, Judge(p) PROVE IInv'
  <1>1. tx[p].phase = "slots" /\ tx[p].want = {} /\ tx[p].op.do \in Proving /\ UNCHANGED <<rows, queue>>
    BY DEF Judge, Runs, Proving
  <1> DEFINE o == tx[p].op
             k == {s \in tx[p].picked : Satisfied(OwnReceived(o), OwnReleased(o), s)}
             r == TxAt(o, "judge", {}, tx[p].held, k)
  <1>2. tx' = [tx EXCEPT ![p] = r]
    <2>1. tx \in [Transactions -> TxSet] BY DEF IInv, LocksTypeOK, TxSet
    <2> QED BY <2>1 DEF Judge
  <1>3. o \in Operations /\ o.do \in Proving BY <1>1, Running DEF PhaseFits
  <1>4. TicketLock(o.t) \in tx[p].held /\ Fence("X") \in tx[p].held
    BY <1>1, <1>3, Running DEF Behind, Proving, Deciding
  <1>5. r.op = o /\ r.phase = "judge" /\ r.want = {} /\ r.held = tx[p].held /\ r.picked = k BY AtFields
  <1> HIDE DEF r
  <1>6. k \in SUBSET FocusSlots BY <1>1, Running
  <1>7. PhaseFits(r) BY <1>3, <1>5 DEF PhaseFits
  <1>8. Behind(r) BY <1>3, <1>4, <1>5 DEF Behind, Proving
  <1>9. Covered(r, binding, received, released, slots)
    <2> SUFFICES ASSUME NEW s \in FocusSlots, slots[s] = "open",
                        SatIn(binding, OwnR(o, binding, received), OwnL(o, released), s)
                 PROVE  s \in k
      BY <1>5 DEF Covered
    <2>1. s \in tx[p].picked BY <1>1 DEF IInv, CoveredInv, Covered
    <2>2. Satisfied(OwnReceived(o), OwnReleased(o), s) BY Links
    <2> QED BY <2>1, <2>2
  <1> HIDE DEF k, o
  <1>10. Ceiling("slots") = 7 /\ Ceiling("judge") = 7 BY DEF Ceiling
  <1>11. \A l \in tx[p].held : Rank(l[1]) <= Ceiling("judge") BY <1>1, <1>10, Running
  <1>12. Unmet(r, binding, received, released) BY <1>3, <1>5 DEF Unmet, Proving
  <1>13. {} \in SUBSET Locks /\ Comparable({}) /\ "judge" \in Phases BY DEF Comparable, Phases
  <1> QED BY <1>1, <1>2, <1>3, <1>6, <1>7, <1>8, <1>9, <1>11, <1>12, <1>13, Enters DEF r

LEMMA OpenTakesFenceStep ==
    ASSUME IInv, NEW p \in Transactions, OpenTakesFence(p) PROVE IInv'
  <1>1. tx[p].phase = "tickets" /\ tx[p].want = {} /\ tx[p].op.do = "open" /\ UNCHANGED <<rows, queue>>
    BY DEF OpenTakesFence, Runs
  <1> DEFINE o == tx[p].op
             w == {Fence("S")}
             r == TxAt(o, "fence", w, tx[p].held, tx[p].picked)
  <1>2. tx' = [tx EXCEPT ![p] = r] BY Entered, FenceLock DEF OpenTakesFence
  <1>3. o \in Operations BY <1>1, Running DEF PhaseFits
  <1>4. r.op = o /\ r.phase = "fence" /\ r.want = w /\ r.held = tx[p].held /\ r.picked = tx[p].picked
    BY AtFields
  <1> HIDE DEF r
  <1>5. w \in SUBSET Locks /\ Comparable(w) /\ \A l \in w : Rank(l[1]) = 4 BY FenceLock, OneLock
  <1>6. PhaseFits(r) BY <1>1, <1>3, <1>4 DEF PhaseFits
  <1>7. Behind(r) BY <1>1, <1>4 DEF Behind, Deciding, Proving
  <1> HIDE DEF w, o
  <1>8. Ceiling("tickets") = 2 /\ Ceiling("fence") = 4 /\ Floor("fence") = 4 BY DEF Ceiling, Floor
  <1>9. \A l \in tx[p].held : Rank(l[1]) \in 1 .. 7 /\ Rank(l[1]) <= 2 BY <1>1, <1>8, Running
  <1>10. Unmet(r, binding, received, released) /\ Covered(r, binding, received, released, slots)
    BY <1>4 DEF Unmet, Covered
  <1>11. \A l \in w : Floor("fence") <= Rank(l[1]) /\ Rank(l[1]) <= Ceiling("fence") BY <1>5, <1>8
  <1>12. \A l \in tx[p].held : Rank(l[1]) <= Ceiling("fence") BY <1>8, <1>9
  <1>13. \A h \in tx[p].held, l \in w : Rank(h[1]) < Rank(l[1]) BY <1>5, <1>9
  <1>14. tx[p].picked \in SUBSET FocusSlots /\ "fence" \in Phases BY <1>1, Running DEF Phases
  <1> QED BY <1>1, <1>2, <1>3, <1>5, <1>6, <1>7, <1>10, <1>11, <1>12, <1>13, <1>14, Enters DEF r

LEMMA OpenReadsReceiptsStep ==
    ASSUME IInv, NEW p \in Transactions, OpenReadsReceipts(p) PROVE IInv'
  <1>1. tx[p].phase = "fence" /\ tx[p].want = {} /\ tx[p].op.do = "open" BY DEF OpenReadsReceipts, Runs
  <1>2. CASE AlreadyReceived(tx[p].op.s)
    <2>1. Rollback(p) BY <1>2 DEF OpenReadsReceipts
    <2> QED BY <1>1, <2>1, RollsBack
  <1>3. CASE ~AlreadyReceived(tx[p].op.s)
    <2>1. Enter(p, "judge", {}) /\ UNCHANGED <<rows, queue>> BY <1>3 DEF OpenReadsReceipts
    <2> DEFINE o == tx[p].op
               r == TxAt(o, "judge", {}, tx[p].held, tx[p].picked)
    <2>2. tx' = [tx EXCEPT ![p] = r] BY <2>1, Entered
    <2>3. o \in Operations BY <1>1, Running DEF PhaseFits
    <2>4. Fence("S") \in tx[p].held BY <1>1, Running DEF Behind
    <2>5. r.op = o /\ r.phase = "judge" /\ r.want = {} /\ r.held = tx[p].held /\ r.picked = tx[p].picked
      BY AtFields
    <2> HIDE DEF r
    <2>6. PhaseFits(r) BY <1>1, <2>3, <2>5 DEF PhaseFits
    <2>7. Behind(r) BY <1>1, <2>4, <2>5 DEF Behind, Deciding, Proving
    <2>8. Unmet(r, binding, received, released) BY <1>3, <2>5, Links DEF Unmet, AlreadyReceived
    <2>9. Covered(r, binding, received, released, slots) BY <1>1, <2>5 DEF Covered, Proving
    <2> HIDE DEF o
    <2>10. Ceiling("fence") = 4 /\ Ceiling("judge") = 7 BY DEF Ceiling
    <2>11. \A l \in tx[p].held : Rank(l[1]) \in 1 .. 7 BY <1>1, Running
    <2>12. \A l \in tx[p].held : Rank(l[1]) <= Ceiling("judge") BY <2>10, <2>11
    <2>13. {} \in SUBSET Locks /\ Comparable({}) /\ "judge" \in Phases BY DEF Comparable, Phases
    <2>14. tx[p].picked \in SUBSET FocusSlots BY <1>1, Running
    <2> QED BY <1>1, <2>1, <2>2, <2>3, <2>6, <2>7, <2>8, <2>9, <2>12, <2>13, <2>14, Enters DEF r
  <1> QED BY <1>2, <1>3

LEMMA LockFocusStep ==
    ASSUME IInv, NEW p \in Transactions, LockFocus(p) PROVE IInv'
  <1>1. tx[p].phase = "session" /\ tx[p].want = {} BY DEF LockFocus, Runs
  <1> DEFINE o == tx[p].op
             own == session[o.x].slot
             s == IF o.do = "bind" THEN o.s ELSE own
             w == IF s = NoSlot THEN {<<<<"base", 0>>, "X">>} ELSE RowLocks("slot", {s}, "X")
             r == TxAt(o, "slots", w, tx[p].held, tx[p].picked)
  <1>2. CASE ~session[o.x].open \/ own \notin {NoSlot, s}
    <2>1. Rollback(p) BY <1>2 DEF LockFocus
    <2> QED BY <1>1, <2>1, RollsBack
  <1>3. CASE ~(~session[o.x].open \/ own \notin {NoSlot, s})
    <2>1. Enter(p, "slots", w) /\ UNCHANGED <<rows, queue>> BY <1>3 DEF LockFocus
    <2> HIDE DEF w
    <2>2. tx' = [tx EXCEPT ![p] = r] BY <2>1, Entered
    <2>3. o \in Operations /\ o.do \in {"bind", "end"} BY <1>1, Running DEF PhaseFits
    <2>4. r.op = o /\ r.phase = "slots" /\ r.want = w /\ r.held = tx[p].held /\ r.picked = tx[p].picked
      BY AtFields
    <2> HIDE DEF r
    <2>5. s \in FocusSlots \cup {NoSlot}
      <3>1. o.x \in Sessions /\ (o.do = "bind" => o.s \in FocusSlots) BY <2>3, OpShape
      <3> QED BY <3>1 DEF IInv, LocksTypeOK
    <2> HIDE DEF s
    <2>6. w \in SUBSET Locks /\ Comparable(w) /\ \A l \in w : Rank(l[1]) \in {6, 7}
      <3>1. CASE s = NoSlot
        <4>1. w = {<<<<"base", 0>>, "X">>} BY <3>1 DEF w
        <4>2. <<<<"base", 0>>, "X">> \in Locks BY DEF Locks, Resources
        <4>3. Rank(<<"base", 0>>) = 7 BY RankOf
        <4>4. \A l \in w : Rank(l[1]) = 7 BY <4>1, <4>3
        <4> QED BY <4>1, <4>2, <4>4, OneLock
      <3>2. CASE s \in FocusSlots /\ s # NoSlot
        <4>1. w = RowLocks("slot", {s}, "X") BY <3>2 DEF w
        <4>2. {s} \subseteq Nat /\ {s} \in SUBSET FocusSlots BY <3>2, LocksAssumption
        <4>3. Comparable(w) BY <4>1, <4>2, RowLocksOf
        <4> QED BY <4>1, <4>2, <4>3, RowLocksAre
      <3> QED BY <2>5, <3>1, <3>2
    <2>7. PhaseFits(r) BY <2>3, <2>4 DEF PhaseFits
    <2>8. Behind(r) BY <2>3, <2>4 DEF Behind, Deciding, Proving
    <2>9. Unmet(r, binding, received, released) /\ Covered(r, binding, received, released, slots)
      BY <2>3, <2>4 DEF Unmet, Covered, Proving
    <2> HIDE DEF o
    <2>10. Ceiling("session") = 5 /\ Ceiling("slots") = 7 /\ Floor("slots") = 6 BY DEF Ceiling, Floor
    <2>11. \A l \in tx[p].held : Rank(l[1]) \in 1 .. 7 /\ Rank(l[1]) <= 5 BY <1>1, <2>10, Running
    <2>12. \A l \in w : Floor("slots") <= Rank(l[1]) /\ Rank(l[1]) <= Ceiling("slots") BY <2>6, <2>10
    <2>13. \A l \in tx[p].held : Rank(l[1]) <= Ceiling("slots") BY <2>10, <2>11
    <2>14. \A h \in tx[p].held, l \in w : Rank(h[1]) < Rank(l[1]) BY <2>6, <2>11
    <2>15. tx[p].picked \in SUBSET FocusSlots /\ "slots" \in Phases BY <1>1, Running DEF Phases
    <2> QED BY <1>1, <2>1, <2>2, <2>3, <2>6, <2>7, <2>8, <2>9, <2>12, <2>13, <2>14, <2>15, Enters DEF r
  <1> QED BY <1>2, <1>3

(***************************************************************************)
(* Steps that commit                                                       *)
(***************************************************************************)
\* The transaction is done and has released its locks.
LEMMA Commits ==
    ASSUME IInv, NEW p \in Transactions, tx[p].want = {}, Released(p), queue' = queue
    PROVE  /\ tx' \in [Transactions -> TxSet] /\ tx'[p] = Done /\ \A q \in Transactions \ {p} : tx'[q] = tx[q]
           /\ SoundInv' /\ Mutex' /\ WaitInv' /\ QueueInv'
           /\ DOMAIN queue' \subseteq Transactions /\ queue' \in [DOMAIN queue' -> SUBSET DOMAIN queue']
  <1>1. tx' = [tx EXCEPT ![p] = Done] BY DEF Released, Done
  <1>2. Peers(Done, p) BY DoneSound DEF Peers
  <1>3. /\ tx' \in [Transactions -> TxSet] /\ tx'[p] = Done /\ \A q \in Transactions \ {p} : tx'[q] = tx[q]
        /\ SoundInv' /\ Mutex'
    BY <1>1, <1>2, DoneSound, OneMoves
  <1>4. p \notin DOMAIN queue BY DEF IInv, WaitInv
  <1>5. DOMAIN queue \subseteq Transactions BY DEF IInv, LocksTypeOK
  <1>6. WaitInv' BY <1>3, <1>4, <1>5 DEF IInv, WaitInv
  <1>7. QueueInv' BY DEF IInv, QueueInv
  <1>8. DOMAIN queue' \subseteq Transactions /\ queue' \in [DOMAIN queue' -> SUBSET DOMAIN queue']
    BY DEF IInv, LocksTypeOK
  <1> QED BY <1>3, <1>6, <1>7, <1>8

\* The locks behind which a receipt, and an open about to commit, stand.
LEMMA Stands ==
    ASSUME IInv, NEW q \in Transactions
    PROVE  /\ (tx[q].phase \in {"slots", "judge"} /\ tx[q].op.do \in Proving)
                => Fence("X") \in tx[q].held /\ TicketLock(tx[q].op.t) \in tx[q].held /\ tx[q].op \in Operations
           /\ (tx[q].phase = "judge" /\ tx[q].op.do = "open")
                => Fence("S") \in tx[q].held /\ tx[q].op \in Operations
  <1>1. Sound(tx[q]) BY DEF IInv, SoundInv
  <1>2. tx[q].phase \in {"slots", "judge"} =>
            Fence("X") \notin tx[q].want /\ Fence("S") \notin tx[q].want /\ TicketLock(tx[q].op.t) \notin tx[q].want
    <2>1. CASE tx[q].phase = "judge" BY <1>1, <2>1 DEF Sound, PhaseFits
    <2>2. CASE tx[q].phase = "slots"
      <3>1. \A l \in tx[q].want : 6 <= Rank(l[1]) BY <1>1, <2>2 DEF Sound, Ranked, Floor
      <3>2. Rank(Fence("X")[1]) = 4 /\ Rank(Fence("S")[1]) = 4 BY FenceLock
      <3>3. Rank(TicketLock(tx[q].op.t)[1]) = 2 BY RankOf DEF TicketLock
      <3> QED BY <3>1, <3>2, <3>3
    <2> QED BY <2>1, <2>2
  <1>3. tx[q].phase \in {"slots", "judge"} => tx[q].op \in Operations BY <1>1 DEF Sound, PhaseFits
  <1>4. (tx[q].phase \in {"slots", "judge"} /\ tx[q].op.do \in Proving)
            => Fence("X") \in tx[q].held /\ TicketLock(tx[q].op.t) \in tx[q].held
    BY <1>1, <1>2 DEF Sound, Behind, Proving, Deciding
  <1>5. (tx[q].phase = "judge" /\ tx[q].op.do = "open") => Fence("S") \in tx[q].held
    BY <1>1, <1>2 DEF Sound, Behind
  <1> QED BY <1>3, <1>4, <1>5

\* Behind the exclusive fence there is no other receipt and no open.
LEMMA FenceExcludes ==
    ASSUME IInv, NEW p \in Transactions, NEW q \in Transactions, p # q
    PROVE  /\ Fence("X") \in tx[p].held => Fence("X") \notin tx[q].held /\ Fence("S") \notin tx[q].held
           /\ Fence("S") \in tx[p].held => Fence("X") \notin tx[q].held
           /\ \A t : ~(TicketLock(t) \in tx[p].held /\ TicketLock(t) \in tx[q].held)
  <1>1. \A h \in tx[p].held, g \in tx[q].held : ~Excludes(h, g) BY DEF IInv, Mutex
  <1>2. Excludes(Fence("X"), Fence("X")) /\ Excludes(Fence("X"), Fence("S")) /\ Excludes(Fence("S"), Fence("X"))
    BY DEF Excludes, Fence
  <1>3. \A t : Excludes(TicketLock(t), TicketLock(t)) BY DEF Excludes, TicketLock
  <1> QED BY <1>1, <1>2, <1>3

LEMMA CommitReceiptStep ==
    ASSUME IInv, NEW p \in Transactions, CommitReceipt(p) PROVE IInv'
  <1> DEFINE o == tx[p].op
  <1>1. tx[p].phase = "judge" /\ tx[p].want = {} /\ o.do # "open" BY DEF CommitReceipt, Runs
  <1>2. o.do \in Proving /\ o \in Operations BY <1>1, Running DEF PhaseFits
  <1>3. /\ received' = OwnR(o, binding, received) /\ released' = OwnL(o, released)
        /\ binding' = IF o.do = "integrate" THEN [binding EXCEPT ![o.t].merged = TRUE] ELSE binding
        /\ slots' = [s \in FocusSlots |-> IF s \in tx[p].picked THEN "received" ELSE slots[s]]
        /\ deps' = deps /\ session' = session /\ queue' = queue /\ Released(p)
    BY Links DEF CommitReceipt
  <1>4. o.t \in Tickets BY <1>2, OpShape DEF Proving, Deciding
  <1>5. Fence("X") \in tx[p].held BY <1>1, <1>2, Stands
  <1>6. Covered(tx[p], binding, received, released, slots) BY DEF IInv, CoveredInv
  <1>7. binding \in [Tickets -> Bindings] /\ received \in [Tickets -> Nat] /\ released \in SUBSET Lots
        /\ slots \in [FocusSlots -> {"absent", "open", "received", "explicit"}]
    BY DEF IInv, LocksTypeOK
  <1>8. \A t \in Tickets : received[t] <= binding[t].id /\ binding[t].id \in Nat
    BY <1>7 DEF IInv, IdInv, Bindings
  <1>9. /\ tx' \in [Transactions -> TxSet] /\ tx'[p] = Done /\ \A q \in Transactions \ {p} : tx'[q] = tx[q]
        /\ SoundInv' /\ Mutex' /\ WaitInv' /\ QueueInv'
        /\ DOMAIN queue' \subseteq Transactions /\ queue' \in [DOMAIN queue' -> SUBSET DOMAIN queue']
    BY <1>1, <1>3, Commits
  <1> HIDE DEF o
  <1>10. received' \in [Tickets -> Nat] /\ \A t \in Tickets : received'[t] <= binding[t].id
    BY <1>3, <1>4, <1>7, <1>8 DEF OwnR
  <1>11. binding' \in [Tickets -> Bindings]
         /\ \A t \in Tickets : binding'[t].pr = binding[t].pr /\ binding'[t].id = binding[t].id
    <2>1. CASE o.do = "integrate"
      <3>1. binding' = [binding EXCEPT ![o.t] = [binding[o.t] EXCEPT !.merged = TRUE]] BY <1>3, <1>7, <2>1
      <3>2. PICK b \in Bindings : b = binding[o.t] BY <1>4, <1>7
      <3>3. [b EXCEPT !.merged = TRUE] \in Bindings BY DEF Bindings
      <3>4. [b EXCEPT !.merged = TRUE].pr = b.pr /\ [b EXCEPT !.merged = TRUE].id = b.id BY DEF Bindings
      <3> QED BY <1>4, <1>7, <3>1, <3>2, <3>3, <3>4
    <2>2. CASE o.do # "integrate" BY <1>3, <1>7, <2>2
    <2> QED BY <2>1, <2>2
  <1>12. released' \in SUBSET Lots BY <1>3, <1>7 DEF OwnL
  <1>13. slots' \in [FocusSlots -> {"absent", "open", "received", "explicit"}] BY <1>3, <1>7
  <1>14. LocksTypeOK' BY <1>3, <1>9, <1>10, <1>11, <1>12, <1>13 DEF IInv, LocksTypeOK, TxSet
  <1>15. IdInv' BY <1>10, <1>11 DEF IdInv
  <1>16. OpenSlotInv'
    <2> SUFFICES ASSUME NEW s \in FocusSlots, slots'[s] = "open"
                 PROVE  ~SatIn(binding', received', released', s)
      BY DEF OpenSlotInv
    <2>1. s \notin tx[p].picked /\ slots[s] = "open" BY <1>3
    <2>2. ~SatIn(binding, OwnR(o, binding, received), OwnL(o, released), s)
      BY <1>1, <1>2, <1>6, <2>1 DEF Covered, o
    <2>3. ~SatIn(binding, received', released', s) BY <1>3, <2>2
    <2> QED BY <1>4, <1>7, <1>10, <1>11, <2>3, MetShrinks
  <1>17. UnmetInv'
    <2> SUFFICES ASSUME NEW q \in Transactions PROVE Unmet(tx[q], binding, received, released)'
      BY DEF UnmetInv
    <2>1. CASE q = p BY <1>9, <2>1, DoneSound
    <2>2. CASE q # p
      <3>1. ~(tx[q].phase = "judge" /\ tx[q].op.do = "open") BY <1>5, <2>2, Stands, FenceExcludes
      <3> QED BY <1>9, <2>2, <3>1 DEF Unmet
    <2> QED BY <2>1, <2>2
  <1>18. CoveredInv'
    <2> SUFFICES ASSUME NEW q \in Transactions PROVE Covered(tx[q], binding, received, released, slots)'
      BY DEF CoveredInv
    <2>1. CASE q = p BY <1>9, <2>1, DoneSound
    <2>2. CASE q # p
      <3>1. ~(tx[q].phase \in {"slots", "judge"} /\ tx[q].op.do \in Proving) BY <1>5, <2>2, Stands, FenceExcludes
      <3> QED BY <1>9, <2>2, <3>1 DEF Covered
    <2> QED BY <2>1, <2>2
  <1> QED BY <1>9, <1>14, <1>15, <1>16, <1>17, <1>18 DEF IInv

\* What a workflow commit leaves of a ticket's binding.
LEMMA Rebound ==
    ASSUME IInv, NEW p \in Transactions, CommitWorkflow(p)
    PROVE  LET t == tx[p].op.t IN
           /\ t \in Tickets
           /\ binding' \in [Tickets -> Bindings] /\ received' \in [Tickets -> Nat] /\ deps' \in [Tickets -> SUBSET Tickets]
           /\ \A u \in Tickets \ {t} : binding'[u] = binding[u]
           /\ \A u \in Tickets : received'[u] = received[u] \/ received'[u] = 0
           /\ \/ binding'[t].pr = NoPr /\ binding'[t].id = binding[t].id
              \/ binding'[t].pr = binding[t].pr /\ binding'[t].id = binding[t].id
              \/ binding'[t].id = binding[t].id + 1
  <1> DEFINE o == tx[p].op
             t == o.t
             b == binding[t]
             c == binding'[t]
  <1>1. tx[p].phase = "workflows" /\ tx[p].want = {} BY DEF CommitWorkflow, Runs
  <1>2. o \in Operations /\ o.do \in Deciding BY <1>1, Running DEF PhaseFits
  <1>3. t \in Tickets /\ (o.do = "bind_pr" => o.pr \in Prs) BY <1>2, OpShape
  <1>4. binding \in [Tickets -> Bindings] /\ received \in [Tickets -> Nat] /\ deps \in [Tickets -> SUBSET Tickets]
    BY DEF IInv, LocksTypeOK
  <1>5. b \in Bindings /\ b.pr \in Prs \cup {NoPr} /\ b.id \in Nat BY <1>3, <1>4 DEF Bindings
  <1>6. deps' \in [Tickets -> SUBSET Tickets] BY <1>3, <1>4, LocksAssumption DEF CommitWorkflow
  <1>7. received' \in [Tickets -> Nat] /\ \A u \in Tickets : received'[u] = received[u] \/ received'[u] = 0
    BY <1>3, <1>4 DEF CommitWorkflow
  <1>8. PICK d : /\ binding' = [binding EXCEPT ![t] = d]
                 /\ d = CASE o.do \in {"contract", "reopen"} -> [pr |-> NoPr, id |-> b.id, merged |-> FALSE]
                          [] o.do = "bind_pr" -> [pr |-> o.pr, id |-> b.id + 1, merged |-> FALSE]
                          [] o.do = "integrate" -> [pr |-> b.pr, id |-> b.id, merged |-> b.pr # NoPr]
                          [] o.do = "release" -> b
    BY DEF CommitWorkflow
  <1>9. binding'[t] = d /\ \A u \in Tickets \ {t} : binding'[u] = binding[u] BY <1>3, <1>4, <1>8
  <1> HIDE DEF b, t, o
  <1>10. d \in Bindings /\ (\/ d.pr = NoPr /\ d.id = b.id
                            \/ d.pr = b.pr /\ d.id = b.id
                            \/ d.id = b.id + 1)
    <2>1. CASE o.do \in {"contract", "reopen"}
      <3>1. d = [pr |-> NoPr, id |-> b.id, merged |-> FALSE] BY <1>8, <2>1
      <3>2. d \in Bindings BY <1>5, <3>1 DEF Bindings
      <3> QED BY <3>1, <3>2
    <2>2. CASE o.do = "bind_pr"
      <3>1. d = [pr |-> o.pr, id |-> b.id + 1, merged |-> FALSE] BY <1>8, <2>2
      <3>2. d \in Bindings BY <1>3, <1>5, <2>2, <3>1 DEF Bindings
      <3> QED BY <3>1, <3>2
    <2>3. CASE o.do = "integrate"
      <3>1. d = [pr |-> b.pr, id |-> b.id, merged |-> b.pr # NoPr] BY <1>8, <2>3
      <3>2. PICK m \in BOOLEAN : d = [pr |-> b.pr, id |-> b.id, merged |-> m] BY <3>1
      <3>3. d \in Bindings BY <1>5, <3>2 DEF Bindings
      <3> QED BY <3>1, <3>3
    <2>4. CASE o.do = "release"
      <3>1. d = b BY <1>8, <2>4
      <3> QED BY <1>5, <3>1
    <2> QED BY <1>2, <2>1, <2>2, <2>3, <2>4 DEF Deciding
  <1>11. binding' \in [Tickets -> Bindings] BY <1>4, <1>8, <1>10
  <1> QED BY <1>3, <1>6, <1>7, <1>9, <1>10, <1>11 DEF t, b, o

LEMMA CommitWorkflowStep ==
    ASSUME IInv, NEW p \in Transactions, CommitWorkflow(p) PROVE IInv'
  <1> DEFINE t == tx[p].op.t
  <1>1. /\ tx[p].phase = "workflows" /\ tx[p].want = {} /\ Released(p)
        /\ released' = released /\ slots' = slots /\ session' = session /\ queue' = queue
    BY DEF CommitWorkflow, Runs
  <1>2. TicketLock(t) \in tx[p].held BY <1>1, Running DEF PhaseFits, Behind
  <1>3. /\ tx' \in [Transactions -> TxSet] /\ tx'[p] = Done /\ \A q \in Transactions \ {p} : tx'[q] = tx[q]
        /\ SoundInv' /\ Mutex' /\ WaitInv' /\ QueueInv'
        /\ DOMAIN queue' \subseteq Transactions /\ queue' \in [DOMAIN queue' -> SUBSET DOMAIN queue']
    BY <1>1, Commits
  <1>4. /\ t \in Tickets
        /\ binding' \in [Tickets -> Bindings] /\ received' \in [Tickets -> Nat] /\ deps' \in [Tickets -> SUBSET Tickets]
        /\ \A u \in Tickets \ {t} : binding'[u] = binding[u]
        /\ \A u \in Tickets : received'[u] = received[u] \/ received'[u] = 0
        /\ \/ binding'[t].pr = NoPr /\ binding'[t].id = binding[t].id
           \/ binding'[t].pr = binding[t].pr /\ binding'[t].id = binding[t].id
           \/ binding'[t].id = binding[t].id + 1
    BY Rebound
  <1> HIDE DEF t
  <1>5. LocksTypeOK' BY <1>1, <1>3, <1>4 DEF IInv, LocksTypeOK, TxSet
  <1>6. binding \in [Tickets -> Bindings] /\ received \in [Tickets -> Nat] BY DEF IInv, LocksTypeOK
  <1>7. \A u \in Tickets : received[u] <= binding[u].id /\ binding[u].id \in Nat /\ received[u] \in Nat
    BY <1>6 DEF IInv, IdInv, Bindings
  <1>8. IdInv' BY <1>4, <1>7 DEF IdInv
  <1>9. \A s \in FocusSlots : /\ \A a \in Anchors[s] : MetIn(binding', received', released, a) => MetIn(binding, received, released, a)
                              /\ SatIn(binding', received', released, s) => SatIn(binding, received, released, s)
    BY <1>4, <1>6, <1>7, MetShrinks
  <1>10. OpenSlotInv' BY <1>1, <1>9 DEF IInv, OpenSlotInv
  <1>11. UnmetInv'
    <2> SUFFICES ASSUME NEW q \in Transactions PROVE Unmet(tx[q], binding, received, released)'
      BY DEF UnmetInv
    <2>1. CASE q = p BY <1>3, <2>1, DoneSound
    <2>2. CASE q # p
      <3>1. Unmet(tx[q], binding, received, released) BY DEF IInv, UnmetInv
      <3>2. (tx[q].phase = "judge" /\ tx[q].op.do = "open") => tx[q].op.s \in FocusSlots BY Stands, OpShape
      <3> QED BY <1>1, <1>3, <1>9, <2>2, <3>1, <3>2 DEF Unmet
    <2> QED BY <2>1, <2>2
  <1>12. CoveredInv'
    <2> SUFFICES ASSUME NEW q \in Transactions PROVE Covered(tx[q], binding, received, released, slots)'
      BY DEF CoveredInv
    <2>1. CASE q = p BY <1>3, <2>1, DoneSound
    <2>2. CASE q # p
      <3> DEFINE o == tx[q].op
      <3>1. tx'[q] = tx[q] BY <1>3, <2>2
      <3> SUFFICES ASSUME tx[q].phase \in {"slots", "judge"}, o.do \in Proving, NEW s \in FocusSlots, slots[s] = "open",
                          SatIn(binding', OwnR(o, binding', received'), OwnL(o, released), s)
                   PROVE  SatIn(binding, OwnR(o, binding, received), OwnL(o, released), s)
        <4>1. Covered(tx[q], binding, received, released, slots) BY DEF IInv, CoveredInv
        <4> QED BY <1>1, <3>1, <4>1 DEF Covered
      <3>2. TicketLock(o.t) \in tx[q].held /\ o \in Operations BY Stands
      <3>3. o.t # t BY <1>2, <2>2, <3>2, FenceExcludes
      <3>4. o.t \in Tickets BY <3>2, OpShape DEF Proving, Deciding
      <3> HIDE DEF o
      <3>5. binding'[o.t] = binding[o.t] BY <1>4, <3>3, <3>4
      <3>6. /\ OwnR(o, binding, received) \in [Tickets -> Nat] /\ OwnR(o, binding', received') \in [Tickets -> Nat]
            /\ \A u \in Tickets : OwnR(o, binding, received)[u] <= binding[u].id
            /\ \A u \in Tickets : \/ OwnR(o, binding', received')[u] = OwnR(o, binding, received)[u]
                                  \/ OwnR(o, binding', received')[u] = 0
        BY <1>4, <1>6, <1>7, <3>4, <3>5 DEF OwnR
      <3> QED BY <1>4, <1>6, <3>6, MetShrinks
    <2> QED BY <2>1, <2>2
  <1> QED BY <1>3, <1>5, <1>8, <1>10, <1>11, <1>12 DEF IInv

\* A commit that changes slots or sessions alone.
LEMMA SlotCommit ==
    ASSUME IInv, NEW p \in Transactions, tx[p].want = {}, Released(p),
           deps' = deps, binding' = binding, received' = received, released' = released, queue' = queue,
           slots' \in [FocusSlots -> {"absent", "open", "received", "explicit"}],
           session' \in [Sessions -> [open : BOOLEAN, slot : FocusSlots \cup {NoSlot}]],
           \A s \in FocusSlots : slots'[s] = "open" =>
                \/ slots[s] = "open"
                \/ /\ ~SatIn(binding, received, released, s)
                   /\ Fence("S") \in tx[p].held
    PROVE  IInv'
  <1>1. /\ tx' \in [Transactions -> TxSet] /\ tx'[p] = Done /\ \A q \in Transactions \ {p} : tx'[q] = tx[q]
        /\ SoundInv' /\ Mutex' /\ WaitInv' /\ QueueInv'
        /\ DOMAIN queue' \subseteq Transactions /\ queue' \in [DOMAIN queue' -> SUBSET DOMAIN queue']
    BY Commits
  <1>2. LocksTypeOK' BY <1>1 DEF IInv, LocksTypeOK, TxSet
  <1>3. IdInv' BY DEF IInv, IdInv
  <1>4. OpenSlotInv' BY DEF IInv, OpenSlotInv
  <1>5. UnmetInv'
    <2> SUFFICES ASSUME NEW q \in Transactions PROVE Unmet(tx[q], binding, received, released)'
      BY DEF UnmetInv
    <2>1. CASE q = p BY <1>1, <2>1, DoneSound
    <2>2. CASE q # p
      <3>1. Unmet(tx[q], binding, received, released) BY DEF IInv, UnmetInv
      <3> QED BY <1>1, <2>2, <3>1
    <2> QED BY <2>1, <2>2
  <1>6. CoveredInv'
    <2> SUFFICES ASSUME NEW q \in Transactions PROVE Covered(tx[q], binding, received, released, slots)'
      BY DEF CoveredInv
    <2>1. CASE q = p BY <1>1, <2>1, DoneSound
    <2>2. CASE q # p
      <3>1. Covered(tx[q], binding, received, released, slots) BY DEF IInv, CoveredInv
      <3>2. tx'[q] = tx[q] BY <1>1, <2>2
      <3>3. CASE Fence("S") \in tx[p].held
        <4>1. ~(tx[q].phase \in {"slots", "judge"} /\ tx[q].op.do \in Proving) BY <2>2, <3>3, Stands, FenceExcludes
        <4> QED BY <3>2, <4>1 DEF Covered
      <3>4. CASE Fence("S") \notin tx[p].held
        <4>1. \A s \in FocusSlots : slots'[s] = "open" => slots[s] = "open" BY <3>4
        <4> QED BY <3>1, <3>2, <4>1 DEF Covered
      <3> QED BY <3>3, <3>4
    <2> QED BY <2>1, <2>2
  <1> QED BY <1>1, <1>2, <1>3, <1>4, <1>5, <1>6 DEF IInv

LEMMA CommitOpenStep ==
    ASSUME IInv, NEW p \in Transactions, CommitOpen(p) PROVE IInv'
  <1> DEFINE z == tx[p].op.s
  <1>1. /\ tx[p].phase = "judge" /\ tx[p].want = {} /\ tx[p].op.do = "open" /\ Released(p)
        /\ deps' = deps /\ binding' = binding /\ received' = received /\ released' = released
        /\ session' = session /\ queue' = queue
        /\ slots' = [slots EXCEPT ![z] = IF slots[z] = "absent" THEN "open" ELSE slots[z]]
    BY DEF CommitOpen, Runs
  <1>2. Fence("S") \in tx[p].held /\ z \in FocusSlots BY <1>1, Stands, OpShape
  <1>3. slots \in [FocusSlots -> {"absent", "open", "received", "explicit"}]
        /\ session \in [Sessions -> [open : BOOLEAN, slot : FocusSlots \cup {NoSlot}]]
    BY DEF IInv, LocksTypeOK
  <1>4. \A a \in Anchors[z] : ~MetIn(binding, received, released, a) BY <1>1 DEF IInv, UnmetInv, Unmet
  <1>5. ~SatIn(binding, received, released, z) BY <1>2, <1>4, AnchorShape DEF SatIn
  <1> HIDE DEF z
  <1>6. slots' \in [FocusSlots -> {"absent", "open", "received", "explicit"}]
        /\ \A s \in FocusSlots : slots'[s] = "open" => slots[s] = "open" \/ s = z
    BY <1>1, <1>2, <1>3
  <1> QED BY <1>1, <1>2, <1>3, <1>5, <1>6, SlotCommit

LEMMA CloseExplicitlyStep ==
    ASSUME IInv, NEW p \in Transactions, CloseExplicitly(p) PROVE IInv'
  <1> DEFINE z == tx[p].op.s
  <1>1. tx[p].phase = "slots" /\ tx[p].want = {} BY DEF CloseExplicitly, Runs
  <1>2. CASE slots[z] = "open" /\ Holders(z) = {}
    <2>1. /\ slots' = [slots EXCEPT ![z] = "explicit"] /\ Released(p)
          /\ deps' = deps /\ binding' = binding /\ received' = received /\ released' = released
          /\ session' = session /\ queue' = queue
      BY <1>2 DEF CloseExplicitly
    <2>2. slots \in [FocusSlots -> {"absent", "open", "received", "explicit"}]
          /\ session \in [Sessions -> [open : BOOLEAN, slot : FocusSlots \cup {NoSlot}]]
      BY DEF IInv, LocksTypeOK
    <2>3. slots' \in [FocusSlots -> {"absent", "open", "received", "explicit"}]
          /\ \A s \in FocusSlots : slots'[s] = "open" => slots[s] = "open"
      BY <2>1, <2>2
    <2> QED BY <1>1, <2>1, <2>2, <2>3, SlotCommit
  <1>3. CASE ~(slots[z] = "open" /\ Holders(z) = {})
    <2>1. Rollback(p) BY <1>3 DEF CloseExplicitly
    <2> QED BY <1>1, <2>1, RollsBack
  <1> QED BY <1>2, <1>3

LEMMA CommitSessionStep ==
    ASSUME IInv, NEW p \in Transactions, CommitSession(p) PROVE IInv'
  <1> DEFINE o == tx[p].op
  <1>1. tx[p].phase = "slots" /\ tx[p].want = {} /\ o.do \in {"bind", "end"} BY DEF CommitSession, Runs
  <1>2. o \in Operations BY <1>1, Running DEF PhaseFits
  <1>3. o.x \in Sessions /\ (o.do = "bind" => o.s \in FocusSlots) BY <1>1, <1>2, OpShape
  <1>4. CASE o.do = "bind" /\ ~SlotTakesSession(o.s, o.x)
    <2>1. Rollback(p) BY <1>4 DEF CommitSession
    <2> QED BY <1>1, <2>1, RollsBack
  <1>5. CASE ~(o.do = "bind" /\ ~SlotTakesSession(o.s, o.x))
    <2>1. /\ session' = [session EXCEPT ![o.x] = IF o.do = "bind" THEN [session[o.x] EXCEPT !.slot = o.s]
                                                ELSE [session[o.x] EXCEPT !.open = FALSE]]
          /\ Released(p) /\ deps' = deps /\ binding' = binding /\ received' = received
          /\ released' = released /\ slots' = slots /\ queue' = queue
      BY <1>5 DEF CommitSession
    <2>2. slots \in [FocusSlots -> {"absent", "open", "received", "explicit"}]
          /\ session \in [Sessions -> [open : BOOLEAN, slot : FocusSlots \cup {NoSlot}]]
      BY DEF IInv, LocksTypeOK
    <2>3. session' \in [Sessions -> [open : BOOLEAN, slot : FocusSlots \cup {NoSlot}]]
      <3>1. PICK v \in [open : BOOLEAN, slot : FocusSlots \cup {NoSlot}] : v = session[o.x] BY <1>3, <2>2
      <3>2. [v EXCEPT !.open = FALSE] \in [open : BOOLEAN, slot : FocusSlots \cup {NoSlot}] OBVIOUS
      <3>3. o.do = "bind" => [v EXCEPT !.slot = o.s] \in [open : BOOLEAN, slot : FocusSlots \cup {NoSlot}] BY <1>3
      <3> QED BY <2>1, <2>2, <3>1, <3>2, <3>3
    <2> QED BY <1>1, <2>1, <2>2, <2>3, SlotCommit
  <1> QED BY <1>4, <1>5

(***************************************************************************)
(* Theorems                                                                *)
(***************************************************************************)
LEMMA Steps == IInv /\ [LocksNext]_locksVars => IInv'
  <1> SUFFICES ASSUME IInv, [LocksNext]_locksVars PROVE IInv' OBVIOUS
  <1>1. ASSUME NEW p \in Transactions, Step(p) PROVE IInv'
    BY <1>1, Waits, Takes, LockScopeStep, TakeFenceStep, LockSlotsStep, JudgeStep, CommitReceiptStep,
       CommitWorkflowStep, OpenTakesFenceStep, OpenReadsReceiptsStep, CommitOpenStep, CloseExplicitlyStep,
       LockFocusStep, CommitSessionStep
    DEF Step
  <1>2. ASSUME NEW p \in Transactions, NEW op \in Requests[p], BeginTx(p, op) PROVE IInv' BY <1>2, BeginTxStep
  <1>3. CASE UNCHANGED locksVars
    <2>1. /\ deps' = deps /\ binding' = binding /\ received' = received /\ released' = released
          /\ slots' = slots /\ session' = session /\ tx' = tx /\ queue' = queue
      BY <1>3 DEF locksVars
    <2> QED BY <2>1 DEF IInv, LocksTypeOK, SoundInv, Mutex, IdInv, OpenSlotInv, UnmetInv, CoveredInv, WaitInv, QueueInv
  <1> QED BY <1>1, <1>2, <1>3 DEF LocksNext, AllDone

LEMMA Always == LocksSpec => []IInv
  BY Begins, Steps, PTL DEF LocksSpec

\* The rows, the transactions and the queue keep their shapes, whatever the
\* operations the transactions run and however they are interleaved.
THEOREM LocksTypeTheorem == LocksSpec => []LocksTypeOK
  <1>1. IInv => LocksTypeOK BY DEF IInv
  <1> QED BY <1>1, Always, PTL

\* An open of a slot and the receipt that satisfies it can miss each other
\* in no order of their statements (close_slots_satisfied_by,
\* lock_anchor_project_shared): no committed open slot has all its receipts.
THEOREM OpenSlotTheorem == LocksSpec => []NoOpenSlotIsSatisfied
  <1>1. IInv => NoOpenSlotIsSatisfied BY Links DEF IInv, OpenSlotInv, NoOpenSlotIsSatisfied
  <1> QED BY <1>1, Always, PTL

\* Any number of decisions, contract changes, opens, closes and session
\* bindings never deadlock: among transactions that wait, one waits for none
\* of the others (lock_decision_scope, lock_workflows, lock_anchor_tickets).
THEOREM WaitTheorem == LocksSpec => []NoWaitCycle
  BY Always, NoCycle, PTL

\* Only an open slot takes a session, and only a slot without sessions is
\* closed by hand.
LEMMA CloseKeeps ==
    ASSUME LocksTypeOK, IInv, ExplicitCloseLeavesNoSession, [LocksNext]_locksVars
    PROVE  ExplicitCloseLeavesNoSession'
  <1> USE DEF ExplicitCloseLeavesNoSession, Holders
  <1>1. CASE slots' = slots /\ session' = session BY <1>1
  <1>2. ASSUME NEW p \in Transactions, CommitReceipt(p) PROVE ExplicitCloseLeavesNoSession'
    BY <1>2 DEF CommitReceipt
  <1>3. ASSUME NEW p \in Transactions, CommitOpen(p) PROVE ExplicitCloseLeavesNoSession'
    <2>1. slots' = [slots EXCEPT ![tx[p].op.s] = IF slots[tx[p].op.s] = "absent" THEN "open" ELSE slots[tx[p].op.s]]
          /\ session' = session
      BY <1>3 DEF CommitOpen
    <2>2. \A s \in FocusSlots : slots'[s] = "explicit" => slots[s] = "explicit" BY <2>1 DEF LocksTypeOK
    <2> QED BY <2>1, <2>2
  <1>4. ASSUME NEW p \in Transactions, CloseExplicitly(p) PROVE ExplicitCloseLeavesNoSession'
    <2> DEFINE z == tx[p].op.s
    <2>1. CASE slots[z] = "open" /\ Holders(z) = {}
      <3>1. slots' = [slots EXCEPT ![z] = "explicit"] /\ session' = session BY <1>4, <2>1 DEF CloseExplicitly
      <3>2. \A s \in FocusSlots : slots'[s] = "explicit" => slots[s] = "explicit" \/ s = z BY <3>1 DEF LocksTypeOK
      <3> QED BY <2>1, <3>1, <3>2
    <2>2. CASE ~(slots[z] = "open" /\ Holders(z) = {})
      BY <1>1, <1>4, <2>2 DEF CloseExplicitly, Rollback, rows
    <2> QED BY <2>1, <2>2
  <1>5. ASSUME NEW p \in Transactions, CommitSession(p) PROVE ExplicitCloseLeavesNoSession'
    <2> DEFINE o == tx[p].op
    <2>0. o.do \in {"bind", "end"} BY <1>5 DEF CommitSession
    <2>1. CASE o.do = "bind" /\ ~SlotTakesSession(o.s, o.x)
      BY <1>1, <1>5, <2>1 DEF CommitSession, Rollback, rows
    <2>2. CASE ~(o.do = "bind" /\ ~SlotTakesSession(o.s, o.x))
      <3>1. /\ session' = [session EXCEPT ![o.x] = IF o.do = "bind" THEN [session[o.x] EXCEPT !.slot = o.s]
                                                  ELSE [session[o.x] EXCEPT !.open = FALSE]]
            /\ slots' = slots
        BY <1>5, <2>2 DEF CommitSession
      <3>2. session \in [Sessions -> [open : BOOLEAN, slot : FocusSlots \cup {NoSlot}]] BY DEF LocksTypeOK
      <3>3. CASE o.do = "bind"
        <4>1. slots[o.s] = "open" BY <2>2, <3>3 DEF SlotTakesSession
        <4>2. \A x \in Sessions : session'[x].open = session[x].open
                    /\ (session'[x].slot = session[x].slot \/ session'[x].slot = o.s)
          BY <3>1, <3>2, <3>3
        <4> QED BY <3>1, <4>1, <4>2
      <3>4. CASE o.do = "end"
        <4>1. \A x \in Sessions : session'[x].slot = session[x].slot /\ (session'[x].open => session[x].open)
          BY <3>1, <3>2, <3>4
        <4> QED BY <3>1, <4>1
      <3> QED BY <2>0, <3>3, <3>4
    <2> QED BY <2>1, <2>2
  <1>6. ASSUME NEW p \in Transactions, CommitWorkflow(p) PROVE ExplicitCloseLeavesNoSession'
    BY <1>1, <1>6 DEF CommitWorkflow
  <1>7. ASSUME NEW p \in Transactions,
               \/ Wait(p) \/ Take(p) \/ LockScope(p) \/ TakeFence(p) \/ LockSlots(p) \/ Judge(p)
               \/ OpenTakesFence(p) \/ OpenReadsReceipts(p) \/ LockFocus(p)
        PROVE  ExplicitCloseLeavesNoSession'
    <2>1. UNCHANGED rows
      BY <1>7 DEF Wait, Take, LockScope, TakeFence, LockSlots, Judge, OpenTakesFence, OpenReadsReceipts, LockFocus, Rollback
    <2> QED BY <1>1, <2>1 DEF rows
  <1>8. ASSUME NEW p \in Transactions, NEW op \in Requests[p], BeginTx(p, op) PROVE ExplicitCloseLeavesNoSession'
    BY <1>1, <1>8 DEF BeginTx, rows
  <1>9. CASE UNCHANGED locksVars BY <1>1, <1>9 DEF locksVars
  <1> QED BY <1>2, <1>3, <1>4, <1>5, <1>6, <1>7, <1>8, <1>9 DEF LocksNext, Step, AllDone

\* A slot closed by hand leaves no open session working on it, though bind
\* and close read each other's row under the slot lock alone.
THEOREM CloseTheorem == LocksSpec => []ExplicitCloseLeavesNoSession
  <1>1. LocksInit => ExplicitCloseLeavesNoSession BY DEF LocksInit, ExplicitCloseLeavesNoSession
  <1>2. IInv => LocksTypeOK BY DEF IInv
  <1>3. IInv /\ ExplicitCloseLeavesNoSession /\ [LocksNext]_locksVars => ExplicitCloseLeavesNoSession'
    BY <1>2, CloseKeeps
  <1> QED BY <1>1, <1>3, Always, PTL DEF LocksSpec
=============================================================================
