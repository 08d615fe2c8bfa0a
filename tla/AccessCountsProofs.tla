------------------------- MODULE AccessCountsProofs -------------------------
(***************************************************************************)
(* The counting of reads implements CountOnce, for any number of servers,  *)
(* reads and entities.  A read has one place: the queue or the batch of    *)
(* one server, or the log; what a flush drained is logged until it         *)
(* commits, and the counters it read are still the counters of the table,  *)
(* because only one flush holds the lock.  It follows that counters and    *)
(* journal are exact at any time.                                          *)
(***************************************************************************)
EXTENDS AccessCounts, TLAPS, FiniteSetTheorems, SequenceTheorems, WellFoundedInduction

Places == {"new", "queued", "taken", "inserted", "logged", "counted", "lost"}

\* No read is queued twice in s.
Distinct(s) == \A i, j \in 1 .. Len(s) : s[i] = s[j] => i = j

TablesOK ==
    /\ state \in [Reads -> Places]
    /\ counter \in [EntityRows -> Nat] /\ daily \in [Entities -> Nat]

\* The reads a server holds, and no other server.
MemoryOK ==
    /\ DOMAIN pending = Servers /\ DOMAIN batch = Servers
    /\ \A p \in Servers :
          /\ pending[p] \in Seq(Reads) /\ Distinct(pending[p])
          /\ \A a \in Range(pending[p]) : state[a] = "queued"
          /\ batch[p].reads \subseteq Reads
          /\ \A a \in batch[p].reads : state[a] \in {"taken", "inserted"}
    /\ \A p, q \in Servers : p # q =>
          /\ Range(pending[p]) \cap Range(pending[q]) = {}
          /\ batch[p].reads \cap batch[q].reads = {}

\* One flush at a time; the rows it drained are there, its counters current.
FlushOK ==
    /\ DOMAIN flush = Servers
    /\ \A p, q \in Servers : p # q => flush[p].at = "idle" \/ flush[q].at = "idle"
    /\ \A p \in Servers :
          /\ flush[p].drained \subseteq Logged
          /\ flush[p].at \in {"idle", "locked", "bounded"} => flush[p].drained = {}
          /\ flush[p].at = "read" =>
                /\ DOMAIN flush[p].read = TouchedBy(p) \cap EntityRows
                /\ \A e \in DOMAIN flush[p].read : flush[p].read[e].count = counter[e]

AccessInv == TablesOK /\ MemoryOK /\ FlushOK
-----------------------------------------------------------------------------
(* Queues.                                                                 *)

\* A read that is not queued yet joins the queue at its end.
LEMMA QueueAppended ==
    ASSUME NEW s \in Seq(Reads), NEW a \in Reads, Distinct(s), a \notin Range(s)
    PROVE  /\ Append(s, a) \in Seq(Reads) /\ Distinct(Append(s, a))
           /\ Range(Append(s, a)) = Range(s) \cup {a}
<1> DEFINE r == Append(s, a)
<1>1. /\ r \in Seq(Reads) /\ Len(s) \in Nat /\ Len(r) = Len(s) + 1 /\ r[Len(s) + 1] = a
      /\ \A i \in 1 .. Len(s) : r[i] = s[i]
  OBVIOUS
<1>2. /\ DOMAIN s = 1 .. Len(s) /\ DOMAIN r = 1 .. Len(r)
  BY <1>1
<1> HIDE DEF r
<1>3. \A i \in 1 .. Len(s) : s[i] \in Range(s) /\ s[i] # a
  BY <1>2 DEF Range
<1>4. \A i \in 1 .. Len(r) : i \in 1 .. Len(s) \/ i = Len(s) + 1
  BY <1>1
<1>5. Distinct(r)
  <2> SUFFICES ASSUME NEW i \in 1 .. Len(r), NEW j \in 1 .. Len(r), r[i] = r[j] PROVE i = j
    BY DEF Distinct
  <2>1. CASE i \in 1 .. Len(s) /\ j \in 1 .. Len(s)
    BY <1>1, <2>1 DEF Distinct
  <2>2. CASE i = Len(s) + 1 /\ j \in 1 .. Len(s)
    BY <1>1, <1>3, <2>2
  <2>3. CASE i \in 1 .. Len(s) /\ j = Len(s) + 1
    BY <1>1, <1>3, <2>3
  <2> QED BY <1>4, <2>1, <2>2, <2>3
<1>6. Range(r) \subseteq Range(s) \cup {a}
  BY <1>1, <1>2, <1>3, <1>4 DEF Range
<1>7. Range(s) \cup {a} \subseteq Range(r)
  <2>1. \A i \in 1 .. Len(s) : i \in 1 .. Len(r) /\ s[i] = r[i]
    BY <1>1
  <2>2. Len(s) + 1 \in 1 .. Len(r) /\ r[Len(s) + 1] = a
    BY <1>1
  <2> QED BY <1>2, <2>1, <2>2 DEF Range
<1> QED BY <1>1, <1>5, <1>6, <1>7 DEF r

\* Taking the first n reads off a queue splits it in two disjoint parts.
LEMMA QueueTaken ==
    ASSUME NEW s \in Seq(Reads), NEW n \in Nat, n <= Len(s), Distinct(s)
    PROVE  LET T == {s[i] : i \in 1 .. n}
               r == SubSeq(s, n + 1, Len(s))
           IN  /\ r \in Seq(Reads) /\ Distinct(r) /\ T \subseteq Range(s)
               /\ Range(r) \subseteq Range(s) /\ T \cap Range(r) = {}
<1> DEFINE T == {s[i] : i \in 1 .. n}
           r == SubSeq(s, n + 1, Len(s))
<1>1. /\ Len(s) \in Nat /\ r \in Seq(Reads) /\ Len(r) = Len(s) - n
      /\ \A i \in 1 .. Len(r) : r[i] = s[n + i]
  OBVIOUS
<1>2. DOMAIN s = 1 .. Len(s) /\ DOMAIN r = 1 .. Len(r)
  BY <1>1
<1> HIDE DEF r
<1>3. \A i \in 1 .. Len(r) : n + i \in 1 .. Len(s) /\ n + i \notin 1 .. n
  BY <1>1
<1>4. \A i \in 1 .. n : i \in 1 .. Len(s)
  BY <1>1
<1>5. Distinct(r)
  <2> SUFFICES ASSUME NEW i \in 1 .. Len(r), NEW j \in 1 .. Len(r), r[i] = r[j] PROVE i = j
    BY DEF Distinct
  <2>1. n + i = n + j
    BY <1>1, <1>3 DEF Distinct
  <2> QED BY <2>1
<1>6. T \subseteq Range(s) /\ Range(r) \subseteq Range(s)
  BY <1>1, <1>2, <1>3, <1>4 DEF Range
<1>7. T \cap Range(r) = {}
  <2> SUFFICES ASSUME NEW i \in 1 .. n, NEW j \in 1 .. Len(r), s[i] = r[j] PROVE FALSE
    BY <1>2 DEF Range
  <2>1. i = n + j
    BY <1>1, <1>3, <1>4 DEF Distinct
  <2> QED BY <1>3, <2>1
<1> QED BY <1>1, <1>5, <1>6, <1>7 DEF r
-----------------------------------------------------------------------------
(* What the steps do to the promise.                                       *)

\* Only counting shows in the counters.
LEMMA PromiseStutters ==
    ASSUME \A a \in Reads : Fate(state[a])' = Fate(state[a]), UNCHANGED <<counter, daily>>
    PROVE  UNCHANGED Promise!vars
BY DEF Promise!vars

LEMMA PromiseLoses ==
    ASSUME NEW S \in SUBSET Reads, UNCHANGED <<counter, daily>>,
           \A a \in S : Fate(state[a]) \in {"new", "held"} /\ Fate(state[a])' = "lost",
           \A a \in Reads \ S : Fate(state[a])' = Fate(state[a])
    PROVE  Promise!Next
<1>1. S \subseteq Promise!In("new") \cup Promise!In("held")
  BY DEF Promise!In
<1>2. Promise!Become(S, "lost")
  BY DEF Promise!Become
<1> QED BY <1>1, <1>2 DEF Promise!Next, Promise!Lose

LEMMA PromiseHolds ==
    ASSUME NEW b \in Reads, UNCHANGED <<counter, daily>>,
           Fate(state[b]) = "new", Fate(state[b])' = "held",
           \A a \in Reads \ {b} : Fate(state[a])' = Fate(state[a])
    PROVE  Promise!Next
BY DEF Promise!Next, Promise!Hold, Promise!Become

\* CountOnce counts as the flusher does.
LEMMA SameCount == \A e, S : Promise!Of(e, S) = Of(e, S)
BY DEF Promise!Of, Of, Promise!Cardinality, Cardinality, Promise!IsFiniteSet, IsFiniteSet

LEMMA PromiseCounts ==
    ASSUME NEW S \in SUBSET Reads, DOMAIN daily = Entities,
           \A a \in S : Fate(state[a]) = "held" /\ Fate(state[a])' = "counted",
           \A a \in Reads \ S : Fate(state[a])' = Fate(state[a]),
           counter' = [e \in EntityRows |-> counter[e] + Of(e, S)],
           daily' = [e \in Entities |-> daily[e] + Of(e, S)]
    PROVE  Promise!Next
<1>1. S \subseteq Promise!In("held")
  BY DEF Promise!In
<1>2. Promise!Become(S, "counted")
  BY DEF Promise!Become
<1>3. \A e : Promise!Of(e, S) = Of(e, S)
  BY SameCount
<1>4. /\ counter' = [e \in EntityRows |-> counter[e] + Promise!Of(e, S)]
      /\ daily' = [e \in DOMAIN daily |-> daily[e] + Promise!Of(e, S)]
  BY <1>3
<1>5. Promise!Count(S)
  BY <1>1, <1>2, <1>4 DEF Promise!Count
<1> QED BY <1>5 DEF Promise!Next
-----------------------------------------------------------------------------
(* The invariant, step by step.                                            *)

\* One server's queue and batch change: what it holds now it held before, or
\* nobody did, and the reads of the other servers stay where they are.
LEMMA MemoryStep ==
    ASSUME MemoryOK, NEW p \in Servers, NEW s \in Seq(Reads), NEW b,
           DOMAIN pending' = Servers, DOMAIN batch' = Servers,
           pending'[p] = s, batch'[p].reads = b,
           \A q \in Servers \ {p} : pending'[q] = pending[q] /\ batch'[q] = batch[q],
           Distinct(s), \A a \in Range(s) : state'[a] = "queued",
           b \subseteq Reads, \A a \in b : state'[a] \in {"taken", "inserted"},
           \A a \in Range(s) : a \in Range(pending[p]) \/ state[a] = "new",
           b \subseteq Range(pending[p]) \cup batch[p].reads,
           \A q \in Servers \ {p} : \A a \in Range(pending[q]) \cup batch[q].reads :
               state'[a] = state[a]
    PROVE  MemoryOK'
<1>1. \A q \in Servers : pending'[q] \in Seq(Reads)
  BY DEF MemoryOK
<1>2. ASSUME NEW q \in Servers
      PROVE  /\ Distinct(pending'[q])
             /\ \A a \in Range(pending'[q]) : state'[a] = "queued"
             /\ batch'[q].reads \subseteq Reads
             /\ \A a \in batch'[q].reads : state'[a] \in {"taken", "inserted"}
  <2>1. CASE q = p
    BY <2>1
  <2>2. CASE q # p
    <3>1. /\ Distinct(pending[q]) /\ batch[q].reads \subseteq Reads
          /\ \A a \in Range(pending[q]) : state[a] = "queued"
          /\ \A a \in batch[q].reads : state[a] \in {"taken", "inserted"}
      BY DEF MemoryOK
    <3> QED BY <2>2, <3>1
  <2> QED BY <2>1, <2>2
<1>3. ASSUME NEW q \in Servers, q # p
      PROVE  Range(s) \cap Range(pending[q]) = {} /\ b \cap batch[q].reads = {}
  <2>1. /\ Range(pending[p]) \cap Range(pending[q]) = {}
        /\ batch[p].reads \cap batch[q].reads = {}
    BY <1>3 DEF MemoryOK
  <2>2. /\ \A a \in Range(pending[q]) : state[a] # "new"
        /\ \A a \in Range(pending[p]) : state[a] = "queued"
        /\ \A a \in batch[q].reads : state[a] # "queued"
    BY DEF MemoryOK
  <2> QED BY <2>1, <2>2
<1>4. ASSUME NEW q \in Servers, NEW r \in Servers, q # r
      PROVE  /\ Range(pending'[q]) \cap Range(pending'[r]) = {}
             /\ batch'[q].reads \cap batch'[r].reads = {}
  <2>1. CASE q = p
    BY <1>3, <1>4, <2>1
  <2>2. CASE r = p
    BY <1>3, <1>4, <2>2
  <2>3. CASE q # p /\ r # p
    BY <1>4, <2>3 DEF MemoryOK
  <2> QED BY <2>1, <2>2, <2>3
<1> QED BY <1>1, <1>2, <1>4 DEF MemoryOK

\* The reads of the servers' memories are held, and not logged.
LEMMA MemoryHeld ==
    ASSUME AccessInv, NEW p \in Servers
    PROVE  /\ pending[p] \in Seq(Reads) /\ Range(pending[p]) \subseteq Reads
           /\ batch[p].reads \subseteq Reads /\ Distinct(pending[p])
           /\ \A a \in Range(pending[p]) : state[a] = "queued"
           /\ \A a \in batch[p].reads : state[a] \in {"taken", "inserted"}
           /\ \A q \in Servers \ {p} : \A a \in Range(pending[p]) \cup batch[p].reads :
                 a \notin Range(pending[q]) \cup batch[q].reads
<1>1. /\ pending[p] \in Seq(Reads) /\ batch[p].reads \subseteq Reads /\ Distinct(pending[p])
      /\ \A q \in Servers : \A a \in Range(pending[q]) : state[a] = "queued"
      /\ \A q \in Servers : \A a \in batch[q].reads : state[a] \in {"taken", "inserted"}
  BY DEF AccessInv, MemoryOK
<1>2. Range(pending[p]) \subseteq Reads
  BY <1>1 DEF Range
<1>3. ASSUME NEW q \in Servers \ {p}, NEW a \in Range(pending[p]) \cup batch[p].reads
      PROVE  a \notin Range(pending[q]) \cup batch[q].reads
  <2>1. /\ Range(pending[p]) \cap Range(pending[q]) = {}
        /\ batch[p].reads \cap batch[q].reads = {}
    BY DEF AccessInv, MemoryOK
  <2> QED BY <1>1, <2>1
<1> QED BY <1>1, <1>2, <1>3

\* Steps outside the flusher keep what is logged and the counters.
LEMMA FlushKept ==
    ASSUME FlushOK, UNCHANGED counter, DOMAIN flush' = Servers,
           \A p \in Servers : flush'[p] = flush[p] \/ flush'[p] = NoFlush,
           Logged \subseteq Logged'
    PROVE  FlushOK'
<1>1. NoFlush.at = "idle" /\ NoFlush.drained = {}
  BY DEF NoFlush, FlushAt
<1>2. \A p, q \in Servers : p # q => flush'[p].at = "idle" \/ flush'[q].at = "idle"
  BY <1>1 DEF FlushOK
<1>3. ASSUME NEW p \in Servers
      PROVE  /\ flush'[p].drained \subseteq Logged'
             /\ flush'[p].at \in {"idle", "locked", "bounded"} => flush'[p].drained = {}
             /\ flush'[p].at = "read" =>
                   /\ DOMAIN flush'[p].read = TouchedBy(p)' \cap EntityRows
                   /\ \A e \in DOMAIN flush'[p].read : flush'[p].read[e].count = counter'[e]
  <2>1. CASE flush'[p] = NoFlush
    BY <1>1, <2>1
  <2>2. CASE flush'[p] = flush[p]
    <3>1. TouchedBy(p)' = TouchedBy(p)
      BY <2>2 DEF TouchedBy
    <3> QED BY <2>2, <3>1 DEF FlushOK
  <2> QED BY <2>1, <2>2
<1> QED BY <1>2, <1>3 DEF FlushOK

\* A flush moves on while the others are idle.
LEMMA FlushMoves ==
    ASSUME FlushOK, UNCHANGED <<state, counter>>, NEW p \in Servers, NEW f,
           flush' = [flush EXCEPT ![p] = f], f.drained \subseteq Logged,
           f.at = "idle" \/ \A q \in Servers \ {p} : flush[q].at = "idle",
           f.at \in {"idle", "locked", "bounded"} => f.drained = {},
           f.at = "read" => /\ DOMAIN f.read = {EntityOf[a] : a \in f.drained} \cap EntityRows
                            /\ \A e \in DOMAIN f.read : f.read[e].count = counter[e]
    PROVE  FlushOK'
<1>1. /\ DOMAIN flush' = Servers /\ flush'[p] = f
      /\ \A q \in Servers \ {p} : flush'[q] = flush[q]
  BY DEF FlushOK
<1>2. Logged' = Logged
  BY DEF Logged
<1>3. \A q, r \in Servers : q # r => flush'[q].at = "idle" \/ flush'[r].at = "idle"
  BY <1>1 DEF FlushOK
<1>4. ASSUME NEW q \in Servers
      PROVE  /\ flush'[q].drained \subseteq Logged'
             /\ flush'[q].at \in {"idle", "locked", "bounded"} => flush'[q].drained = {}
             /\ flush'[q].at = "read" =>
                   /\ DOMAIN flush'[q].read = TouchedBy(q)' \cap EntityRows
                   /\ \A e \in DOMAIN flush'[q].read : flush'[q].read[e].count = counter'[e]
  <2>1. CASE q = p
    <3>1. TouchedBy(q)' = {EntityOf[a] : a \in f.drained}
      BY <1>1, <2>1 DEF TouchedBy
    <3> QED BY <1>1, <1>2, <2>1, <3>1
  <2>2. CASE q # p
    <3>1. flush'[q] = flush[q] /\ TouchedBy(q)' = TouchedBy(q)
      BY <1>1, <2>2 DEF TouchedBy
    <3> QED BY <1>2, <3>1 DEF FlushOK
  <2> QED BY <2>1, <2>2
<1> QED BY <1>1, <1>3, <1>4 DEF FlushOK

\* What a step of the counting has to do.
Fine == AccessInv' /\ (Promise!Next \/ UNCHANGED Promise!vars)

\* A step of a server's logger: its reads in L are lost, the others it held it
\* still holds, or has logged.
LEMMA LoggerStep ==
    ASSUME AccessInv, NEW p \in Servers, NEW L,
           DOMAIN pending' = Servers, DOMAIN batch' = Servers,
           pending'[p] \in Seq(Reads), Distinct(pending'[p]),
           \A q \in Servers \ {p} : pending'[q] = pending[q] /\ batch'[q] = batch[q],
           Range(pending'[p]) \subseteq Range(pending[p]),
           batch'[p].reads \subseteq Range(pending[p]) \cup batch[p].reads,
           L \subseteq Range(pending[p]) \cup batch[p].reads,
           \A a \in L : state'[a] = "lost",
           \A a \in (Range(pending[p]) \cup batch[p].reads) \ L :
               state'[a] \in {"queued", "taken", "inserted", "logged"},
           \A a \in Reads : a \notin Range(pending[p]) \cup batch[p].reads => state'[a] = state[a],
           state' \in [Reads -> Places],
           \A a \in Range(pending'[p]) : state'[a] = "queued",
           \A a \in batch'[p].reads : state'[a] \in {"taken", "inserted"},
           UNCHANGED <<counter, daily>>, DOMAIN flush' = Servers,
           \A q \in Servers : flush'[q] = flush[q] \/ flush'[q] = NoFlush
    PROVE  Fine
<1>1. /\ Range(pending[p]) \subseteq Reads /\ batch[p].reads \subseteq Reads
      /\ \A a \in Range(pending[p]) : state[a] = "queued"
      /\ \A a \in batch[p].reads : state[a] \in {"taken", "inserted"}
      /\ \A q \in Servers \ {p} : \A a \in Range(pending[p]) \cup batch[p].reads :
            a \notin Range(pending[q]) \cup batch[q].reads
  BY MemoryHeld
<1>2. \A q \in Servers : Range(pending[q]) \cup batch[q].reads \subseteq Reads
  BY MemoryHeld
<1>3. TablesOK'
  BY DEF AccessInv, TablesOK
<1>4. MemoryOK'
  <2>1. \A q \in Servers \ {p} : \A a \in Range(pending[q]) \cup batch[q].reads :
            state'[a] = state[a]
    BY <1>1, <1>2
  <2>2. batch'[p].reads \subseteq Reads /\ MemoryOK
    BY <1>1 DEF AccessInv
  <2> QED BY <2>1, <2>2, MemoryStep
<1>5. FlushOK'
  <2>1. Logged \subseteq Logged'
    BY <1>1 DEF Logged
  <2> QED BY <2>1, FlushKept DEF AccessInv
<1>6. Promise!Next
  <2>1. L \in SUBSET Reads
    BY <1>1
  <2>2. \A a \in L : Fate(state[a]) \in {"new", "held"} /\ Fate(state[a])' = "lost"
    BY <1>1 DEF Fate
  <2>3. \A a \in Reads \ L : Fate(state[a])' = Fate(state[a])
    BY <1>1 DEF Fate
  <2> QED BY <2>1, <2>2, <2>3, PromiseLoses
<1> QED BY <1>3, <1>4, <1>5, <1>6 DEF Fine, AccessInv

LEMMA TakeFacts ==
    ASSUME AccessInv, NEW p \in Servers, NEW at, TakeInto(p, at)
    PROVE  /\ DOMAIN pending' = Servers /\ DOMAIN batch' = Servers
           /\ pending'[p] \in Seq(Reads) /\ Distinct(pending'[p])
           /\ batch'[p].reads \subseteq Range(pending[p])
           /\ Range(pending'[p]) \subseteq Range(pending[p])
           /\ Range(pending'[p]) \cap batch'[p].reads = {}
           /\ \A q \in Servers \ {p} : pending'[q] = pending[q] /\ batch'[q] = batch[q]
<1> DEFINE n == Taken(p)
           T == {pending[p][i] : i \in 1 .. n}
           r == SubSeq(pending[p], n + 1, Len(pending[p]))
<1>1. /\ DOMAIN pending = Servers /\ DOMAIN batch = Servers
      /\ pending[p] \in Seq(Reads) /\ Distinct(pending[p]) /\ Len(pending[p]) \in Nat
  BY DEF AccessInv, MemoryOK
<1>2. n \in Nat /\ n <= Len(pending[p])
  BY <1>1, AccessAssumption DEF Taken
<1>3. batch' = [batch EXCEPT ![p] = [at |-> at, reads |-> T]] /\ pending' = [pending EXCEPT ![p] = r]
  BY DEF TakeInto
<1> HIDE DEF n
<1>4. /\ r \in Seq(Reads) /\ Distinct(r) /\ T \subseteq Range(pending[p])
      /\ Range(r) \subseteq Range(pending[p]) /\ T \cap Range(r) = {}
  BY <1>1, <1>2, QueueTaken
<1> HIDE DEF T, r
<1>5. /\ DOMAIN pending' = Servers /\ DOMAIN batch' = Servers
      /\ pending'[p] = r /\ batch'[p].reads = T
      /\ \A q \in Servers \ {p} : pending'[q] = pending[q] /\ batch'[q] = batch[q]
  BY <1>1, <1>3
<1> QED BY <1>4, <1>5

\* The server's own memory, as the steps of its logger start from it.
LEMMA MemoryShape ==
    ASSUME AccessInv
    PROVE  /\ DOMAIN pending = Servers /\ DOMAIN batch = Servers /\ DOMAIN flush = Servers
           /\ state \in [Reads -> Places] /\ <<>> \in Seq(Reads)
           /\ Distinct(<<>>) /\ Range(<<>>) = {}
BY DEF AccessInv, MemoryOK, FlushOK, TablesOK, Distinct, Range

LEMMA FlushBatchStep == ASSUME AccessInv, NEW p \in Servers, FlushBatch(p) PROVE Fine
<1>1. /\ batch[p] = NoBatch /\ UNCHANGED <<counter, daily, flush>>
      /\ TakeInto(p, "taken") /\ state' = Become(batch'[p].reads, "taken")
  BY DEF FlushBatch
<1>2. batch[p].reads = {}
  BY <1>1 DEF NoBatch
<1>3. /\ Range(pending[p]) \subseteq Reads /\ \A a \in Range(pending[p]) : state[a] = "queued"
  BY MemoryHeld
<1>4. /\ state' \in [Reads -> Places] /\ \A a \in batch'[p].reads : state'[a] = "taken"
      /\ \A a \in Reads \ batch'[p].reads : state'[a] = state[a]
  BY <1>1, <1>3, MemoryShape, TakeFacts DEF Become, Places
<1>5. /\ \A a \in Range(pending'[p]) : state'[a] = "queued"
      /\ \A a \in Range(pending[p]) : state'[a] \in {"queued", "taken"}
      /\ \A a \in Reads : a \notin Range(pending[p]) => state'[a] = state[a]
  BY <1>1, <1>3, <1>4, TakeFacts
<1> DEFINE L == {}
<1>6. L \subseteq Range(pending[p]) /\ \A a \in L : state'[a] = "lost"
  OBVIOUS
<1> HIDE DEF L
<1> QED BY <1>1, <1>2, <1>4, <1>5, <1>6, MemoryShape, TakeFacts, LoggerStep

LEMMA StopStep == ASSUME AccessInv, NEW p \in Servers, Stop(p) PROVE Fine
<1>1. /\ UNCHANGED <<counter, daily, flush>> /\ TakeInto(p, "last")
      /\ state' = [a \in Reads |-> IF a \in batch[p].reads THEN "lost"
                                   ELSE IF a \in batch'[p].reads THEN "taken" ELSE state[a]]
  BY DEF Stop
<1>2. /\ Range(pending[p]) \subseteq Reads /\ \A a \in Range(pending[p]) : state[a] = "queued"
      /\ batch[p].reads \subseteq Reads /\ \A a \in batch[p].reads : state[a] \in {"taken", "inserted"}
  BY MemoryHeld
<1>3. Range(pending[p]) \cap batch[p].reads = {}
  BY <1>2
<1>4. /\ state' \in [Reads -> Places] /\ \A a \in batch[p].reads : state'[a] = "lost"
      /\ \A a \in batch'[p].reads : state'[a] = "taken"
      /\ \A a \in Reads \ (batch[p].reads \cup batch'[p].reads) : state'[a] = state[a]
  BY <1>1, <1>2, <1>3, MemoryShape, TakeFacts DEF Places
<1> DEFINE L == batch[p].reads
<1>5. /\ \A a \in Range(pending'[p]) : state'[a] = "queued"
      /\ \A a \in (Range(pending[p]) \cup batch[p].reads) \ L : state'[a] \in {"queued", "taken"}
      /\ \A a \in Reads : a \notin Range(pending[p]) \cup batch[p].reads => state'[a] = state[a]
  BY <1>1, <1>2, <1>3, <1>4, TakeFacts
<1>6. L \subseteq Range(pending[p]) \cup batch[p].reads /\ \A a \in L : state'[a] = "lost"
  BY <1>4
<1> HIDE DEF L
<1> QED BY <1>1, <1>4, <1>5, <1>6, MemoryShape, TakeFacts, LoggerStep

LEMMA InsertStep == ASSUME AccessInv, NEW p \in Servers, InsertRuns(p) PROVE Fine
<1> DEFINE at == IF batch[p].at = "last" THEN "lastinserted" ELSE "inserted"
           b == [at |-> at, reads |-> batch[p].reads]
<1>1. /\ UNCHANGED <<pending, counter, daily, flush>> /\ batch' = [batch EXCEPT ![p] = b]
      /\ state' = Become(batch[p].reads, "inserted")
  BY DEF InsertRuns
<1>2. /\ pending[p] \in Seq(Reads) /\ Distinct(pending[p])
      /\ Range(pending[p]) \subseteq Reads /\ \A a \in Range(pending[p]) : state[a] = "queued"
      /\ batch[p].reads \subseteq Reads /\ \A a \in batch[p].reads : state[a] \in {"taken", "inserted"}
  BY MemoryHeld
<1>3. b.reads = batch[p].reads
  OBVIOUS
<1> HIDE DEF b
<1>4. /\ DOMAIN batch' = Servers /\ batch'[p].reads = batch[p].reads
      /\ \A q \in Servers \ {p} : batch'[q] = batch[q]
  BY <1>1, <1>3, MemoryShape
<1>5. /\ state' \in [Reads -> Places] /\ \A a \in batch[p].reads : state'[a] = "inserted"
      /\ \A a \in Reads \ batch[p].reads : state'[a] = state[a]
  BY <1>1, <1>2, MemoryShape DEF Become, Places
<1>6. \A a \in Range(pending[p]) : state'[a] = "queued"
  BY <1>2, <1>5
<1> DEFINE L == {}
<1>7. /\ L \subseteq Range(pending[p]) \cup batch[p].reads /\ (\A a \in L : state'[a] = "lost")
      /\ pending'[p] = pending[p] /\ DOMAIN pending' = Servers
      /\ \A q \in Servers \ {p} : pending'[q] = pending[q]
  BY <1>1, <1>2, MemoryShape
<1>8. \A a \in (Range(pending[p]) \cup batch[p].reads) \ L :
          state'[a] \in {"queued", "taken", "inserted", "logged"}
  BY <1>5, <1>6
<1> HIDE DEF L
<1>9. /\ DOMAIN pending' = Servers /\ DOMAIN batch' = Servers
      /\ pending'[p] \in Seq(Reads) /\ Distinct(pending'[p])
      /\ \A q \in Servers \ {p} : pending'[q] = pending[q] /\ batch'[q] = batch[q]
      /\ Range(pending'[p]) \subseteq Range(pending[p])
      /\ batch'[p].reads \subseteq Range(pending[p]) \cup batch[p].reads
  BY <1>1, <1>2, <1>4, <1>7, MemoryShape
<1>10. /\ \A a \in Reads : a \notin Range(pending[p]) \cup batch[p].reads => state'[a] = state[a]
       /\ \A a \in Range(pending'[p]) : state'[a] = "queued"
       /\ \A a \in batch'[p].reads : state'[a] \in {"taken", "inserted"}
  BY <1>4, <1>5, <1>6, <1>7
<1>11. /\ UNCHANGED <<counter, daily>> /\ DOMAIN flush' = Servers
       /\ \A q \in Servers : flush'[q] = flush[q] \/ flush'[q] = NoFlush
  BY <1>1, MemoryShape
<1> QED BY <1>5, <1>7, <1>8, <1>9, <1>10, <1>11, LoggerStep

LEMMA BatchEndsStep ==
    ASSUME AccessInv, NEW p \in Servers, NEW committed \in BOOLEAN, BatchEnds(p, committed)
    PROVE  Fine
<1> DEFINE reads == batch[p].reads
           left == IF batch[p].at \in {"last", "lastinserted"} THEN Range(pending[p]) ELSE {}
           s == IF left = {} THEN pending[p] ELSE <<>>
           L == left \cup (IF committed THEN {} ELSE reads)
<1>1. /\ UNCHANGED <<counter, daily, flush>> /\ batch' = [batch EXCEPT ![p] = NoBatch]
      /\ state' = [a \in Reads |-> IF a \in left THEN "lost"
                                   ELSE IF a \in reads THEN (IF committed THEN "logged" ELSE "lost")
                                   ELSE state[a]]
      /\ pending' = [pending EXCEPT ![p] = s]
  BY DEF BatchEnds
<1>2. /\ pending[p] \in Seq(Reads) /\ Distinct(pending[p])
      /\ Range(pending[p]) \subseteq Reads /\ \A a \in Range(pending[p]) : state[a] = "queued"
      /\ reads \subseteq Reads /\ \A a \in reads : state[a] \in {"taken", "inserted"}
  BY MemoryHeld
<1>3. left = {} \/ left = Range(pending[p])
  OBVIOUS
<1>4. s \in Seq(Reads) /\ Distinct(s) /\ Range(s) \subseteq Range(pending[p]) /\ Range(s) \cap left = {}
  BY <1>2, <1>3, MemoryShape
<1> HIDE DEF left, s, reads
<1>5. Range(pending[p]) \cap reads = {} /\ left \subseteq Range(pending[p])
  BY <1>2, <1>3
<1>6. /\ state' \in [Reads -> Places] /\ \A a \in L : state'[a] = "lost"
      /\ \A a \in (Range(pending[p]) \cup reads) \ L : state'[a] = state[a] \/ state'[a] = "logged"
      /\ \A a \in Reads \ (left \cup reads) : state'[a] = state[a]
  BY <1>1, <1>2, <1>5, MemoryShape DEF Places
<1>7. \A a \in Range(s) : state'[a] = "queued"
  BY <1>2, <1>4, <1>5, <1>6
<1>8. /\ DOMAIN batch' = Servers /\ batch'[p] = NoBatch
      /\ DOMAIN pending' = Servers /\ pending'[p] = s
      /\ \A q \in Servers \ {p} : pending'[q] = pending[q] /\ batch'[q] = batch[q]
  BY <1>1, MemoryShape
<1>9. batch'[p].reads = {} /\ L \subseteq Range(pending[p]) \cup reads
  BY <1>5, <1>8 DEF NoBatch
<1>10. \A a \in (Range(pending[p]) \cup reads) \ L :
           state'[a] \in {"queued", "taken", "inserted", "logged"}
  BY <1>2, <1>6
<1>11. \A a \in Reads : a \notin Range(pending[p]) \cup reads => state'[a] = state[a]
  BY <1>5, <1>6
<1> HIDE DEF L
<1>12. /\ pending'[p] \in Seq(Reads) /\ Distinct(pending'[p])
       /\ Range(pending'[p]) \subseteq Range(pending[p])
       /\ \A a \in Range(pending'[p]) : state'[a] = "queued"
  BY <1>4, <1>7, <1>8
<1>13. DOMAIN flush' = Servers /\ \A q \in Servers : flush'[q] = flush[q]
  BY <1>1, MemoryShape
<1>14. \A a \in L : state'[a] = "lost"
  BY <1>6
<1> USE DEF reads
<1> QED BY <1>1, <1>6, <1>8, <1>9, <1>10, <1>11, <1>12, <1>13, <1>14, LoggerStep

LEMMA CrashStep == ASSUME AccessInv, NEW p \in Servers, ServerCrashes(p) PROVE Fine
<1> DEFINE L == batch[p].reads \cup Range(pending[p])
<1>1. /\ UNCHANGED <<counter, daily>> /\ batch' = [batch EXCEPT ![p] = NoBatch]
      /\ flush' = [flush EXCEPT ![p] = NoFlush] /\ pending' = [pending EXCEPT ![p] = <<>>]
      /\ state' = Become(L, "lost")
  BY DEF ServerCrashes
<1>2. Range(pending[p]) \subseteq Reads /\ batch[p].reads \subseteq Reads
  BY MemoryHeld
<1>3. /\ DOMAIN batch' = Servers /\ batch'[p] = NoBatch /\ DOMAIN pending' = Servers /\ pending'[p] = <<>>
      /\ \A q \in Servers \ {p} : pending'[q] = pending[q] /\ batch'[q] = batch[q]
      /\ DOMAIN flush' = Servers /\ \A q \in Servers : flush'[q] = flush[q] \/ flush'[q] = NoFlush
  BY <1>1, MemoryShape
<1>4. batch'[p].reads = {}
  BY <1>3 DEF NoBatch
<1>5. /\ state' \in [Reads -> Places] /\ \A a \in L : state'[a] = "lost"
      /\ \A a \in Reads \ L : state'[a] = state[a]
  BY <1>1, <1>2, MemoryShape DEF Become, Places
<1>6. \A a \in (Range(pending[p]) \cup batch[p].reads) \ L :
          state'[a] \in {"queued", "taken", "inserted", "logged"}
  OBVIOUS
<1>7. L \subseteq Range(pending[p]) \cup batch[p].reads
  OBVIOUS
<1>8. \A a \in Reads : a \notin Range(pending[p]) \cup batch[p].reads => state'[a] = state[a]
  BY <1>5
<1> HIDE DEF L
<1>9. Range(pending'[p]) = {} /\ pending'[p] \in Seq(Reads) /\ Distinct(pending'[p])
  BY <1>3, MemoryShape
<1> QED BY <1>1, <1>3, <1>4, <1>5, <1>6, <1>7, <1>8, <1>9, LoggerStep

\* A new read joins the queue, or is lost at a full one.
LEMMA LogStep ==
    ASSUME AccessInv, NEW p \in Servers, NEW a \in Reads, LogAccess(p, a) PROVE Fine
<1>1. state[a] = "new" /\ UNCHANGED <<batch, counter, daily, flush>>
  BY DEF LogAccess
<1>2. /\ DOMAIN pending = Servers /\ DOMAIN batch = Servers /\ DOMAIN flush = Servers
      /\ state \in [Reads -> Places]
  BY MemoryShape
<1>3. \A q \in Servers : /\ Range(pending[q]) \subseteq Reads /\ batch[q].reads \subseteq Reads
                         /\ a \notin Range(pending[q]) /\ a \notin batch[q].reads
  BY <1>1, MemoryHeld
<1>4. /\ pending[p] \in Seq(Reads) /\ Distinct(pending[p])
      /\ \A b \in Range(pending[p]) : state[b] = "queued"
      /\ \A b \in batch[p].reads : state[b] \in {"taken", "inserted"}
  BY MemoryHeld
<1>5. ASSUME NEW to \in {"queued", "lost"}, state' = Become({a}, to)
      PROVE  /\ state' \in [Reads -> Places] /\ state'[a] = to
             /\ \A b \in Reads \ {a} : state'[b] = state[b]
  BY <1>2, <1>5 DEF Become, Places
<1>6. ASSUME NEW to \in {"queued", "lost"}, state' = Become({a}, to), MemoryOK' PROVE Fine
  <2>1. TablesOK'
    BY <1>1, <1>5, <1>6 DEF AccessInv, TablesOK
  <2>2. Logged \subseteq Logged'
    BY <1>1, <1>5, <1>6 DEF Logged
  <2>3. FlushOK'
    BY <1>1, <1>2, <2>2, FlushKept DEF AccessInv
  <2>4. Fate(state[a]) = "new" /\ \A b \in Reads \ {a} : Fate(state[b])' = Fate(state[b])
    BY <1>1, <1>5, <1>6 DEF Fate
  <2>5. CASE to = "queued"
    <3>1. Fate(state[a])' = "held"
      BY <1>5, <1>6, <2>5 DEF Fate
    <3>2. Promise!Next
      BY <1>1, <2>4, <3>1, PromiseHolds
    <3> QED BY <1>6, <2>1, <2>3, <3>2 DEF Fine, AccessInv
  <2>6. CASE to = "lost"
    <3>1. Fate(state[a])' = "lost"
      BY <1>5, <1>6, <2>6 DEF Fate
    <3> DEFINE S == {a}
    <3>2. /\ S \in SUBSET Reads
          /\ \A b \in S : Fate(state[b]) \in {"new", "held"} /\ Fate(state[b])' = "lost"
          /\ \A b \in Reads \ S : Fate(state[b])' = Fate(state[b])
      BY <2>4, <3>1
    <3> HIDE DEF S
    <3>3. Promise!Next
      BY <1>1, <3>2, PromiseLoses
    <3> QED BY <1>6, <2>1, <2>3, <3>3 DEF Fine, AccessInv
  <2> QED BY <2>5, <2>6
<1>7. CASE HasRoom(p)
  <2> DEFINE s == Append(pending[p], a)
  <2>1. state' = Become({a}, "queued") /\ pending' = [pending EXCEPT ![p] = s]
    BY <1>7 DEF LogAccess
  <2>2. s \in Seq(Reads) /\ Distinct(s) /\ Range(s) = Range(pending[p]) \cup {a}
    BY <1>3, <1>4, QueueAppended
  <2> HIDE DEF s
  <2>3. /\ DOMAIN pending' = Servers /\ pending'[p] = s
        /\ \A q \in Servers \ {p} : pending'[q] = pending[q]
    BY <1>2, <2>1
  <2>4. /\ \A b \in Range(s) : state'[b] = "queued" /\ (b \in Range(pending[p]) \/ state[b] = "new")
        /\ \A b \in batch[p].reads : state'[b] \in {"taken", "inserted"}
        /\ \A q \in Servers \ {p} : \A b \in Range(pending[q]) \cup batch[q].reads :
              state'[b] = state[b]
    BY <1>1, <1>3, <1>4, <1>5, <2>1, <2>2
  <2> DEFINE h == batch[p].reads
  <2>5. /\ h \subseteq Reads /\ h \subseteq Range(pending[p]) \cup batch[p].reads
        /\ batch'[p].reads = h /\ DOMAIN batch' = Servers
        /\ \A q \in Servers \ {p} : batch'[q] = batch[q]
    BY <1>1, <1>2, <1>3
  <2>6. \A b \in h : state'[b] \in {"taken", "inserted"}
    BY <2>4
  <2> HIDE DEF h
  <2>7. MemoryOK'
    BY <2>2, <2>3, <2>4, <2>5, <2>6, MemoryStep DEF AccessInv
  <2> QED BY <1>6, <2>1, <2>7
<1>8. CASE ~HasRoom(p)
  <2>1. state' = Become({a}, "lost") /\ pending' = pending
    BY <1>8 DEF LogAccess
  <2>2. \A q \in Servers : \A b \in Range(pending[q]) \cup batch[q].reads : state'[b] = state[b]
    BY <1>3, <1>5, <2>1
  <2>3. MemoryOK'
    BY <1>1, <2>1, <2>2 DEF AccessInv, MemoryOK
  <2> QED BY <1>6, <2>1, <2>3
<1> QED BY <1>7, <1>8

\* Steps that leave the reads and the counters alone.
LEMMA QuietStep ==
    ASSUME AccessInv, UNCHANGED <<state, pending, batch, counter, daily>>, FlushOK'
    PROVE  Fine
<1>1. TablesOK' /\ MemoryOK'
  BY DEF AccessInv, TablesOK, MemoryOK
<1>2. UNCHANGED Promise!vars
  BY PromiseStutters
<1> QED BY <1>1, <1>2 DEF Fine, AccessInv

LEMMA FlusherStep ==
    ASSUME AccessInv, NEW p \in Servers,
           \/ FlushLocks(p) \/ FlushBounds(p) \/ FlushDrains(p) \/ FlushReads(p) \/ FlushFails(p)
    PROVE  Fine
<1>1. UNCHANGED <<state, pending, batch, counter, daily>>
  BY DEF FlushLocks, FlushBounds, FlushDrains, FlushReads, FlushFails
<1>2. FlushOK
  BY DEF AccessInv
<1>3. NoFlush.at = "idle" /\ NoFlush.drained = {}
  BY DEF NoFlush, FlushAt
<1>4. \A at, max, drained, read :
          LET f == FlushAt(at, max, drained, read) IN
          f.at = at /\ f.drained = drained /\ f.read = read
  BY DEF FlushAt
<1>5. flush[p].at # "idle" => \A q \in Servers \ {p} : flush[q].at = "idle"
  BY <1>2 DEF FlushOK
<1>6. ASSUME flush' = [flush EXCEPT ![p] = NoFlush] PROVE FlushOK'
  BY <1>1, <1>2, <1>3, <1>6, FlushMoves
<1>7. CASE FlushLocks(p)
  <2> DEFINE f == FlushAt("locked", 0, {}, <<>>)
  <2>1. flush' = [flush EXCEPT ![p] = f] /\ \A q \in Servers : flush[q].at = "idle"
    BY <1>7 DEF FlushLocks, FlushLockFree
  <2>2. f.at = "locked" /\ f.drained = {}
    BY <1>4
  <2> HIDE DEF f
  <2>3. FlushOK'
    BY <1>1, <1>2, <2>1, <2>2, FlushMoves
  <2> QED BY <1>1, <2>3, QuietStep
<1>8. CASE FlushBounds(p)
  <2> DEFINE f == FlushAt("bounded", Max({id[a] : a \in Logged}), {}, <<>>)
  <2>1. /\ flush[p].at = "locked"
        /\ flush' = [flush EXCEPT ![p] = NoFlush] \/ flush' = [flush EXCEPT ![p] = f]
    BY <1>8 DEF FlushBounds
  <2>2. f.at = "bounded" /\ f.drained = {}
    BY <1>4
  <2> HIDE DEF f
  <2>3. FlushOK'
    BY <1>1, <1>2, <1>5, <1>6, <2>1, <2>2, FlushMoves
  <2> QED BY <1>1, <2>3, QuietStep
<1>9. CASE FlushDrains(p)
  <2> DEFINE f == FlushAt("drained", flush[p].max, Below(p), <<>>)
  <2>1. /\ flush[p].at = "bounded"
        /\ flush' = [flush EXCEPT ![p] = NoFlush] \/ flush' = [flush EXCEPT ![p] = f]
    BY <1>9 DEF FlushDrains
  <2>2. f.at = "drained" /\ f.drained = Below(p) /\ Below(p) \subseteq Logged
    BY <1>4 DEF Below
  <2> HIDE DEF f
  <2>3. FlushOK'
    BY <1>1, <1>2, <1>5, <1>6, <2>1, <2>2, FlushMoves
  <2> QED BY <1>1, <2>3, QuietStep
<1>10. CASE FlushReads(p)
  <2> DEFINE read == [e \in TouchedBy(p) \cap EntityRows |->
                         [count |-> counter[e], status |-> freshness[e]]]
             f == FlushAt("read", flush[p].max, flush[p].drained, read)
  <2>1. flush[p].at = "drained" /\ flush' = [flush EXCEPT ![p] = f]
    BY <1>10 DEF FlushReads
  <2>2. f.at = "read" /\ f.drained = flush[p].drained /\ f.read = read
    BY <1>4
  <2>3. DOMAIN read = TouchedBy(p) \cap EntityRows /\ \A e \in DOMAIN read : read[e].count = counter[e]
    OBVIOUS
  <2>4. flush[p].drained \subseteq Logged
    BY <1>2 DEF FlushOK
  <2> HIDE DEF f, read
  <2>5. FlushOK'
    BY <1>1, <1>2, <1>5, <2>1, <2>2, <2>3, <2>4, FlushMoves DEF TouchedBy
  <2> QED BY <1>1, <2>5, QuietStep
<1>11. CASE FlushFails(p)
  BY <1>1, <1>6, <1>11, QuietStep DEF FlushFails
<1> QED BY <1>7, <1>8, <1>9, <1>10, <1>11

\* A commit counts what the flush drained: every drained read was logged, and
\* the counters read before are still the ones in the table.
LEMMA CommitStep == ASSUME AccessInv, NEW p \in Servers, FlushCommits(p) PROVE Fine
<1> DEFINE D == flush[p].drained
           read == flush[p].read
<1>1. /\ flush[p].at = "read" /\ UNCHANGED <<pending, batch>>
      /\ daily' = [e \in Entities |-> daily[e] + Of(e, D)]
      /\ state' = Become(D, "counted") /\ flush' = [flush EXCEPT ![p] = NoFlush]
      /\ counter' = [e \in EntityRows |-> IF e \in DOMAIN read THEN read[e].count + Of(e, D)
                                          ELSE counter[e]]
  BY DEF FlushCommits, Deleted
<1>2. /\ D \subseteq Logged /\ D \subseteq Reads
      /\ DOMAIN read = {EntityOf[a] : a \in D} \cap EntityRows
      /\ \A e \in DOMAIN read : read[e].count = counter[e]
  BY <1>1 DEF AccessInv, FlushOK, Logged, TouchedBy
<1>3. /\ state \in [Reads -> Places] /\ counter \in [EntityRows -> Nat] /\ daily \in [Entities -> Nat]
      /\ DOMAIN flush = Servers
  BY DEF AccessInv, TablesOK, FlushOK
<1>4. \A e : Of(e, D) \in Nat
  <2> SUFFICES ASSUME NEW e PROVE Of(e, D) \in Nat
    OBVIOUS
  <2> DEFINE T == {a \in D : EntityOf[a] = e}
  <2>1. T \in SUBSET Reads
    BY <1>2
  <2>2. IsFiniteSet(T)
    BY <2>1, FS_Subset, AccessAssumption
  <2>3. Cardinality(T) \in Nat
    BY <2>2, FS_CardinalityType
  <2> QED BY <2>3 DEF Of
<1>5. \A e : e \notin {EntityOf[a] : a \in D} => Of(e, D) = 0
  <2> SUFFICES ASSUME NEW e, e \notin {EntityOf[a] : a \in D} PROVE Of(e, D) = 0
    OBVIOUS
  <2>1. {a \in D : EntityOf[a] = e} = {}
    OBVIOUS
  <2> QED BY <2>1, FS_EmptySet DEF Of
<1> HIDE DEF D, read
<1>6. counter' = [e \in EntityRows |-> counter[e] + Of(e, D)]
  <2> DEFINE new(e) == IF e \in DOMAIN read THEN read[e].count + Of(e, D) ELSE counter[e]
  <2>1. ASSUME NEW e \in EntityRows PROVE new(e) = counter[e] + Of(e, D)
    <3>1. CASE e \in DOMAIN read
      BY <1>2, <3>1
    <3>2. CASE e \notin DOMAIN read
      <4>1. Of(e, D) = 0
        BY <1>2, <1>5, <3>2
      <4> QED BY <1>3, <3>2, <4>1
    <3> QED BY <3>1, <3>2
  <2>2. counter' = [e \in EntityRows |-> new(e)]
    BY <1>1
  <2> HIDE DEF new
  <2> QED BY <2>1, <2>2
<1>7. /\ state' \in [Reads -> Places] /\ \A a \in D : state[a] = "logged" /\ state'[a] = "counted"
      /\ \A a \in Reads \ D : state'[a] = state[a]
  BY <1>1, <1>2, <1>3 DEF Become, Places, Logged
<1>8. TablesOK'
  <2>1. counter' \in [EntityRows -> Nat] /\ daily' \in [Entities -> Nat]
    BY <1>1, <1>3, <1>4, <1>6
  <2> QED BY <1>7, <2>1 DEF TablesOK
<1>9. MemoryOK'
  <2>1. \A q \in Servers : \A a \in Range(pending[q]) \cup batch[q].reads :
            a \in Reads /\ state[a] # "logged"
    BY MemoryHeld
  <2>2. \A q \in Servers : \A a \in Range(pending[q]) \cup batch[q].reads : state'[a] = state[a]
    BY <1>7, <2>1
  <2> QED BY <1>1, <2>2 DEF AccessInv, MemoryOK
<1>10. FlushOK'
  <2>1. NoFlush.at = "idle" /\ NoFlush.drained = {}
    BY DEF NoFlush, FlushAt
  <2>2. DOMAIN flush' = Servers /\ flush'[p] = NoFlush /\ \A q \in Servers \ {p} : flush'[q] = flush[q]
    BY <1>1, <1>3
  <2>3. ASSUME NEW q \in Servers PROVE flush'[q].at = "idle" /\ flush'[q].drained = {}
    <3>1. CASE q = p
      BY <2>1, <2>2, <3>1
    <3>2. CASE q # p
      BY <1>1, <2>2, <3>2 DEF AccessInv, FlushOK
    <3> QED BY <3>1, <3>2
  <2> QED BY <2>2, <2>3 DEF FlushOK
<1>11. Promise!Next
  <2>1. /\ \A a \in D : Fate(state[a]) = "held" /\ Fate(state[a])' = "counted"
        /\ \A a \in Reads \ D : Fate(state[a])' = Fate(state[a])
    BY <1>7 DEF Fate
  <2>2. DOMAIN daily = Entities /\ D \in SUBSET Reads
    BY <1>2, <1>3
  <2>3. daily' = [e \in Entities |-> daily[e] + Of(e, D)]
    BY <1>1
  <2> QED BY <1>6, <2>1, <2>2, <2>3, PromiseCounts
<1> QED BY <1>8, <1>9, <1>10, <1>11 DEF Fine, AccessInv

LEMMA AccessStarts == ASSUME AccessInit PROVE AccessInv /\ Promise!Init
<1>1. TablesOK
  BY DEF AccessInit, TablesOK, Places
<1>2. NoBatch.reads = {} /\ NoFlush.at = "idle" /\ NoFlush.drained = {}
  BY DEF NoBatch, NoFlush, FlushAt
<1>3. <<>> \in Seq(Reads) /\ Distinct(<<>>) /\ Range(<<>>) = {}
  BY DEF Distinct, Range
<1>4. MemoryOK
  BY <1>2, <1>3 DEF AccessInit, MemoryOK
<1>5. FlushOK
  BY <1>2 DEF AccessInit, FlushOK
<1>6. Promise!Init
  BY DEF AccessInit, Promise!Init, Fate
<1> QED BY <1>1, <1>4, <1>5, <1>6 DEF AccessInv

\* One step per action.
LEMMA AccessStep == ASSUME AccessInv, [AccessNext]_accessVars PROVE Fine
<1>1. CASE UNCHANGED accessVars
  <2>1. UNCHANGED <<state, pending, batch, counter, daily, flush>>
    BY <1>1 DEF accessVars
  <2>2. Logged \subseteq Logged' /\ DOMAIN flush' = Servers
    BY <2>1, MemoryShape DEF Logged
  <2>3. FlushOK'
    BY <2>1, <2>2, FlushKept DEF AccessInv
  <2> QED BY <2>1, <2>3, QuietStep
<1>2. ASSUME NEW p \in Servers, FlushBatch(p) \/ InsertRuns(p) \/ Stop(p) \/ ServerCrashes(p) PROVE Fine
  BY <1>2, FlushBatchStep, InsertStep, StopStep, CrashStep
<1>3. ASSUME NEW p \in Servers,
             \/ FlushLocks(p) \/ FlushBounds(p) \/ FlushDrains(p) \/ FlushReads(p) \/ FlushFails(p)
      PROVE  Fine
  BY <1>3, FlusherStep
<1>4. ASSUME NEW p \in Servers, FlushCommits(p) PROVE Fine
  BY <1>4, CommitStep
<1>5. ASSUME NEW p \in Servers, NEW a \in Reads, LogAccess(p, a) PROVE Fine
  BY <1>5, LogStep
<1>6. ASSUME NEW p \in Servers, NEW committed \in BOOLEAN, BatchEnds(p, committed) PROVE Fine
  BY <1>6, BatchEndsStep
<1>7. ASSUME NEW e \in EntityRows, NEW s \in FreshnessStatuses, Edit(e, s) PROVE Fine
  <2>1. UNCHANGED <<state, pending, batch, counter, daily, flush>>
    BY <1>7 DEF Edit
  <2>2. Logged \subseteq Logged' /\ DOMAIN flush' = Servers
    BY <2>1, MemoryShape DEF Logged
  <2>3. FlushOK'
    BY <2>1, <2>2, FlushKept DEF AccessInv
  <2> QED BY <2>1, <2>3, QuietStep
<1> QED BY <1>1, <1>2, <1>3, <1>4, <1>5, <1>6, <1>7 DEF AccessNext
-----------------------------------------------------------------------------
(* The theorem.                                                            *)

\* Every read is counted at most once, on its entity and in the journal at the
\* same moment, or lost: however many servers queue, insert, stop and crash,
\* and whichever of them flushes (AccessLogger, aggregate_in_session,
\* _update_entities_batch).
THEOREM CountOnceTheorem == AccessSpec => CountsEachReadOnce
<1>1. AccessInit => AccessInv /\ Promise!Init
  BY AccessStarts
<1>2. AccessInv /\ [AccessNext]_accessVars => AccessInv' /\ [Promise!Next]_(Promise!vars)
  BY AccessStep DEF Fine
<1> QED BY <1>1, <1>2, PTL DEF AccessSpec, CountsEachReadOnce, Promise!Spec
-----------------------------------------------------------------------------
(* The counters are exact.                                                 *)

Counted(e) == {a \in Reads : state[a] = "counted" /\ EntityOf[a] = e}

Exact ==
    /\ \A e \in EntityRows : counter[e] = Cardinality(Counted(e))
    /\ \A e \in Entities : daily[e] = Cardinality(Counted(e))

LEMMA DisjointCount ==
    ASSUME NEW A \in SUBSET Reads, NEW B \in SUBSET Reads, A \cap B = {}
    PROVE  Cardinality(A \cup B) = Cardinality(A) + Cardinality(B)
<1>1. IsFiniteSet(A) /\ IsFiniteSet(B)
  BY AccessAssumption, FS_Subset
<1>2. Cardinality(A) \in Nat /\ Cardinality(B) \in Nat
  BY <1>1, FS_CardinalityType
<1>3. Cardinality(A \cap B) = 0
  BY FS_EmptySet
<1>4. Cardinality(A \cup B) = Cardinality(A) + Cardinality(B) - Cardinality(A \cap B)
  BY <1>1, FS_Union
<1> QED BY <1>2, <1>3, <1>4

\* What CountOnce allows keeps the counters exact.
LEMMA ExactStep ==
    ASSUME AccessInv, AccessInv', Exact, [Promise!Next]_(Promise!vars)
    PROVE  Exact'
<1>1. /\ \A a \in Reads : Fate(state[a]) = "counted" <=> state[a] = "counted"
      /\ \A a \in Reads : Fate(state'[a]) = "counted" <=> state'[a] = "counted"
      /\ DOMAIN daily = Entities /\ EntityRows \subseteq Entities
  BY AccessAssumption DEF AccessInv, TablesOK, Places, Fate
<1>2. ASSUME UNCHANGED <<counter, daily>>,
             \A a \in Reads : Fate(state'[a]) = "counted" <=> Fate(state[a]) = "counted"
      PROVE  Exact'
  <2>1. \A e : Counted(e)' = Counted(e)
    BY <1>1, <1>2 DEF Counted
  <2> QED BY <1>2, <2>1 DEF Exact
<1>3. CASE UNCHANGED Promise!vars
  <2>1. UNCHANGED <<counter, daily>> /\ \A a \in Reads : Fate(state'[a]) = Fate(state[a])
    BY <1>3 DEF Promise!vars
  <2> QED BY <1>2, <2>1
<1>4. ASSUME NEW a \in Reads, Promise!Hold(a) PROVE Exact'
  <2>1. /\ UNCHANGED <<counter, daily>> /\ Fate(state[a]) = "new"
        /\ \A b \in Reads : Fate(state'[b]) = IF b = a THEN "held" ELSE Fate(state[b])
    BY <1>4 DEF Promise!Hold, Promise!Become
  <2> QED BY <1>2, <2>1
<1>5. ASSUME NEW S \in SUBSET Reads, Promise!Lose(S) PROVE Exact'
  <2>1. /\ UNCHANGED <<counter, daily>> /\ \A a \in S : Fate(state[a]) \in {"new", "held"}
        /\ \A a \in Reads : Fate(state'[a]) = IF a \in S THEN "lost" ELSE Fate(state[a])
    BY <1>5 DEF Promise!Lose, Promise!Become, Promise!In
  <2> QED BY <1>2, <2>1
<1>6. ASSUME NEW S \in SUBSET Reads, Promise!Count(S) PROVE Exact'
  <2>0. \A e : Promise!Of(e, S) = Of(e, S)
    BY SameCount
  <2>1. /\ \A a \in S : Fate(state[a]) = "held"
        /\ \A a \in Reads : Fate(state'[a]) = IF a \in S THEN "counted" ELSE Fate(state[a])
    BY <1>6 DEF Promise!Count, Promise!Become, Promise!In
  <2>3. /\ counter' = [e \in EntityRows |-> counter[e] + Promise!Of(e, S)]
        /\ daily' = [e \in DOMAIN daily |-> daily[e] + Promise!Of(e, S)]
    BY <1>6 DEF Promise!Count
  <2>4. /\ \A e \in EntityRows : counter'[e] = counter[e] + Of(e, S)
        /\ \A e \in Entities : daily'[e] = daily[e] + Of(e, S)
    BY <1>1, <2>0, <2>3
  <2>2. ASSUME NEW e \in Entities
        PROVE  Cardinality(Counted(e)') = Cardinality(Counted(e)) + Of(e, S)
    <3> DEFINE T == {a \in S : EntityOf[a] = e}
    <3>1. /\ Counted(e)' = Counted(e) \cup T /\ Counted(e) \cap T = {}
          /\ Counted(e) \in SUBSET Reads /\ T \in SUBSET Reads
      BY <1>1, <2>1 DEF Counted
    <3> QED BY <3>1, DisjointCount DEF Of
  <2> QED BY <1>1, <2>2, <2>4 DEF Exact
<1> QED BY <1>3, <1>4, <1>5, <1>6 DEF Promise!Next

\* After any number of flushes, failures and crashes a counter and its journal
\* are the number of reads counted on the entity, no more and no less
\* (_update_entities_batch).
THEOREM ExactTheorem == AccessSpec => []Exact
<1>1. AccessInit => AccessInv /\ Exact
  <2> SUFFICES ASSUME AccessInit PROVE Exact
    BY AccessStarts
  <2>1. \A e : Counted(e) = {}
    BY DEF AccessInit, Counted
  <2> QED BY <2>1, FS_EmptySet, AccessAssumption DEF Exact, AccessInit
<1>2. AccessInv /\ Exact /\ [AccessNext]_accessVars => AccessInv' /\ Exact'
  BY AccessStep, ExactStep DEF Fine
<1> QED BY <1>1, <1>2, PTL DEF AccessSpec
-----------------------------------------------------------------------------
(* The type invariant.                                                     *)

\* Queues stay within their size; batches and flushes are where they can be.
ShapesInv ==
    \A p \in Servers :
        /\ Len(pending[p]) <= QueueSize
        /\ batch[p].at \in {"idle", "taken", "inserted", "last", "lastinserted"}
        /\ batch[p].at \in {"taken", "last"} => \A a \in batch[p].reads : state[a] = "taken"
        /\ flush[p].at \in {"idle", "locked", "bounded", "drained", "read"}

Ided == {a \in Reads : id[a] # 0}

\* No id exceeds the number of ids given; who waits for the insert has none.
IdsInv ==
    /\ id \in [Reads -> Nat]
    /\ \A a \in Reads : id[a] <= Cardinality(Ided)
    /\ \A a \in Ided : state[a] \notin {"new", "queued", "taken"}

StatusInv == freshness \in [EntityRows -> FreshnessStatuses] /\ edits \in 0 .. MaxEdits

\* A set of numbers that is not empty has a least one.
LEMMA LeastOf ==
    ASSUME NEW S, S \subseteq Nat, S # {}
    PROVE  \E c \in S : \A d \in S : c <= d
<1>1. PICK c \in S : \A d \in S : ~(<<d, c>> \in OpToRel(<, Nat))
  BY WFMin, NatLessThanWellFounded
<1>2. \A d \in S : ~(d < c)
  BY <1>1 DEF OpToRel
<1> QED BY <1>2

\* A bounded set of numbers has a greatest one.
LEMMA MaxOf ==
    ASSUME NEW S, S \subseteq Nat, S # {}, NEW n \in Nat, \A x \in S : x <= n
    PROVE  Max(S) \in S /\ \A y \in S : y <= Max(S)
<1> DEFINE T == {m \in Nat : \E x \in S : m = n - x}
<1>1. T \subseteq Nat
  OBVIOUS
<1>2. T # {}
  <2>1. PICK x \in S : TRUE
    OBVIOUS
  <2>2. n - x \in Nat
    OBVIOUS
  <2> QED BY <2>2
<1>3. PICK t \in T : \A d \in T : t <= d
  <2> HIDE DEF T
  <2> QED BY <1>1, <1>2, LeastOf
<1>4. PICK x \in S : t = n - x
  BY <1>3
<1>5. ASSUME NEW y \in S PROVE x >= y
  <2>1. n - y \in Nat
    OBVIOUS
  <2>2. t <= n - y
    BY <1>3, <2>1
  <2> QED BY <1>4, <2>2
<1>6. \E z \in S : \A y \in S : z >= y
  BY <1>5
<1>7. Max(S) \in S /\ \A y \in S : Max(S) >= y
  BY <1>6 DEF Max
<1> QED BY <1>7

LEMMA IdsCounted ==
    ASSUME IdsInv
    PROVE  Ided \in SUBSET Reads /\ IsFiniteSet(Ided) /\ Cardinality(Ided) \in Nat
               /\ Cardinality(Ided) <= Cardinality(Reads) /\ Cardinality(Reads) \in Nat
<1>1. Ided \in SUBSET Reads
  BY DEF Ided
<1>2. IsFiniteSet(Ided) /\ Cardinality(Ided) <= Cardinality(Reads)
  BY <1>1, AccessAssumption, FS_Subset
<1> QED BY <1>1, <1>2, AccessAssumption, FS_CardinalityType

\* Where ids stay and no read goes back, so does their invariant.
LEMMA IdsKept ==
    ASSUME IdsInv, UNCHANGED id,
           \A a \in Reads : state'[a] \in {"new", "queued", "taken"} => state[a] \in {"new", "queued", "taken"}
    PROVE  IdsInv'
<1>1. Ided' = Ided
  BY DEF Ided
<1> QED BY <1>1 DEF IdsInv, Ided

\* The ids of an inserted batch follow the last one.
LEMMA IdsInserted ==
    ASSUME AccessInv, IdsInv, ShapesInv, NEW p \in Servers, InsertRuns(p)
    PROVE  IdsInv'
<1> DEFINE R == batch[p].reads
<1>1. /\ R # {} /\ state' = Become(R, "inserted") /\ batch[p].at \in {"taken", "last"}
  BY DEF InsertRuns
<1>2. PICK order \in [R -> 1 .. Cardinality(R)] :
          id' = [a \in Reads |-> IF a \in R THEN LastId + order[a] ELSE id[a]]
  BY DEF InsertRuns
<1>3. R \in SUBSET Reads /\ \A a \in R : state[a] = "taken"
  BY <1>1, MemoryHeld DEF ShapesInv
<1>4. \A a \in R : id[a] = 0
  BY <1>3 DEF IdsInv, Ided
<1>5. IsFiniteSet(R) /\ Cardinality(R) \in Nat
  BY <1>3, AccessAssumption, FS_Subset, FS_CardinalityType
<1> HIDE DEF R
<1>6. LastId \in Nat /\ LastId <= Cardinality(Ided)
  <2> DEFINE S == {id[a] : a \in Reads}
  <2>1. S \subseteq Nat /\ \A x \in S : x <= Cardinality(Ided)
    BY DEF IdsInv
  <2>2. S # {}
    BY <1>1, <1>3
  <2>3. Max(S) \in S
    BY <2>1, <2>2, IdsCounted, MaxOf
  <2> QED BY <2>1, <2>3 DEF LastId
<1>7. \A a \in R : order[a] \in 1 .. Cardinality(R)
  BY <1>2
<1>8. Ided' = Ided \cup R
  BY <1>2, <1>3, <1>6, <1>7 DEF Ided
<1>9. Cardinality(Ided') = Cardinality(Ided) + Cardinality(R)
  <2>1. Ided \cap R = {}
    BY <1>4 DEF Ided
  <2> QED BY <1>3, <1>8, <2>1, IdsCounted, DisjointCount
<1>10. \A a \in Reads : id'[a] \in Nat /\ id'[a] <= Cardinality(Ided) + Cardinality(R)
  <2>1. Cardinality(Ided) \in Nat
    BY IdsCounted
  <2>2. \A a \in Reads : id[a] \in Nat /\ id[a] <= Cardinality(Ided)
    BY DEF IdsInv
  <2> QED BY <1>2, <1>5, <1>6, <1>7, <2>1, <2>2
<1>11. id' \in [Reads -> Nat]
  BY <1>2, <1>10
<1>12. \A a \in Ided' : state'[a] \notin {"new", "queued", "taken"}
  BY <1>1, <1>3, <1>8, IdsCounted DEF IdsInv, Become
<1> QED BY <1>9, <1>10, <1>11, <1>12 DEF IdsInv

\* One server moves, and takes no read out of another's batch.
LEMMA ShapesMove ==
    ASSUME AccessInv, ShapesInv, NEW p \in Servers,
           \A q \in Servers \ {p} : pending'[q] = pending[q] /\ batch'[q] = batch[q] /\ flush'[q] = flush[q],
           Len(pending'[p]) <= QueueSize,
           batch'[p].at \in {"idle", "taken", "inserted", "last", "lastinserted"},
           batch'[p].at \in {"taken", "last"} => \A a \in batch'[p].reads : state'[a] = "taken",
           flush'[p].at \in {"idle", "locked", "bounded", "drained", "read"},
           \A a \in Reads \ batch[p].reads : state[a] = "taken" => state'[a] = "taken"
    PROVE  ShapesInv'
<1>1. ASSUME NEW q \in Servers, q # p, batch[q].at \in {"taken", "last"}, NEW a \in batch[q].reads
      PROVE  state'[a] = "taken"
  <2>1. a \in Reads /\ a \notin batch[p].reads /\ state[a] = "taken"
    BY <1>1, MemoryHeld DEF ShapesInv
  <2> QED BY <2>1
<1> QED BY <1>1 DEF ShapesInv

\* Taking a batch shortens the queue.
LEMMA TakeShapes ==
    ASSUME AccessInv, ShapesInv, NEW p \in Servers, NEW at, TakeInto(p, at)
    PROVE  Len(pending'[p]) <= QueueSize /\ batch'[p].at = at
<1>1. /\ pending[p] \in Seq(Reads) /\ p \in DOMAIN pending /\ p \in DOMAIN batch
      /\ Len(pending[p]) <= QueueSize /\ QueueSize \in Nat /\ BatchSize \in Nat
  BY MemoryHeld, MemoryShape, AccessAssumption DEF ShapesInv
<1> DEFINE s == pending[p]
           n == Taken(p)
<1>2. s \in Seq(Reads) /\ Len(s) \in Nat /\ n \in Nat /\ n <= Len(s)
  BY <1>1 DEF Taken
<1>3. pending'[p] = SubSeq(s, n + 1, Len(s)) /\ batch'[p].at = at
  BY <1>1 DEF TakeInto
<1> HIDE DEF s, n
<1>4. Len(SubSeq(s, n + 1, Len(s))) = IF n + 1 <= Len(s) THEN Len(s) - (n + 1) + 1 ELSE 0
  BY <1>2, SubSeqProperties
<1> QED BY <1>1, <1>2, <1>3, <1>4 DEF s

TypeInv == ShapesInv /\ IdsInv /\ StatusInv

LEMMA TypesStart == ASSUME AccessInit PROVE TypeInv
<1>1. ShapesInv
  BY AccessAssumption DEF AccessInit, ShapesInv, NoBatch, NoFlush, FlushAt
<1>2. IdsInv
  <2>1. id \in [Reads -> Nat] /\ Ided = {}
    BY DEF AccessInit, Ided
  <2> QED BY <2>1, FS_EmptySet DEF AccessInit, IdsInv
<1>3. StatusInv
  BY AccessAssumption DEF AccessInit, StatusInv, FreshnessStatuses
<1> QED BY <1>1, <1>2, <1>3 DEF TypeInv

LEMMA LoggerTypes ==
    ASSUME AccessInv, TypeInv, NEW p \in Servers,
           \/ FlushBatch(p) \/ InsertRuns(p) \/ Stop(p) \/ ServerCrashes(p)
           \/ \E committed \in BOOLEAN : BatchEnds(p, committed)
    PROVE  TypeInv'
<1> USE DEF TypeInv
<1>0. /\ p \in DOMAIN pending /\ p \in DOMAIN batch /\ p \in DOMAIN flush
      /\ \A a \in Range(pending[p]) : a \in Reads /\ state[a] = "queued"
      /\ \A a \in batch[p].reads : a \in Reads /\ state[a] \in {"taken", "inserted"}
      /\ Len(pending[p]) <= QueueSize /\ Len(<<>>) <= QueueSize
      /\ flush[p].at \in {"idle", "locked", "bounded", "drained", "read"}
  BY MemoryHeld, MemoryShape, AccessAssumption DEF ShapesInv
<1>1. StatusInv'
  BY DEF StatusInv, FlushBatch, InsertRuns, Stop, ServerCrashes, BatchEnds
<1>2. CASE FlushBatch(p)
  <2>1. /\ TakeInto(p, "taken") /\ state' = Become(batch'[p].reads, "taken") /\ UNCHANGED <<id, flush>>
    BY <1>2 DEF FlushBatch
  <2>2. /\ batch'[p].reads \subseteq Range(pending[p])
        /\ \A q \in Servers \ {p} : pending'[q] = pending[q] /\ batch'[q] = batch[q]
    BY <2>1, TakeFacts
  <2>3. Len(pending'[p]) <= QueueSize /\ batch'[p].at = "taken"
    BY <2>1, TakeShapes
  <2>4. \A a \in Reads : state'[a] = IF a \in batch'[p].reads THEN "taken" ELSE state[a]
    BY <2>1 DEF Become
  <2>5. ShapesInv'
    BY <1>0, <2>1, <2>2, <2>3, <2>4, ShapesMove
  <2>6. IdsInv'
    BY <1>0, <2>1, <2>2, <2>4, IdsKept
  <2> QED BY <1>1, <2>5, <2>6
<1>3. CASE Stop(p)
  <2>1. /\ TakeInto(p, "last") /\ UNCHANGED <<id, flush>>
        /\ \A a \in Reads : state'[a] = IF a \in batch[p].reads THEN "lost"
                                        ELSE IF a \in batch'[p].reads THEN "taken" ELSE state[a]
    BY <1>3 DEF Stop
  <2>2. /\ batch'[p].reads \subseteq Range(pending[p])
        /\ \A q \in Servers \ {p} : pending'[q] = pending[q] /\ batch'[q] = batch[q]
    BY <2>1, TakeFacts
  <2>3. Len(pending'[p]) <= QueueSize /\ batch'[p].at = "last"
    BY <2>1, TakeShapes
  <2>4. \A a \in batch'[p].reads : state'[a] = "taken"
    BY <1>0, <2>1, <2>2
  <2>5. ShapesInv'
    BY <1>0, <2>1, <2>2, <2>3, <2>4, ShapesMove
  <2>6. IdsInv'
    BY <1>0, <2>1, <2>2, IdsKept
  <2> QED BY <1>1, <2>5, <2>6
<1>4. CASE InsertRuns(p)
  <2>1. /\ state' = Become(batch[p].reads, "inserted") /\ UNCHANGED <<pending, flush>>
        /\ batch' = [batch EXCEPT ![p] =
              [at |-> IF @.at = "last" THEN "lastinserted" ELSE "inserted", reads |-> @.reads]]
    BY <1>4 DEF InsertRuns
  <2>2. /\ batch'[p].at \in {"inserted", "lastinserted"}
        /\ \A q \in Servers \ {p} : batch'[q] = batch[q]
    BY <1>0, <2>1, MemoryShape
  <2>3. \A a \in Reads \ batch[p].reads : state'[a] = state[a]
    BY <2>1 DEF Become
  <2>4. ShapesInv'
    BY <1>0, <2>1, <2>2, <2>3, ShapesMove
  <2>5. IdsInv'
    BY <1>4, IdsInserted
  <2> QED BY <1>1, <2>4, <2>5
<1>5. CASE ServerCrashes(p)
  <2>1. /\ state' = Become(batch[p].reads \cup Range(pending[p]), "lost") /\ UNCHANGED id
        /\ pending' = [pending EXCEPT ![p] = <<>>] /\ batch' = [batch EXCEPT ![p] = NoBatch]
        /\ flush' = [flush EXCEPT ![p] = NoFlush]
    BY <1>5 DEF ServerCrashes
  <2>2. /\ pending'[p] = <<>> /\ batch'[p].at = "idle" /\ flush'[p].at = "idle"
        /\ \A q \in Servers \ {p} : pending'[q] = pending[q] /\ batch'[q] = batch[q] /\ flush'[q] = flush[q]
    BY <1>0, <2>1, MemoryShape DEF NoBatch, NoFlush, FlushAt
  <2>3. \A a \in Reads : state'[a] = IF a \in batch[p].reads \cup Range(pending[p]) THEN "lost" ELSE state[a]
    BY <2>1 DEF Become
  <2>4. ShapesInv'
    BY <1>0, <2>2, <2>3, ShapesMove
  <2>5. IdsInv'
    BY <2>1, <2>3, IdsKept
  <2> QED BY <1>1, <2>4, <2>5
<1>6. ASSUME NEW committed \in BOOLEAN, BatchEnds(p, committed) PROVE TypeInv'
  <2> DEFINE left == IF batch[p].at \in {"last", "lastinserted"} THEN Range(pending[p]) ELSE {}
  <2>1. /\ batch' = [batch EXCEPT ![p] = NoBatch] /\ UNCHANGED <<id, flush>>
        /\ pending' = [pending EXCEPT ![p] = IF left = {} THEN @ ELSE <<>>]
        /\ \A a \in Reads : state'[a] = IF a \in left THEN "lost"
                                        ELSE IF a \in batch[p].reads THEN (IF committed THEN "logged" ELSE "lost")
                                        ELSE state[a]
    BY <1>6 DEF BatchEnds
  <2>2. left \subseteq Range(pending[p])
    OBVIOUS
  <2>3. /\ pending'[p] \in {pending[p], <<>>} /\ batch'[p].at = "idle"
        /\ \A q \in Servers \ {p} : pending'[q] = pending[q] /\ batch'[q] = batch[q]
    BY <1>0, <2>1, MemoryShape DEF NoBatch
  <2> HIDE DEF left
  <2>4. Len(pending'[p]) <= QueueSize
    BY <1>0, <2>3
  <2>5. ShapesInv'
    BY <1>0, <2>1, <2>2, <2>3, <2>4, ShapesMove
  <2>6. IdsInv'
    BY <2>1, IdsKept
  <2> QED BY <1>1, <2>5, <2>6
<1> QED BY <1>2, <1>3, <1>4, <1>5, <1>6

\* A read that finds a full queue is dropped, not queued.
LEMMA LogTypes ==
    ASSUME AccessInv, TypeInv, NEW p \in Servers, NEW a \in Reads, LogAccess(p, a) PROVE TypeInv'
<1> USE DEF TypeInv
<1>1. /\ state[a] = "new" /\ UNCHANGED <<batch, id, freshness, flush, edits>>
      /\ state' \in {Become({a}, "queued"), Become({a}, "lost")}
      /\ \/ HasRoom(p) /\ pending' = [pending EXCEPT ![p] = Append(@, a)]
         \/ UNCHANGED pending
  BY DEF LogAccess
<1>2. /\ p \in DOMAIN pending /\ pending[p] \in Seq(Reads) /\ QueueSize \in Nat
      /\ Len(pending[p]) <= QueueSize /\ ShapesInv
  BY MemoryHeld, MemoryShape, AccessAssumption DEF ShapesInv
<1>3. \A b \in Reads : b # a => state'[b] = state[b]
  BY <1>1 DEF Become
<1>4. Len(pending'[p]) <= QueueSize
  <2>1. CASE HasRoom(p) /\ pending' = [pending EXCEPT ![p] = Append(@, a)]
    <3>1. pending'[p] = Append(pending[p], a)
      BY <1>2, <2>1
    <3>2. Len(Append(pending[p], a)) = Len(pending[p]) + 1 /\ Len(pending[p]) \in Nat
      BY <1>2
    <3> QED BY <1>2, <2>1, <3>1, <3>2 DEF HasRoom
  <2>2. CASE UNCHANGED pending
    BY <1>2, <2>2
  <2> QED BY <1>1, <2>1, <2>2
<1>5. \A q \in Servers \ {p} : pending'[q] = pending[q] /\ batch'[q] = batch[q] /\ flush'[q] = flush[q]
  BY <1>1, MemoryShape
<1>6. ShapesInv'
  <2>1. \A b \in Reads : state[b] = "taken" => state'[b] = "taken"
    BY <1>1, <1>3
  <2>2. \A b \in batch[p].reads : b \in Reads
    BY MemoryHeld
  <2>3. batch'[p].at \in {"taken", "last"} => \A b \in batch'[p].reads : state'[b] = "taken"
    BY <1>1, <2>1, <2>2 DEF ShapesInv
  <2> QED BY <1>1, <1>4, <1>5, <2>1, <2>3, ShapesMove DEF ShapesInv
<1>7. IdsInv'
  BY <1>1, <1>3, IdsKept
<1> QED BY <1>1, <1>6, <1>7 DEF StatusInv

LEMMA FlusherTypes ==
    ASSUME AccessInv, TypeInv, NEW p \in Servers,
           \/ FlushLocks(p) \/ FlushBounds(p) \/ FlushDrains(p) \/ FlushReads(p) \/ FlushFails(p)
           \/ FlushCommits(p)
    PROVE  TypeInv'
<1> USE DEF TypeInv
<1>1. UNCHANGED <<pending, batch, id, edits>>
  BY DEF FlushLocks, FlushBounds, FlushDrains, FlushReads, FlushFails, FlushCommits
<1>2. \A b \in Reads : state'[b] = state[b] \/ (state[b] = "logged" /\ state'[b] = "counted")
  <2>1. CASE FlushCommits(p)
    <3>1. state' = Become(flush[p].drained, "counted")
      BY <2>1 DEF FlushCommits, Deleted
    <3>2. \A b \in flush[p].drained : state[b] = "logged"
      BY DEF AccessInv, FlushOK, Logged
    <3> QED BY <3>1, <3>2 DEF Become
  <2>2. CASE UNCHANGED state
    BY <2>2
  <2> QED BY <2>1, <2>2 DEF FlushLocks, FlushBounds, FlushDrains, FlushReads, FlushFails
<1>3. /\ flush'[p].at \in {"idle", "locked", "bounded", "drained", "read"}
      /\ \A q \in Servers \ {p} : flush'[q] = flush[q]
  <2>1. p \in DOMAIN flush /\ DOMAIN flush = Servers
    BY MemoryShape
  <2>2. \E f : /\ flush' = [flush EXCEPT ![p] = f]
               /\ f.at \in {"idle", "locked", "bounded", "drained", "read"}
    BY DEF FlushLocks, FlushBounds, FlushDrains, FlushReads, FlushFails, FlushCommits, NoFlush, FlushAt
  <2> QED BY <2>1, <2>2
<1>4. ShapesInv'
  <2>1. \A b \in batch[p].reads : b \in Reads
    BY MemoryHeld
  <2>2. batch'[p].at \in {"taken", "last"} => \A b \in batch'[p].reads : state'[b] = "taken"
    BY <1>1, <1>2, <2>1 DEF ShapesInv
  <2> QED BY <1>1, <1>2, <1>3, <2>2, ShapesMove DEF ShapesInv
<1>5. IdsInv'
  BY <1>1, <1>2, IdsKept
<1>6. freshness' \in [EntityRows -> FreshnessStatuses]
  <2>1. CASE FlushCommits(p)
    <3>1. PICK score \in [EntityRows -> FreshnessStatuses] :
            \E B : freshness' = [e \in EntityRows |-> IF e \in B THEN score[e] ELSE freshness[e]]
      <4>1. PICK score \in [EntityRows -> FreshnessStatuses] :
              freshness' = [e \in EntityRows |->
                  IF /\ e \in DOMAIN flush[p].read
                     /\ ~(/\ flush[p].read[e].status = "archived" /\ score[e] # "archived"
                          /\ ~HumanRead(p, e))
                     /\ score[e] # flush[p].read[e].status
                  THEN score[e] ELSE freshness[e]]
        BY <2>1 DEF FlushCommits
      <4> DEFINE B == {e \in EntityRows :
                         /\ e \in DOMAIN flush[p].read
                         /\ ~(/\ flush[p].read[e].status = "archived" /\ score[e] # "archived"
                              /\ ~HumanRead(p, e))
                         /\ score[e] # flush[p].read[e].status}
      <4>2. freshness' = [e \in EntityRows |-> IF e \in B THEN score[e] ELSE freshness[e]]
        BY <4>1
      <4> QED BY <4>2
    <3> QED BY <3>1 DEF StatusInv
  <2>2. CASE UNCHANGED freshness
    BY <2>2 DEF StatusInv
  <2> QED BY <2>1, <2>2 DEF FlushLocks, FlushBounds, FlushDrains, FlushReads, FlushFails
<1> QED BY <1>1, <1>4, <1>5, <1>6 DEF StatusInv

LEMMA TypesStep == ASSUME AccessInv, TypeInv, [AccessNext]_accessVars PROVE TypeInv'
<1>1. ASSUME UNCHANGED <<state, pending, batch, id, flush>>, StatusInv' PROVE TypeInv'
  <2>1. ShapesInv'
    BY <1>1 DEF TypeInv, ShapesInv
  <2>2. IdsInv'
    BY <1>1, IdsKept DEF TypeInv
  <2> QED BY <1>1, <2>1, <2>2 DEF TypeInv
<1>2. CASE UNCHANGED accessVars
  BY <1>1, <1>2 DEF accessVars, TypeInv, StatusInv
<1>3. ASSUME NEW e \in EntityRows, NEW s \in FreshnessStatuses, Edit(e, s) PROVE TypeInv'
  <2>1. /\ UNCHANGED <<state, pending, batch, id, flush>> /\ edits < MaxEdits /\ edits' = edits + 1
        /\ freshness' = [freshness EXCEPT ![e] = s]
    BY <1>3 DEF Edit
  <2>2. StatusInv'
    BY <2>1, AccessAssumption DEF TypeInv, StatusInv
  <2> QED BY <1>1, <2>1, <2>2
<1> QED BY <1>2, <1>3, LoggerTypes, LogTypes, FlusherTypes DEF AccessNext

\* A queue never exceeds its size, nothing is counted more often than there are
\* reads, and queues, batches, flushes and tables keep their shapes
\* (log_access, _flush_batch).
THEOREM AccessTypeTheorem == AccessSpec => []AccessTypeOK
<1>1. AccessInit => AccessInv /\ TypeInv
  BY AccessStarts, TypesStart
<1>2. AccessInv /\ TypeInv /\ [AccessNext]_accessVars => AccessInv' /\ TypeInv'
  BY AccessStep, TypesStep DEF Fine
<1>3. AccessInv /\ Exact /\ TypeInv => AccessTypeOK
  <2> SUFFICES ASSUME AccessInv, Exact, TypeInv PROVE AccessTypeOK
    OBVIOUS
  <2>1. /\ state \in [Reads -> Places] /\ counter \in [EntityRows -> Nat] /\ daily \in [Entities -> Nat]
        /\ EntityRows \subseteq Entities
    BY AccessAssumption DEF AccessInv, TablesOK
  <2>2. id \in [Reads -> Counts]
    <3>1. Cardinality(Ided) <= Cardinality(Reads) /\ Cardinality(Ided) \in Nat /\ Cardinality(Reads) \in Nat
      BY IdsCounted DEF TypeInv
    <3>2. id \in [Reads -> Nat] /\ \A a \in Reads : id[a] <= Cardinality(Ided)
      BY DEF TypeInv, IdsInv
    <3>3. \A a \in Reads : id[a] \in Counts
      BY <3>1, <3>2 DEF Counts
    <3> QED BY <3>2, <3>3
  <2>3. \A e : Cardinality(Counted(e)) \in Counts
    <3> TAKE e
    <3>1. Counted(e) \in SUBSET Reads
      BY DEF Counted
    <3>2. IsFiniteSet(Counted(e)) /\ Cardinality(Counted(e)) <= Cardinality(Reads)
      BY <3>1, AccessAssumption, FS_Subset
    <3>3. Cardinality(Counted(e)) \in Nat /\ Cardinality(Reads) \in Nat
      BY <3>2, AccessAssumption, FS_CardinalityType
    <3> QED BY <3>2, <3>3 DEF Counts
  <2>4. counter \in [EntityRows -> Counts] /\ daily \in [Entities -> Counts]
    BY <2>1, <2>3 DEF Exact
  <2>5. \A p \in Servers : /\ Range(pending[p]) \subseteq Reads /\ batch[p].reads \subseteq Reads
                           /\ flush[p].drained \subseteq Reads
    BY MemoryHeld DEF AccessInv, FlushOK, Logged
  <2> QED BY <2>1, <2>2, <2>4, <2>5 DEF TypeInv, ShapesInv, StatusInv, AccessTypeOK, Places
<1> QED BY <1>1, <1>2, <1>3, ExactTheorem, PTL DEF AccessSpec
=============================================================================
