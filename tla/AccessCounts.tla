---------------------------- MODULE AccessCounts ----------------------------
(***************************************************************************)
(* How reads of knowledge become counters and freshness.  Each server      *)
(* process queues its reads in memory and inserts them in batches          *)
(* (services/access_logger.py); each also runs a flusher that drains the   *)
(* shared access_log into the entities and the daily journal, under one    *)
(* advisory lock (services/decay_flusher.py,                               *)
(* repositories/pg_access_log.py).  Statements of a flush are steps of     *)
(* their own, because inserts and edits of the entities commit in between. *)
(* Rows a flush writes are locked to its commit, so writing and committing *)
(* are one step.                                                           *)
(***************************************************************************)
EXTENDS Integers, Sequences, FiniteSets, FiniteSetsExt, SequencesExt

CONSTANTS
    Servers,        \* server processes
    Reads,          \* accesses to log
    EntityOf,       \* [Reads -> Entities]
    Humans,         \* reads whose actor is human
    Entities,
    EntityRows,     \* entities that still have a row
    QueueSize,      \* max_queue_size (1000)
    BatchSize,      \* _BATCH_SIZE (50)
    MaxEdits        \* bound on edits of a freshness outside the flusher

ASSUME AccessAssumption ==
    /\ IsFiniteSet(Reads) /\ EntityOf \in [Reads -> Entities] /\ EntityRows \subseteq Entities
    /\ QueueSize \in Nat /\ BatchSize \in Nat /\ MaxEdits \in Nat

VARIABLES
    state,          \* [Reads -> where the read is]
    pending,        \* [Servers -> queued reads, oldest first]
    batch,          \* [Servers -> reads taken off the queue, and how far]
    id,             \* [Reads -> access_log.id, or 0]
    counter,        \* [EntityRows -> access_count]
    daily,          \* [Entities -> access_log_daily.count]
    freshness,      \* [EntityRows -> freshness_status]
    flush,          \* [Servers -> the flush in progress]
    edits

accessVars == <<state, pending, batch, id, counter, daily, freshness, flush, edits>>

FreshnessStatuses == {"fresh", "stale", "archived"}
NoBatch == [at |-> "idle", reads |-> {}]
FlushAt(at, max, drained, read) == [at |-> at, max |-> max, drained |-> drained, read |-> read]
NoFlush == FlushAt("idle", 0, {}, <<>>)
Counts == 0 .. Cardinality(Reads)

\* The memory of the processes and the tables keep their shapes.
AccessTypeOK ==
    /\ state \in [Reads -> {"new", "queued", "taken", "inserted", "logged", "counted", "lost"}]
    /\ \A p \in Servers : /\ Range(pending[p]) \subseteq Reads /\ Len(pending[p]) <= QueueSize
                          /\ batch[p].at \in {"idle", "taken", "inserted", "last", "lastinserted"}
                          /\ batch[p].reads \subseteq Reads
                          /\ flush[p].at \in {"idle", "locked", "bounded", "drained", "read"}
                          /\ flush[p].drained \subseteq Reads
    /\ id \in [Reads -> Counts]
    /\ counter \in [EntityRows -> Counts] /\ daily \in [Entities -> Counts]
    /\ freshness \in [EntityRows -> FreshnessStatuses]
    /\ edits \in 0 .. MaxEdits

AccessInit ==
    /\ state = [a \in Reads |-> "new"]
    /\ pending = [p \in Servers |-> <<>>]
    /\ batch = [p \in Servers |-> NoBatch]
    /\ id = [a \in Reads |-> 0]
    /\ counter = [e \in EntityRows |-> 0] /\ daily = [e \in Entities |-> 0]
    /\ freshness = [e \in EntityRows |-> "stale"]
    /\ flush = [p \in Servers |-> NoFlush]
    /\ edits = 0

Become(S, s) == [a \in Reads |-> IF a \in S THEN s ELSE state[a]]

(***************************************************************************)
(* AccessLogger                                                            *)
(***************************************************************************)
\* Mutant: one read too many.
RoomForOneMore(p) == Len(pending[p]) <= QueueSize
\* put_nowait
HasRoom(p) == Len(pending[p]) < QueueSize

\* A full queue drops the read.
LogAccess(p, a) ==
    /\ state[a] = "new"
    /\ IF HasRoom(p)
       THEN state' = Become({a}, "queued") /\ pending' = [pending EXCEPT ![p] = Append(@, a)]
       ELSE state' = Become({a}, "lost") /\ UNCHANGED pending
    /\ UNCHANGED <<batch, id, counter, daily, freshness, flush, edits>>

Taken(p) == IF Len(pending[p]) < BatchSize THEN Len(pending[p]) ELSE BatchSize

TakeInto(p, at) ==
    LET reads == {pending[p][i] : i \in 1 .. Taken(p)} IN
    /\ batch' = [batch EXCEPT ![p] = [at |-> at, reads |-> reads]]
    /\ pending' = [pending EXCEPT ![p] = SubSeq(@, Taken(p) + 1, Len(@))]

FlushBatch(p) ==
    /\ batch[p] = NoBatch /\ pending[p] # <<>>
    /\ TakeInto(p, "taken")
    /\ state' = Become(batch'[p].reads, "taken")
    /\ UNCHANGED <<id, counter, daily, freshness, flush, edits>>

LastId == Max({id[a] : a \in Reads})

\* The insert takes its ids before it commits.
InsertRuns(p) ==
    /\ batch[p].at \in {"taken", "last"} /\ batch[p].reads # {}
    /\ \E order \in [batch[p].reads -> 1 .. Cardinality(batch[p].reads)] :
          /\ Cardinality({order[a] : a \in DOMAIN order}) = Cardinality(DOMAIN order)
          /\ id' = [a \in Reads |-> IF a \in batch[p].reads THEN LastId + order[a] ELSE id[a]]
    /\ batch' = [batch EXCEPT ![p] =
          [at |-> IF @.at = "last" THEN "lastinserted" ELSE "inserted", reads |-> @.reads]]
    /\ state' = Become(batch[p].reads, "inserted")
    /\ UNCHANGED <<pending, counter, daily, freshness, flush, edits>>

\* A batch ends committed, or is lost with the exception.  After the last
\* one of a stopping process the rest of its queue is lost.
BatchEnds(p, committed) ==
    /\ batch[p] # NoBatch
    /\ committed => batch[p].at \in {"inserted", "lastinserted"}
    /\ LET reads == batch[p].reads
           left == IF batch[p].at \in {"last", "lastinserted"} THEN Range(pending[p]) ELSE {}
       IN  /\ state' = [a \in Reads |-> IF a \in left THEN "lost"
                                        ELSE IF a \in reads THEN (IF committed THEN "logged" ELSE "lost")
                                        ELSE state[a]]
           /\ pending' = [pending EXCEPT ![p] = IF left = {} THEN @ ELSE <<>>]
    /\ batch' = [batch EXCEPT ![p] = NoBatch]
    /\ UNCHANGED <<id, counter, daily, freshness, flush, edits>>

\* stop: the loop is cancelled, with any insert in flight, and one more
\* batch is taken.
Stop(p) ==
    /\ batch[p].at \notin {"last", "lastinserted"} /\ pending[p] # <<>>
    /\ TakeInto(p, "last")
    /\ state' = [a \in Reads |-> IF a \in batch[p].reads THEN "lost"
                                 ELSE IF a \in batch'[p].reads THEN "taken" ELSE state[a]]
    /\ UNCHANGED <<id, counter, daily, freshness, flush, edits>>

\* A crash loses the queue and the batch; its flush is rolled back.
ServerCrashes(p) ==
    /\ batch[p] # NoBatch \/ pending[p] # <<>> \/ flush[p] # NoFlush
    /\ state' = Become(batch[p].reads \cup Range(pending[p]), "lost")
    /\ pending' = [pending EXCEPT ![p] = <<>>]
    /\ batch' = [batch EXCEPT ![p] = NoBatch]
    /\ flush' = [flush EXCEPT ![p] = NoFlush]
    /\ UNCHANGED <<id, counter, daily, freshness, edits>>

(***************************************************************************)
(* DecayFlusher                                                            *)
(***************************************************************************)
FlushLockFree == \A p \in Servers : flush[p].at = "idle"

FlushLocks(p) ==
    /\ flush[p] = NoFlush /\ FlushLockFree
    /\ flush' = [flush EXCEPT ![p] = FlushAt("locked", 0, {}, <<>>)]
    /\ UNCHANGED <<state, pending, batch, id, counter, daily, freshness, edits>>

\* Reads of access_log see what has committed and no drain has deleted.
Logged == {a \in Reads : state[a] = "logged"}

FlushBounds(p) ==
    /\ flush[p].at = "locked"
    /\ flush' = [flush EXCEPT ![p] = IF Logged = {} THEN NoFlush
                                     ELSE FlushAt("bounded", Max({id[a] : a \in Logged}), {}, <<>>)]
    /\ UNCHANGED <<state, pending, batch, id, counter, daily, freshness, edits>>

Below(p) == {a \in Logged : id[a] <= flush[p].max}

\* DELETE ... RETURNING; it would wait for another drain of the same rows.
FlushDrains(p) ==
    /\ flush[p].at = "bounded"
    /\ \A q \in Servers \ {p} : flush[q].drained \cap Below(p) = {}
    /\ flush' = [flush EXCEPT ![p] = IF Below(p) = {} THEN NoFlush
                                     ELSE FlushAt("drained", flush[p].max, Below(p), <<>>)]
    /\ UNCHANGED <<state, pending, batch, id, counter, daily, freshness, edits>>

TouchedBy(p) == {EntityOf[a] : a \in flush[p].drained}

FlushReads(p) ==
    /\ flush[p].at = "drained"
    /\ LET read == [e \in TouchedBy(p) \cap EntityRows |->
                       [count |-> counter[e], status |-> freshness[e]]]
       IN  flush' = [flush EXCEPT ![p] = FlushAt("read", flush[p].max, flush[p].drained, read)]
    /\ UNCHANGED <<state, pending, batch, id, counter, daily, freshness, edits>>

Of(e, S) == Cardinality({a \in S : EntityOf[a] = e})
HumanRead(p, e) == \E a \in flush[p].drained \cap Humans : EntityOf[a] = e

\* Rows deleted by the commit: the ones the drain returned, or all that a
\* separate DELETE would have found.
DeletedSeparately(p) == Below(p)
Deleted(p) == flush[p].drained

\* The score gives any status; out of "archived" it needs a human read.
\* Counter and status were computed from the row as it was read.
FlushCommits(p) ==
    /\ flush[p].at = "read"
    /\ \E score \in [EntityRows -> FreshnessStatuses] :
          LET read == flush[p].read
              blocked(e) == read[e].status = "archived" /\ score[e] # "archived" /\ ~HumanRead(p, e)
              scored(e) == e \in DOMAIN read /\ ~blocked(e) /\ score[e] # read[e].status
          IN  /\ counter' = [e \in EntityRows |-> IF e \in DOMAIN read
                                                   THEN read[e].count + Of(e, flush[p].drained)
                                                   ELSE counter[e]]
              /\ freshness' = [e \in EntityRows |-> IF scored(e) THEN score[e] ELSE freshness[e]]
    /\ daily' = [e \in Entities |-> daily[e] + Of(e, flush[p].drained)]
    /\ state' = Become(Deleted(p), "counted")
    /\ flush' = [flush EXCEPT ![p] = NoFlush]
    /\ UNCHANGED <<pending, batch, id, edits>>

\* An error or a crash: everything the flush did is rolled back.
FlushFails(p) ==
    /\ flush[p] # NoFlush
    /\ flush' = [flush EXCEPT ![p] = NoFlush]
    /\ UNCHANGED <<state, pending, batch, id, counter, daily, freshness, edits>>

\* An update of the entity, a merge or a reindex sets its status.
Edit(e, s) ==
    /\ edits < MaxEdits /\ freshness[e] # s
    /\ freshness' = [freshness EXCEPT ![e] = s]
    /\ edits' = edits + 1
    /\ UNCHANGED <<state, pending, batch, id, counter, daily, flush>>

AccessNext ==
    \/ \E p \in Servers : \/ FlushBatch(p) \/ InsertRuns(p) \/ Stop(p) \/ ServerCrashes(p)
                          \/ FlushLocks(p) \/ FlushBounds(p) \/ FlushDrains(p) \/ FlushReads(p)
                          \/ FlushCommits(p) \/ FlushFails(p)
                          \/ \E a \in Reads : LogAccess(p, a)
                          \/ \E committed \in BOOLEAN : BatchEnds(p, committed)
    \/ \E e \in EntityRows, s \in FreshnessStatuses : Edit(e, s)

AccessSpec == AccessInit /\ [][AccessNext]_accessVars

(***************************************************************************)
(* Properties                                                              *)
(***************************************************************************)
Fate(s) ==
    CASE s \in {"queued", "taken", "inserted", "logged"} -> "held"
      [] OTHER -> s

Promise == INSTANCE CountOnce WITH
    fate <- [a \in Reads |-> Fate(state[a])], Rows <- EntityRows, journal <- daily

\* Reads are counted once, or lost, and counting one moves the entity's
\* counter and its journal together: however many processes insert, flush,
\* fail and stop, and whatever order ids commit in.
CountsEachReadOnce == Promise!Spec

\* "a ROBOT has no right to unarchive": a flush takes an entity out of
\* "archived" only for a human read it drained.
RobotsDoNotUnarchive ==
    [][\A p \in Servers, e \in EntityRows :
          (/\ flush[p].at = "read" /\ flush'[p].at = "idle"
           /\ freshness[e] = "archived" /\ freshness'[e] # "archived")
             => HumanRead(p, e)]_accessVars
=============================================================================
