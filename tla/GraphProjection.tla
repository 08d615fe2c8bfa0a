--------------------------- MODULE GraphProjection ---------------------------
(***************************************************************************)
(* The graph projection protocol: PostgreSQL keeps the canonical entities  *)
(* and relations ("aggregates", each with a revision) and an outbox with   *)
(* one row per revision; projector workers copy the outbox into Neo4j.     *)
(*                                                                         *)
(* Three mechanisms keep the copy right, and this module has all three:    *)
(*   - the singleton lease row in PostgreSQL (owner, generation, expiry,   *)
(*     armed generation, recovery interlock) and the lease of each outbox  *)
(*     row (owner, generation, claim version, expiry);                     *)
(*   - the fence node in Neo4j, whose generation and owner every write     *)
(*     checks, and one cursor per aggregate that orders the revisions;     *)
(*   - the crash-safe recovery, which interlocks the lease, wipes Neo4j,   *)
(*     reinstalls the fence and replays every current revision.            *)
(*                                                                         *)
(* A step is one database transaction.  Between two of them a worker may   *)
(* be arbitrarily slow: its lease may expire, another worker may take      *)
(* over, and it may wake up and go on.  A Neo4j transaction is one step    *)
(* because each takes the write lock of the fence node first.              *)
(*                                                                         *)
(* Abstractions.  Clocks: a lease is live or not, and expires by a step of *)
(* its own.  Contents: what a claim copies is the revision the row had     *)
(* when the claim read it.  Worker ids are fresh per process, so a crashed *)
(* worker never returns; another member of Workers is another process.     *)
(***************************************************************************)
EXTENDS Integers, FiniteSets

CONSTANTS
    Aggregates,   \* brain_entities and entity_relations rows
    Workers,      \* projector processes (graph-projector-<uuid>)
    Recoverers,   \* processes running scripts/recover_graph_projection.py
    RecoveryIds,  \* the --recovery-id values in use
    RecoveryOf,   \* the id each recovery process was started with
    None,         \* SQL NULL
    MaxRev,       \* bound: revisions of one aggregate
    MaxAttempts,  \* max_attempts: failures before a row is exhausted
    BatchSize,    \* batch_size of claim_pending
    MaxFaults,    \* bound: expiries, exceptions, crashes, stops
    MaxUpkeep     \* bound: outbox rows purged and manual requeues

ASSUME ConstantsAssumption ==
    /\ MaxRev \in Nat \ {0}
    /\ MaxAttempts \in Nat \ {0}
    /\ BatchSize \in Nat \ {0}
    /\ MaxFaults \in Nat
    /\ MaxUpkeep \in Nat
    /\ RecoveryOf \in [Recoverers -> RecoveryIds]
    /\ Workers \cap RecoveryIds = {}
    /\ None \notin Workers \cup RecoveryIds

VARIABLES
    lease,    \* graph_projection_leases, slot 'neo4j'
    outbox,   \* graph_outbox, by aggregate and revision
    pgRev,    \* current revision of each aggregate; 0: does not exist
    fence,    \* Neo4j BrainProjectionFence; generation -1: absent
    cursor,   \* Neo4j BrainProjectionCursor of each aggregate
    graph,    \* revision whose content Neo4j holds; 0: nothing
    pc,       \* where each worker is in _project_batch
    lead,     \* GraphOutboxProjector._leadership; generation 0: None
    batch,    \* claims the worker has yet to process
    cur,      \* the claim it is processing
    outcome,  \* what apply returned for it
    rpc,      \* where each recovery is in recover_projection_lineage
    rstate,   \* its ProjectionRecoveryLease (generation and phase)
    faults,   \* faults left
    upkeep    \* purges and manual requeues left

pgVars     == <<lease, outbox, pgRev>>
neoVars    == <<fence, cursor, graph>>
workerVars == <<pc, lead, batch, cur, outcome>>
recVars    == <<rpc, rstate>>
budget     == <<faults, upkeep>>
vars       == <<pgVars, neoVars, workerVars, recVars, budget>>

Revs   == 1..MaxRev
Owners == Workers \cup RecoveryIds \cup {None}
Phases == {"idle", "prepared", "neo_ready"}

Lease == [owner : Owners, gen : Nat, live : BOOLEAN, armed : BOOLEAN,
          rec : RecoveryIds \cup {None}, phase : Phases,
          lastDone : RecoveryIds \cup {None}]
Row == [st : {"absent", "pending", "exhausted", "delivered", "superseded"},
        owner : Workers \cup {None}, gen : Nat, ver : Nat, live : BOOLEAN,
        tries : Nat, ready : BOOLEAN, ev : Nat]
Fence == [gen : Int, owner : Owners, rec : RecoveryIds \cup {None}]
Cursor == [rev : Int, gen : Nat, ver : Int, ev : Nat]
Claim == [agg : Aggregates, rev : Revs, ev : Nat, ver : Nat, snap : Nat]
WorkerPcs == {"idle", "activate", "evidence", "advance", "reactivate", "arm",
              "claim", "next", "apply", "mark", "release", "stopping", "dead"}
RecoverPcs == {"start", "reset", "ready", "finneo", "finpg", "done"}

NoRow    == [st |-> "absent", owner |-> None, gen |-> 0, ver |-> 0,
             live |-> FALSE, tries |-> 0, ready |-> TRUE, ev |-> 0]
NoFence  == [gen |-> -1, owner |-> None, rec |-> None]
NoCursor == [rev |-> -1, gen |-> 0, ver |-> -1, ev |-> 0]
NoLead   == [gen |-> 0, armed |-> FALSE]

(* The columns have these types; fence generation -1 is the absent fence.  *)
TypeOK ==
    /\ lease \in Lease
    /\ outbox \in [Aggregates -> [Revs -> Row]]
    /\ pgRev \in [Aggregates -> 0..MaxRev]
    /\ fence \in Fence
    /\ cursor \in [Aggregates -> Cursor]
    /\ graph \in [Aggregates -> Nat]
    /\ pc \in [Workers -> WorkerPcs]
    /\ lead \in [Workers -> [gen : Nat, armed : BOOLEAN]]
    /\ batch \in [Workers -> SUBSET Claim]
    /\ cur \in [Workers -> Claim \cup {None}]
    /\ outcome \in [Workers -> {"none", "ok", "fail", "conflict"}]
    /\ rpc \in [Recoverers -> RecoverPcs]
    /\ rstate \in [Recoverers -> [gen : Nat, phase : Phases]]
    /\ faults \in 0..MaxFaults
    /\ upkeep \in 0..MaxUpkeep

(* Migrations 033-035: the lease row starts armed at generation 0 and      *)
(* nothing creates the fence before the first recovery.                    *)
Init ==
    /\ lease = [owner |-> None, gen |-> 0, live |-> FALSE, armed |-> TRUE,
                rec |-> None, phase |-> "idle", lastDone |-> None]
    /\ outbox = [a \in Aggregates |-> [r \in Revs |-> NoRow]]
    /\ pgRev = [a \in Aggregates |-> 0]
    /\ fence = NoFence
    /\ cursor = [a \in Aggregates |-> NoCursor]
    /\ graph = [a \in Aggregates |-> 0]
    /\ pc = [w \in Workers |-> "idle"]
    /\ lead = [w \in Workers |-> NoLead]
    /\ batch = [w \in Workers |-> {}]
    /\ cur = [w \in Workers |-> None]
    /\ outcome = [w \in Workers |-> "none"]
    /\ rpc = [p \in Recoverers |-> "start"]
    /\ rstate = [p \in Recoverers |-> [gen |-> 0, phase |-> "idle"]]
    /\ faults = MaxFaults
    /\ upkeep = MaxUpkeep
-----------------------------------------------------------------------------
(* Writers of the canonical ledger.                                        *)

\* An INSERT: a fresh event_id (gen_random_uuid) and a fresh claim history.
Inserted(row) == [NoRow EXCEPT !.st = "pending", !.ev = row.ev + 1]

\* A material change bumps the revision and enqueues it, in one transaction.
Stage(a) ==
    /\ pgRev[a] < MaxRev
    /\ pgRev' = [pgRev EXCEPT ![a] = @ + 1]
    /\ outbox' = [outbox EXCEPT ![a][pgRev[a] + 1] = Inserted(@)]
    /\ UNCHANGED <<lease, neoVars, workerVars, recVars, budget>>

\* Mutant: the upsert overwrites the event id of a row that is there.
RestageOverwrites(a) ==
    /\ pgRev[a] > 0
    /\ outbox[a][pgRev[a]].ev = 1
    /\ outbox' = [outbox EXCEPT ![a][pgRev[a]] = Inserted(@)]
    /\ UNCHANGED <<lease, pgRev, neoVars, workerVars, recVars, budget>>

\* Staging an unchanged relation keeps its revision; the outbox row is kept
\* when it is there (ON CONFLICT) and inserted again when it is not.
Restage(a) ==
    /\ pgRev[a] > 0
    /\ outbox[a][pgRev[a]].st = "absent"
    /\ outbox' = [outbox EXCEPT ![a][pgRev[a]] = Inserted(@)]
    /\ UNCHANGED <<lease, pgRev, neoVars, workerVars, recVars, budget>>

\* Mutant: deletes old rows whatever their status.
PurgeAny(a, r) ==
    /\ upkeep > 0
    /\ outbox[a][r].st # "absent"
    /\ outbox' = [outbox EXCEPT ![a][r] = [NoRow EXCEPT !.ev = outbox[a][r].ev]]
    /\ upkeep' = upkeep - 1
    /\ UNCHANGED <<lease, pgRev, neoVars, workerVars, recVars, faults>>

\* Retention deletes rows delivered long ago.
Purge(a, r) ==
    /\ upkeep > 0
    /\ outbox[a][r].st \in {"delivered", "superseded"}
    /\ outbox' = [outbox EXCEPT ![a][r] = [NoRow EXCEPT !.ev = outbox[a][r].ev]]
    /\ upkeep' = upkeep - 1
    /\ UNCHANGED <<lease, pgRev, neoVars, workerVars, recVars, faults>>

\* Mutant: only enqueues what has no row, and keeps delivered rows.
RequeuedMissing ==
    [a \in Aggregates |-> [r \in Revs |->
        IF r = pgRev[a] /\ outbox[a][r].st = "absent"
        THEN Inserted(outbox[a][r]) ELSE outbox[a][r]]]

\* _full_projection_statements: every current revision is pending again.
Requeued ==
    [a \in Aggregates |-> [r \in Revs |->
        IF r # pgRev[a] THEN outbox[a][r]
        ELSE IF outbox[a][r].st = "absent" THEN Inserted(outbox[a][r])
        ELSE [outbox[a][r] EXCEPT !.st = "pending", !.owner = None, !.gen = 0,
                                  !.live = FALSE, !.tries = 0, !.ready = TRUE]]]

\* requeue_full_projection outside a recovery: a manual replay.
RequeueFullProjection ==
    /\ upkeep > 0
    /\ outbox' = Requeued
    /\ upkeep' = upkeep - 1
    /\ UNCHANGED <<lease, pgRev, neoVars, workerVars, recVars, faults>>
-----------------------------------------------------------------------------
(* The projector: one _project_batch of worker w.                          *)

Goto(w, l) == pc' = [pc EXCEPT ![w] = l]

Leader(w) == /\ lease.rec = None
             /\ lease.owner = w
             /\ lease.gen = lead[w].gen
             /\ lease.live
ArmedLeader(w) == Leader(w) /\ lease.armed

MayAcquire(w) == lease.rec = None /\ (lease.owner = w \/ ~lease.live)

\* Mutant: a takeover forgets to unarm the new generation.
AcquiredLeaseArmed(w) ==
    IF lease.owner = w /\ lease.live
    THEN lease
    ELSE [lease EXCEPT !.owner = w, !.live = TRUE, !.gen = IF lease.armed THEN @ + 1 ELSE @]

\* Only an armed generation is ever superseded: an unarmed one is handed to
\* the next owner as it is.
AcquiredLease(w) ==
    IF lease.owner = w /\ lease.live
    THEN lease
    ELSE [lease EXCEPT !.owner = w, !.live = TRUE, !.armed = FALSE,
                       !.gen = IF lease.armed THEN @ + 1 ELSE @]

AcquireLeadership(w) ==
    /\ pc[w] = "idle"
    /\ MayAcquire(w)
    /\ lease' = AcquiredLease(w)
    /\ lead' = [lead EXCEPT ![w] = [gen |-> lease'.gen, armed |-> lease'.armed]]
    /\ Goto(w, "activate")
    /\ UNCHANGED <<outbox, pgRev, neoVars, batch, cur, outcome, recVars, budget>>

AcquireRefused(w) ==
    /\ pc[w] = "idle"
    /\ ~MayAcquire(w)
    /\ lead' = [lead EXCEPT ![w] = NoLead]
    /\ UNCHANGED <<pgVars, neoVars, pc, batch, cur, outcome, recVars, budget>>

CursorEvidence(g) == \E a \in Aggregates : cursor[a].gen = g

\* Mutant: ignores who activated the generation.
FenceAcceptsAnyOwner(w, requireNoPriorCursor) ==
    /\ fence # NoFence
    /\ fence.rec = None
    /\ requireNoPriorCursor => ~CursorEvidence(lead[w].gen - 1)
    /\ fence.gen \in {lead[w].gen - 1, lead[w].gen}

\* _ACTIVATE_GENERATION: when the fence accepts worker w's generation.
FenceAccepts(w, requireNoPriorCursor) ==
    /\ fence # NoFence
    /\ fence.rec = None
    /\ requireNoPriorCursor => ~CursorEvidence(lead[w].gen - 1)
    /\ \/ ~lead[w].armed /\ fence.gen = lead[w].gen - 1
       \/ fence.gen = lead[w].gen /\ fence.owner \in {None, w}

ActivateGeneration(w) ==
    /\ pc[w] = "activate"
    /\ \/ /\ FenceAccepts(w, FALSE)
          /\ fence' = [fence EXCEPT !.gen = lead[w].gen, !.owner = w]
          /\ Goto(w, IF lead[w].armed THEN "claim" ELSE "arm")
       \/ /\ ~FenceAccepts(w, FALSE)
          /\ Goto(w, IF ~lead[w].armed /\ fence.gen = lead[w].gen
                     THEN "evidence" ELSE "release")
          /\ UNCHANGED fence
    /\ UNCHANGED <<pgVars, cursor, graph, lead, batch, cur, outcome, recVars, budget>>

HasCursorEvidence(w) ==
    /\ pc[w] = "evidence"
    /\ Goto(w, IF CursorEvidence(lead[w].gen) THEN "release" ELSE "advance")
    /\ UNCHANGED <<pgVars, neoVars, lead, batch, cur, outcome, recVars, budget>>

MayAdvance(w) ==
    /\ Leader(w)
    /\ ~lease.armed
    /\ \A a \in Aggregates, r \in Revs :
          outbox[a][r].st = "absent" \/ outbox[a][r].gen # lead[w].gen

\* Mutant: no way out of a generation that another owner confirmed.
NeverAdvance(w) ==
    /\ pc[w] = "advance"
    /\ Goto(w, "release")
    /\ UNCHANGED <<pgVars, neoVars, lead, batch, cur, outcome, recVars, budget>>

AdvanceConfirmedGeneration(w) ==
    /\ pc[w] = "advance"
    /\ \/ /\ MayAdvance(w)
          /\ lease' = [lease EXCEPT !.gen = @ + 1]
          /\ lead' = [lead EXCEPT ![w] = [gen |-> lease.gen + 1, armed |-> FALSE]]
          /\ Goto(w, "reactivate")
       \/ /\ ~MayAdvance(w)
          /\ Goto(w, "release")
          /\ UNCHANGED <<lease, lead>>
    /\ UNCHANGED <<outbox, pgRev, neoVars, batch, cur, outcome, recVars, budget>>

ReactivateGeneration(w) ==
    /\ pc[w] = "reactivate"
    /\ \/ /\ FenceAccepts(w, TRUE)
          /\ fence' = [fence EXCEPT !.gen = lead[w].gen, !.owner = w]
          /\ Goto(w, "arm")
       \/ /\ ~FenceAccepts(w, TRUE)
          /\ Goto(w, "release")
          /\ UNCHANGED fence
    /\ UNCHANGED <<pgVars, cursor, graph, lead, batch, cur, outcome, recVars, budget>>

ArmLeadership(w) ==
    /\ pc[w] = "arm"
    /\ \/ /\ Leader(w)
          /\ lease' = [lease EXCEPT !.armed = TRUE]
          /\ Goto(w, "claim")
       \/ /\ ~Leader(w)
          /\ Goto(w, "release")
          /\ UNCHANGED lease
    /\ UNCHANGED <<outbox, pgRev, neoVars, lead, batch, cur, outcome, recVars, budget>>
-----------------------------------------------------------------------------
\* Rows that still hold back the later revisions of their aggregate.
Outstanding(row) == row.st = "pending"

Claimable(w, a, r) ==
    /\ Outstanding(outbox[a][r])
    /\ outbox[a][r].ready
    /\ ~outbox[a][r].live \/ outbox[a][r].gen # lead[w].gen
    /\ \A q \in 1..(r - 1) : ~Outstanding(outbox[a][q])

Candidates(w) == {s \in Aggregates \X Revs : Claimable(w, s[1], s[2])}

\* ORDER BY available_at, id LIMIT n: all of them, or some n of them.
Batches(w) ==
    {S \in SUBSET Candidates(w) :
        \/ S = Candidates(w) /\ Cardinality(S) <= BatchSize
        \/ Cardinality(S) = BatchSize}

ClaimOf(a, r) == [agg |-> a, rev |-> r, ev |-> outbox[a][r].ev,
                  ver |-> outbox[a][r].ver + 1, snap |-> pgRev[a]]

\* An empty batch ends the pass with the leadership kept, also when the
\* leader check of the statement found no row.
ClaimPending(w) ==
    /\ pc[w] = "claim"
    /\ \/ /\ ArmedLeader(w)
          /\ \E S \in Batches(w) :
                /\ outbox' = [a \in Aggregates |-> [r \in Revs |->
                      IF <<a, r>> \in S
                      THEN [outbox[a][r] EXCEPT !.owner = w, !.gen = lead[w].gen,
                                                !.ver = @ + 1, !.live = TRUE]
                      ELSE outbox[a][r]]]
                /\ batch' = [batch EXCEPT ![w] = {ClaimOf(s[1], s[2]) : s \in S}]
                /\ Goto(w, IF S = {} THEN "idle" ELSE "next")
       \/ /\ ~ArmedLeader(w)
          /\ Goto(w, "idle")
          /\ UNCHANGED <<outbox, batch>>
    /\ UNCHANGED <<lease, pgRev, neoVars, lead, cur, outcome, recVars, budget>>

\* The WHERE clause of every compare-and-set on a claimed row.
Holds(w, c) ==
    LET row == outbox[c.agg][c.rev] IN
    /\ row.st \in {"pending", "exhausted"}
    /\ row.ev = c.ev
    /\ row.owner = w
    /\ row.gen = lead[w].gen
    /\ row.ver = c.ver
    /\ row.live

\* A renewal extends two live leases, so it changes neither in this model;
\* refused, it ends the pass.
RenewClaim(w) ==
    /\ pc[w] = "next"
    /\ \E c \in batch[w] :
          \/ /\ ArmedLeader(w) /\ Holds(w, c)
             /\ cur' = [cur EXCEPT ![w] = c]
             /\ batch' = [batch EXCEPT ![w] = @ \ {c}]
             /\ Goto(w, "apply")
          \/ /\ ~(ArmedLeader(w) /\ Holds(w, c))
             /\ batch' = [batch EXCEPT ![w] = {}]
             /\ Goto(w, "release")
             /\ UNCHANGED cur
    /\ UNCHANGED <<pgVars, neoVars, lead, outcome, recVars, budget>>

FenceAdmits(w) == /\ fence.rec = None
                  /\ fence.gen = lead[w].gen
                  /\ fence.owner = w

\* _LOCK_FENCE_AND_CURSOR: the claim against the aggregate's cursor.
Status(c) ==
    LET k == cursor[c.agg] IN
    IF c.rev > k.rev THEN "applied"
    ELSE IF c.rev < k.rev THEN "superseded"
    ELSE IF c.ev # k.ev THEN "conflict"
    ELSE IF c.ver < k.ver THEN "superseded"
    ELSE "already_current"

\* The committed effect of apply on Neo4j.
Project(w, c) ==
    /\ graph' = IF Status(c) = "applied"
                THEN [graph EXCEPT ![c.agg] = c.snap] ELSE graph
    /\ cursor' = IF Status(c) \in {"applied", "already_current"}
                 THEN [cursor EXCEPT ![c.agg] = [rev |-> c.rev, gen |-> lead[w].gen,
                                                 ver |-> c.ver, ev |-> c.ev]]
                 ELSE cursor

Apply(w) ==
    /\ pc[w] = "apply"
    /\ \/ /\ FenceAdmits(w)
          /\ Project(w, cur[w])
          /\ outcome' = [outcome EXCEPT ![w] =
                IF Status(cur[w]) = "conflict" THEN "conflict" ELSE "ok"]
          /\ Goto(w, "mark")
          /\ UNCHANGED batch
       \/ /\ ~FenceAdmits(w)
          /\ Goto(w, "release")
          /\ batch' = [batch EXCEPT ![w] = {}]
          /\ UNCHANGED <<graph, cursor, outcome>>
    /\ UNCHANGED <<pgVars, fence, lead, cur, recVars, budget>>

\* apply raised, or returned MISSING_NODE, INVALID_EVENT or ERROR; after an
\* exception the transaction may have committed all the same.
ApplyFails(w) ==
    /\ pc[w] = "apply"
    /\ faults > 0
    /\ \/ UNCHANGED <<graph, cursor>>
       \/ FenceAdmits(w) /\ Project(w, cur[w])
    /\ outcome' = [outcome EXCEPT ![w] = "fail"]
    /\ Goto(w, "mark")
    /\ faults' = faults - 1
    /\ UNCHANGED <<pgVars, fence, lead, batch, cur, recVars, upkeep>>

\* After a claim is settled: the next one, or the end of the pass.
Continue(w) == /\ Goto(w, IF batch[w] = {} THEN "idle" ELSE "next")
               /\ UNCHANGED batch
GiveUp(w) == /\ Goto(w, "release")
             /\ batch' = [batch EXCEPT ![w] = {}]

\* Mutant: settles every other waiting revision, newer ones too.
DeliveredAll(w, c) ==
    [outbox EXCEPT ![c.agg] = [r \in Revs |->
        IF outbox[c.agg][r].st \in {"pending", "exhausted"}
        THEN [outbox[c.agg][r] EXCEPT !.st = "delivered", !.live = FALSE, !.owner = None]
        ELSE outbox[c.agg][r]]]

Delivered(w, c) ==
    [outbox EXCEPT ![c.agg] = [r \in Revs |->
        IF r = c.rev
        THEN [outbox[c.agg][r] EXCEPT !.st = "delivered", !.live = FALSE, !.owner = None]
        ELSE IF r < c.rev /\ outbox[c.agg][r].st = "exhausted"
        THEN [outbox[c.agg][r] EXCEPT !.st = "superseded", !.live = FALSE, !.owner = None]
        ELSE outbox[c.agg][r]]]

MarkDelivered(w) ==
    /\ pc[w] = "mark"
    /\ outcome[w] = "ok"
    /\ \/ /\ ArmedLeader(w) /\ Holds(w, cur[w])
          /\ outbox' = Delivered(w, cur[w])
          /\ Continue(w)
       \/ /\ ~(ArmedLeader(w) /\ Holds(w, cur[w]))
          /\ GiveUp(w)
          /\ UNCHANGED outbox
    /\ cur' = [cur EXCEPT ![w] = None]
    /\ outcome' = [outcome EXCEPT ![w] = "none"]
    /\ UNCHANGED <<lease, pgRev, neoVars, lead, recVars, budget>>

Failed(row) ==
    [row EXCEPT !.tries = @ + 1, !.live = FALSE, !.owner = None, !.ready = FALSE,
                !.st = IF row.tries + 1 >= MaxAttempts THEN "exhausted" ELSE @]

\* A history conflict also abandons the rest of the batch.
MarkFailed(w) ==
    /\ pc[w] = "mark"
    /\ outcome[w] \in {"fail", "conflict"}
    /\ \/ /\ ArmedLeader(w) /\ Holds(w, cur[w])
          /\ outbox' = [outbox EXCEPT ![cur[w].agg][cur[w].rev] = Failed(@)]
          /\ IF outcome[w] = "conflict"
             THEN Goto(w, "idle") /\ batch' = [batch EXCEPT ![w] = {}]
             ELSE Continue(w)
       \/ /\ ~(ArmedLeader(w) /\ Holds(w, cur[w]))
          /\ GiveUp(w)
          /\ UNCHANGED outbox
    /\ cur' = [cur EXCEPT ![w] = None]
    /\ outcome' = [outcome EXCEPT ![w] = "none"]
    /\ UNCHANGED <<lease, pgRev, neoVars, lead, recVars, budget>>

\* Mutant: writes the empty string where the column must be NULL.
ReleasedLeaseBlank(w) ==
    IF Leader(w) THEN [lease EXCEPT !.owner = "", !.live = FALSE] ELSE lease

\* release_leadership keeps the armed generation.
ReleasedLease(w) ==
    IF Leader(w) THEN [lease EXCEPT !.owner = None, !.live = FALSE] ELSE lease

ReleaseLeadership(w) ==
    /\ pc[w] = "release"
    /\ lease' = ReleasedLease(w)
    /\ lead' = [lead EXCEPT ![w] = NoLead]
    /\ cur' = [cur EXCEPT ![w] = None]
    /\ Goto(w, "idle")
    /\ UNCHANGED <<outbox, pgRev, neoVars, batch, outcome, recVars, budget>>
-----------------------------------------------------------------------------
(* Faults and the passage of time.                                         *)

Running(w) == pc[w] \notin {"stopping", "dead"}
Fault == faults > 0 /\ faults' = faults - 1
Drop(w) == /\ batch' = [batch EXCEPT ![w] = {}]
           /\ cur' = [cur EXCEPT ![w] = None]
           /\ outcome' = [outcome EXCEPT ![w] = "none"]

\* An exception ends the pass (_run_loop catches it); since it may hit after
\* the previous step committed, this is also a lost reply.
Abort(w) ==
    /\ pc[w] \notin {"idle", "stopping", "dead"}
    /\ Fault
    /\ Drop(w)
    /\ Goto(w, "idle")
    /\ UNCHANGED <<pgVars, neoVars, lead, recVars, upkeep>>

Crash(w) ==
    /\ pc[w] # "dead"
    /\ Fault
    /\ Drop(w)
    /\ Goto(w, "dead")
    /\ UNCHANGED <<pgVars, neoVars, lead, recVars, upkeep>>

\* stop(): cancel the task, wherever it is, then release the leadership.
Stop(w) ==
    /\ Running(w)
    /\ Fault
    /\ Drop(w)
    /\ Goto(w, "stopping")
    /\ UNCHANGED <<pgVars, neoVars, lead, recVars, upkeep>>

StopRelease(w) ==
    /\ pc[w] = "stopping"
    /\ lease' = ReleasedLease(w)
    /\ lead' = [lead EXCEPT ![w] = NoLead]
    /\ Goto(w, "dead")
    /\ UNCHANGED <<outbox, pgRev, neoVars, batch, cur, outcome, recVars, budget>>

\* leased_until passes: always in the end when the owner is gone, and as a
\* fault when the owner is merely slow.
OwnerGone == \E w \in Workers : lease.owner = w /\ pc[w] = "dead"
LeaseExpires ==
    /\ lease.live
    /\ \/ OwnerGone /\ UNCHANGED faults
       \/ Fault
    /\ lease' = [lease EXCEPT !.live = FALSE]
    /\ UNCHANGED <<outbox, pgRev, neoVars, workerVars, recVars, upkeep>>

InHand(w, a, r) ==
    \/ \E c \in batch[w] : c.agg = a /\ c.rev = r
    \/ pc[w] \in {"apply", "mark"} /\ cur[w].agg = a /\ cur[w].rev = r

ClaimExpires(a, r) ==
    /\ outbox[a][r].live
    /\ \/ (\A w \in Workers : ~InHand(w, a, r)) /\ UNCHANGED faults
       \/ Fault
    /\ outbox' = [outbox EXCEPT ![a][r].live = FALSE]
    /\ UNCHANGED <<lease, pgRev, neoVars, workerVars, recVars, upkeep>>

\* available_at passes.
BackoffElapses(a, r) ==
    /\ outbox[a][r].st = "pending"
    /\ ~outbox[a][r].ready
    /\ outbox' = [outbox EXCEPT ![a][r].ready = TRUE]
    /\ UNCHANGED <<lease, pgRev, neoVars, workerVars, recVars, budget>>
-----------------------------------------------------------------------------
(* Recovery: one process p running recover_projection_lineage.             *)

RGoto(p, l) == rpc' = [rpc EXCEPT ![p] = l]

\* The interlock of a new recovery: a generation of its own, unarmed.
StartedLease(id) ==
    [lease EXCEPT !.owner = id, !.gen = @ + 1, !.live = TRUE,
                  !.armed = FALSE, !.rec = id, !.phase = "prepared"]

\* Refused (another recovery, or a live projector lease) the process exits
\* and the operator runs it again later: it stays at "start".
PrepareRecovery(p) ==
    LET id == RecoveryOf[p] IN
    /\ rpc[p] = "start"
    /\ \/ /\ lease.rec = id                                   \* resumed
          /\ lease.owner = id
          /\ lease' = [lease EXCEPT !.live = TRUE]
          /\ rstate' = [rstate EXCEPT ![p] = [gen |-> lease.gen, phase |-> lease.phase]]
          /\ RGoto(p, "reset")
          /\ UNCHANGED outbox
       \/ /\ lease.rec = None                                 \* completed
          /\ lease.lastDone = id
          /\ RGoto(p, "done")
          /\ UNCHANGED <<lease, outbox, rstate>>
       \/ /\ lease.rec = None                                 \* started
          /\ lease.lastDone # id
          /\ ~lease.live
          /\ lease' = StartedLease(id)
          /\ outbox' = Requeued
          /\ rstate' = [rstate EXCEPT ![p] = [gen |-> lease.gen + 1, phase |-> "prepared"]]
          /\ RGoto(p, "reset")
    /\ UNCHANGED <<pgRev, neoVars, workerVars, budget>>

\* Mutant: wipes without comparing generations.
ResetAcceptedAnyGeneration(p) == fence = NoFence \/ fence.rec \in {None, RecoveryOf[p]}

\* _OBSERVE_RECOVERY_FENCE.
ResetAccepted(p) ==
    LET id == RecoveryOf[p] IN
    \/ fence = NoFence
    \/ fence.rec = id /\ fence.gen <= rstate[p].gen
    \/ fence.rec = None /\ fence.gen < rstate[p].gen
    \/ /\ rstate[p].phase = "neo_ready"
       /\ fence.rec = None
       /\ fence.gen = rstate[p].gen
       /\ fence.owner = id

ResetForRecovery(p) ==
    /\ rpc[p] = "reset"
    /\ \/ /\ ResetAccepted(p)
          /\ graph' = [a \in Aggregates |-> 0]
          /\ cursor' = [a \in Aggregates |-> NoCursor]
          /\ fence' = [gen |-> rstate[p].gen, owner |-> RecoveryOf[p],
                       rec |-> RecoveryOf[p]]
          /\ RGoto(p, IF rstate[p].phase = "prepared" THEN "ready" ELSE "finneo")
       \/ /\ ~ResetAccepted(p)
          /\ RGoto(p, "start")
          /\ UNCHANGED neoVars
    /\ UNCHANGED <<pgVars, workerVars, rstate, budget>>

HoldsRecovery(p) == /\ lease.rec = RecoveryOf[p]
                    /\ lease.owner = RecoveryOf[p]
                    /\ lease.gen = rstate[p].gen
                    /\ lease.live

MarkNeoReady(p) ==
    /\ rpc[p] = "ready"
    /\ \/ /\ HoldsRecovery(p)
          /\ lease' = [lease EXCEPT !.phase = "neo_ready", !.armed = TRUE]
          /\ rstate' = [rstate EXCEPT ![p].phase = "neo_ready"]
          /\ RGoto(p, "finneo")
       \/ /\ ~HoldsRecovery(p)
          /\ RGoto(p, "start")
          /\ UNCHANGED <<lease, rstate>>
    /\ UNCHANGED <<outbox, pgRev, neoVars, workerVars, budget>>

FinalizeNeoAccepted(p) ==
    /\ fence # NoFence
    /\ fence.gen = rstate[p].gen
    /\ fence.owner = RecoveryOf[p]
    /\ fence.rec \in {RecoveryOf[p], None}

\* Mutant: confirms the reset but leaves the marker.
FinalizeNeoKeepsMarker(p) ==
    /\ rpc[p] = "finneo"
    /\ RGoto(p, IF FinalizeNeoAccepted(p) THEN "finpg" ELSE "start")
    /\ UNCHANGED <<pgVars, neoVars, workerVars, rstate, budget>>

FinalizeNeo(p) ==
    /\ rpc[p] = "finneo"
    /\ \/ /\ FinalizeNeoAccepted(p)
          /\ fence' = [fence EXCEPT !.rec = None]
          /\ RGoto(p, "finpg")
       \/ /\ ~FinalizeNeoAccepted(p)
          /\ RGoto(p, "start")
          /\ UNCHANGED fence
    /\ UNCHANGED <<pgVars, cursor, graph, workerVars, rstate, budget>>

FinalizePg(p) ==
    /\ rpc[p] = "finpg"
    /\ \/ /\ HoldsRecovery(p)
          /\ lease.phase = "neo_ready"
          /\ lease.armed
          /\ lease' = [lease EXCEPT !.lastDone = lease.rec, !.rec = None,
                                    !.phase = "idle", !.owner = None, !.live = FALSE]
          /\ RGoto(p, "done")
       \/ /\ ~(HoldsRecovery(p) /\ lease.phase = "neo_ready" /\ lease.armed)
          /\ RGoto(p, "start")
          /\ UNCHANGED lease
    /\ UNCHANGED <<outbox, pgRev, neoVars, workerVars, rstate, budget>>

\* The process dies or raises; the runbook reruns it with the same id.
RecoveryCrash(p) ==
    /\ rpc[p] \notin {"start", "done"}
    /\ Fault
    /\ RGoto(p, "start")
    /\ UNCHANGED <<pgVars, neoVars, workerVars, rstate, upkeep>>
-----------------------------------------------------------------------------
WorkerStep(w) ==
    \/ AcquireLeadership(w) \/ AcquireRefused(w)
    \/ ActivateGeneration(w) \/ HasCursorEvidence(w)
    \/ AdvanceConfirmedGeneration(w) \/ ReactivateGeneration(w)
    \/ ArmLeadership(w) \/ ClaimPending(w) \/ RenewClaim(w)
    \/ Apply(w) \/ MarkDelivered(w) \/ MarkFailed(w)
    \/ ReleaseLeadership(w) \/ StopRelease(w)

RecoveryStep(p) ==
    \/ PrepareRecovery(p) \/ ResetForRecovery(p) \/ MarkNeoReady(p)
    \/ FinalizeNeo(p) \/ FinalizePg(p)

Next ==
    \/ \E a \in Aggregates : Stage(a) \/ Restage(a)
    \/ \E a \in Aggregates, r \in Revs :
          Purge(a, r) \/ ClaimExpires(a, r) \/ BackoffElapses(a, r)
    \/ \E w \in Workers :
          WorkerStep(w) \/ ApplyFails(w) \/ Abort(w) \/ Crash(w) \/ Stop(w)
    \/ LeaseExpires \/ RequeueFullProjection
    \/ \E p \in Recoverers : RecoveryStep(p) \/ RecoveryCrash(p)

Spec == Init /\ [][Next]_vars

(* The loop of a running projector goes on, time passes, and the operator  *)
(* reruns a recovery until it is accepted: a projector that the fence      *)
(* rejects takes the lease only for moments, hence strong fairness.        *)
Fairness ==
    /\ \A w \in Workers : WF_vars(WorkerStep(w))
    /\ WF_vars(LeaseExpires /\ OwnerGone /\ UNCHANGED faults)
    /\ \A a \in Aggregates, r \in Revs :
          /\ WF_vars(ClaimExpires(a, r) /\ UNCHANGED faults)
          /\ WF_vars(BackoffElapses(a, r))
    /\ \A p \in Recoverers : SF_vars(RecoveryStep(p))

FairSpec == Spec /\ Fairness
-----------------------------------------------------------------------------
(* Safety.                                                                 *)

\* A current revision that is not waiting in the outbox (delivered, or
\* delivered and purged) is the content Neo4j holds: no acknowledgement
\* survives the loss of the write it acknowledges, whichever worker, lease
\* or recovery came in between (mark_delivered, prepare_projection_recovery).
SettledIsProjected ==
    \A a \in Aggregates :
        (pgRev[a] > 0 /\ outbox[a][pgRev[a]].st \notin {"pending", "exhausted"})
            => graph[a] = pgRev[a]

\* While PostgreSQL says that a generation is armed and no recovery runs,
\* Neo4j's fence is at that generation and carries no recovery marker
\* (arm_leadership only follows a committed activation).
ArmedFenceAgrees ==
    (lease.armed /\ lease.rec = None /\ lease.gen > 0)
        => fence.gen = lease.gen /\ fence.rec = None

\* Past a committed activation: the fence is at its generation or beyond.
Fenced(w) == pc[w] \in {"arm", "claim", "next", "apply", "mark"}

\* Two workers never get past the fence under the same generation, although
\* an unarmed generation is handed from one owner to the next unchanged
\* (acquire_leadership, _ACTIVATE_GENERATION).
OneWorkerPerGeneration ==
    \A v, w \in Workers :
        (v # w /\ Fenced(v) /\ Fenced(w)) => lead[v].gen # lead[w].gen

\* "Release the interlock only after Neo4j removed its recovery marker"
\* (finalize_projection_recovery): a marker in Neo4j is always matched by
\* the interlock of the same recovery in PostgreSQL.
MarkerHasInterlock == fence.rec # None => lease.rec = fence.rec

\* What a worker may still write never collides with another history of the
\* same revision: the projector never meets a history conflict
\* (_LOCK_FENCE_AND_CURSOR, "Deleting delivered outbox rows is safe").
NoHistoryConflict == \A w \in Workers : outcome[w] # "conflict"

\* As long as no row was purged or requeued by hand: staging the same
\* relation again, retries and recoveries never fork a revision's history
\* (_stage_relation_in_session keeps the event of a row that is there).
HistoryConflictNeedsUpkeep == upkeep = MaxUpkeep => NoHistoryConflict

\* What Neo4j shows of an aggregate never goes back to an older revision,
\* except by the wipe of a recovery that holds the PostgreSQL interlock
\* (apply under a stale lease or out of order, reset_for_recovery).
GraphNeverRegresses ==
    [][\A a \in Aggregates : graph'[a] >= graph[a] \/ lease.rec # None]_vars

\* The fence never returns to an older generation, and it changes hands
\* only with a new generation or by a recovery (_ACTIVATE_GENERATION).
FenceOnlyAdvances ==
    [][/\ fence'.gen >= fence.gen
       /\ fence'.gen = fence.gen => fence'.owner = fence.owner]_vars

(* Liveness.                                                               *)

\* The projection converges: once the faults are over, every aggregate's
\* current content reaches Neo4j and stays, whatever step a crash, a lost
\* reply or an expired lease interrupted; in particular a crash between the
\* Neo4j activation and the PostgreSQL arm never wedges the projector
\* (advance_confirmed_generation).  Needs a surviving worker, a recovery
\* that installs the fence, and fewer failures than max_attempts.
Converges == <>[](\A a \in Aggregates : graph[a] = pgRev[a])
-----------------------------------------------------------------------------
(* The inductive invariants behind the safety properties: what the proofs  *)
(* in GraphProjectionProofs carry from step to step.                       *)

Waiting(a) == outbox[a][pgRev[a]].st \in {"pending", "exhausted"}

Working(w) == pc[w] \notin {"idle", "stopping", "dead"}

RowsExist == \A a \in Aggregates, r \in Revs :
    outbox[a][r].st # "absent" => r <= pgRev[a]

SoundClaim(c) == c.rev <= c.snap /\ c.snap <= pgRev[c.agg]
ClaimsSound == \A w \in Workers :
    /\ \A c \in batch[w] : SoundClaim(c)
    /\ pc[w] \in {"apply", "mark"} => cur[w] \in Claim /\ SoundClaim(cur[w])

ContentBounds == \A a \in Aggregates :
    cursor[a].rev <= graph[a] /\ graph[a] <= pgRev[a]

GenerationsBounded ==
    /\ fence.gen <= lease.gen
    /\ \A w \in Workers : lead[w].gen <= lease.gen
    /\ \A p \in Recoverers : rstate[p].gen <= lease.gen

FenceOwned ==
    /\ fence.gen >= 0 => fence.owner # None
    /\ fence.rec # None => fence.owner = fence.rec

FencedOwn == \A w \in Workers : Fenced(w) =>
    \/ fence.gen > lead[w].gen
    \/ fence.gen = lead[w].gen /\ fence.owner = w

\* No generation is ever both a recovery's and a projector's.
RecoveryApart ==
    /\ \A w \in Workers, p \in Recoverers :
          Working(w) => lead[w].gen # rstate[p].gen
    /\ (lease.rec = None /\ (~lease.armed \/ lease.owner \in Workers))
          => \A p \in Recoverers : rstate[p].gen # lease.gen
    /\ lease.rec # None => \A w \in Workers : lead[w].gen < lease.gen

AckedIsProjected == \A w \in Workers :
    (pc[w] = "mark" /\ outcome[w] = "ok") =>
        \/ cursor[cur[w].agg].rev >= cur[w].rev
        \/ fence.gen > lead[w].gen

SettledAtCursor == \A a \in Aggregates :
    (pgRev[a] > 0 /\ ~Waiting(a)) => cursor[a].rev >= pgRev[a]

\* A reset that the fence would still accept finds nothing settled to lose.
ResetLosesNothing ==
    ((lease.rec # None) \/ \E p \in Recoverers : fence.gen <= rstate[p].gen)
        => \A a \in Aggregates : pgRev[a] > 0 => Waiting(a)

IInv ==
    /\ TypeOK /\ RowsExist /\ ClaimsSound /\ ContentBounds
    /\ GenerationsBounded /\ FenceOwned /\ FencedOwn /\ OneWorkerPerGeneration
    /\ RecoveryApart /\ AckedIsProjected /\ SettledAtCursor /\ ResetLosesNothing

(* On top of it: what the graph shows while a worker still holds claims,   *)
(* who may have written it, and how a recovery, the interlock and the      *)
(* fence stand to each other.                                              *)

\* Between claim_pending and the last acknowledgement of the batch.
InPass(w) == pc[w] \in {"next", "apply", "mark"}

\* The claims a worker may still apply.
Held(w) == batch[w] \cup {c \in {cur[w]} : pc[w] = "apply"}

\* Claims of one pass read an aggregate once, and the graph shows nothing
\* newer than what the holder of the fence is about to write.
SnapsFresh == \A w \in Workers : InPass(w) =>
    /\ \A c, d \in Held(w) : c.agg = d.agg => c.snap = d.snap
    /\ fence.gen = lead[w].gen => \A c \in Held(w) : graph[c.agg] <= c.snap

\* Nothing is in the graph until a worker activated the fence.
EmptyForRecovery == fence.owner \notin Workers => \A a \in Aggregates : graph[a] = 0

\* Past prepare_projection_recovery, not yet finalized.
Recovering(p) == rpc[p] \in {"reset", "ready", "finneo", "finpg"}

\* A recovery whose generation has not reached the fence is still to reset,
\* under an interlock that is not ready to be released.
RecoveryFenced ==
    /\ \A p \in Recoverers : (Recovering(p) /\ fence.gen < rstate[p].gen) =>
          rpc[p] = "reset" /\ lease.rec # None /\ lease.phase = "prepared"
    /\ (lease.rec # None /\ lease.phase = "neo_ready") => fence.gen >= lease.gen
    /\ lease.rec # None => lease.phase # "idle"

\* A generation is armed after the fence reached it.
ArmedReached == (lease.armed /\ lease.gen > 0) => fence.gen >= lease.gen

\* Before any purge or manual replay each revision has one event.
OneEvent ==
    /\ \A a \in Aggregates, r \in Revs :
          outbox[a][r].ev = IF outbox[a][r].st = "absent" THEN 0 ELSE 1
    /\ \A w \in Workers : InPass(w) => \A c \in Held(w) : c.ev = 1
    /\ \A a \in Aggregates : cursor[a].rev >= 0 => cursor[a].ev = 1
    /\ NoHistoryConflict

\* Stated for behaviours without such upkeep; after it nothing is claimed here.
EventsUnique == upkeep = MaxUpkeep => OneEvent

\* What every transaction of workers and recoveries preserves: the order of
\* generations, fence and interlock, and that claims, cursors and graph never
\* contradict the ledger (_project_batch, recover_projection_lineage).
ProtocolInv ==
    /\ IInv /\ SnapsFresh /\ EmptyForRecovery /\ RecoveryFenced
    /\ ArmedReached /\ EventsUnique
-----------------------------------------------------------------------------
(* The projection against its promise.                                     *)

\* What the outbox still owes the graph.
Owed == {a \in Aggregates : pgRev[a] > 0 /\ Waiting(a)}

M == INSTANCE Mirror WITH source <- pgRev, copy <- graph, owed <- Owed

\* Outbox, fence and recovery together keep a faithful mirror of the ledger:
\* whatever workers, crashes, replays and recoveries do, an aggregate leaves
\* the outbox only once the graph shows its current revision, and a reset
\* wipes the graph only while every published aggregate is owed to it.
ImplementsMirror == M!Spec
=============================================================================
