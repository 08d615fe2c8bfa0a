# brain-v42: a TLA+ verification project

brain-v42 is a shared memory for coding agents: an MCP server over PostgreSQL
(the canonical store) and Neo4j (a projection for graph reads), with a few
background processes (graph projector, delivery observer, nightly jobs) and
recovery scripts. This directory holds TLA+ models of the parts of it that are
hard to test, the TLC runs that check them and the proofs of what matters most.

## Inventory

| Component | State | Operations | Talks to | Hard because |
|---|---|---|---|---|
| Graph projection (`repositories/pg_graph_ledger.py`, `services/graph_outbox_projector.py`, `services/neo4j_graph_projection_writer.py`) | lease row, outbox rows with leases and claim versions, Neo4j fence, cursors, contents | acquire, activate, confirm, arm, claim, renew, apply, acknowledge, fail, release | two databases, no common transaction | stale leaders, crashes between two commits, duplicated and reordered writes |
| Projection recovery (`maintenance/graph_projection_recovery.py`) | interlock (id, phase) in the lease row, marker in the fence | prepare, reset, mark ready, finalize Neo4j, finalize PostgreSQL | the projector, through the lease and the fence | five commits in two stores, reruns, two operators |
| Retention (`repositories/pg_trace_retention.py`) | outbox rows | purge of delivered rows | the projection | forgets the history that the cursors remember |
| Ledger triggers (`alembic/versions/033_…`) | entities, relations, memberships | registry, membership and pointer triggers | every repository | cascades between tables |
| Observable delivery (`repositories/pg_delivery*.py`, `repositories/delivery_ticket_guard.py`, `models/delivery_evaluator.py`) | contract revisions, attempts, PR bindings, observations, contexts, claims, receipts | set contract, bind, claim, publish, accept, transition, attest | tickets, observer, agents | evidence collected for one generation and used for the next; expired claims |
| Delivery observer (`delivery_observer/runtime.py`, `ownership.py`, `repositories/pg_delivery_queue.py`) | advisory-lock ownership, due times | acquire, collect, publish, schedule | a forge over HTTP, delivery rows | slow collections, lost ownership, refreshes that race |
| Tickets (`repositories/pg_ticket.py`, `services/ticket_service.py`, `models/ticket.py`) | status, cross-project role | transition by compare-and-set | delivery guard | two sides with different rights |
| Sessions (`repositories/pg_brain_session.py`, `db/session_derived_capture.py`, `maintenance/session_sweep.py`, `services/agent_trace_net.py`) | session rows, the connections each was seen on, an exclusive ledger of artifacts | start, bind, capture, absorb, end, relay, abandon, sweep | focus slots, project focus | statements of several transactions under READ COMMITTED, retried relays |
| Traces (`mcp/session_autoopen.py`, `mcp/provenance_middleware.py`) | memo of open traces, memory of ended connections | ensure open, observe, close | sessions | a connection that ends while a call awaits the database |
| Focus slots (`repositories/pg_focus_slot.py`, `db/focus_slots.py`) | slots and their anchors | open, bind, close by hand, close by receipt | sessions, delivery receipts | an open and a receipt that must not miss each other |
| Credentials (`repositories/pg_client_credentials.py`, `credentials/`) | registry, snapshot per process, elevations, audit outbox | issue, revoke, refresh, verify, elevate, end, drain | every tool call | a decision taken from a snapshot after a revocation |
| HTTP sessions (`mcp/server.py`) | live transports | open, evict, refuse | clients | bound reached while closing |
| Access counts (`services/access_logger.py`, `services/decay_flusher.py`, `repositories/pg_access_log.py`) | queue per process, `access_log`, counters, journal, freshness | log, insert, drain, score | knowledge entities | rows that appear during a drain, several flushers, values read before and written after |
| Merge chains (`services/consolidation.py`, `services/proposal_service.py`, migration 068) | `merged_into` pointers | merge, direct write, deferred check | knowledge entities | write skew between two merges |
| Triage (`scripts/ticket_extract.py`, `services/proposal_service.py`) | extraction status, proposals | draft, store, apply, reject | tickets | two runs, two last decisions |
| Automation (`automation/ownership.py`, `automation/runtime.py`) | advisory lock, heartbeat, shutdown | acquire, watch, lose, stop work, release | a forge's webhooks | a dead backend whose process does not know; a release that takes any time |
| Credential rotation (`scripts/rotate_codex_gateway_credentials.py`, `deploy/brain-shrik-env-control`) | two role passwords, five files, a journal, a lock, helper processes | apply, resume, finalise, roll back, publish | operator, gateway | killed or failing between any two changes; a helper that outlives the script |
| Knowledge entities, programmes, project context, search, embeddings, knowledge lifecycle, facts and claims, dream runs, agents, plan index, roadmap, gateway, metrics | rows, caches | CRUD, ranking, rendering, process supervision | | see `PROJECT.json` "components" for what each keeps and why it is or is not modelled |

What makes each part correct: for the projection, that an acknowledged revision
is really in Neo4j, that a stale projector cannot write, and that the whole
always makes progress again; for delivery, that a receipt only certifies
evidence of the generation it names, that an old claim or an old observation
has no effect on a newer generation, and that what is due is observed; for
sessions, that no focus write is lost, that a retried relay finds its own
successor, that the ledger stays within its cap and that nothing stays open for
ever; for slots, that a satisfied slot is closed in every order of events; for
credentials, that a revoked token is refused within a bounded time; for access
counts, that a read is counted once or lost; for merges, that a merged row
points at a live one; for triage, that a ticket is done exactly when it is
decided; for the automation, that two live owners never work at once and a dead
one stops admitting work within a bounded time; for the rotation of credentials,
that no mixture of generations is left without the journal that undoes it.

## Plan

Done: `GraphProjection` and the abstract `Mirror` it implements; `Delivery`;
`DeliveryLocks` (the locks of delivery, slots and sessions); `Sessions`;
`AutoOpener`; `Credentials` and `CredentialAudit`; `AccessCounts` with the
abstract `CountOnce`; `MergeChains`; `Triage`; `AutomationLease`;
`CredentialRotation`. Every safety property and both refinements are proved for
every value of the constants; eight modules hold the proofs, the smaller
components sharing them by subject:

| Proof module | About |
|---|---|
| `GraphProjectionProofs` | `GraphProjection`, and that it implements `Mirror` |
| `DeliveryProofs` | `Delivery` |
| `DeliveryLocksProofs` | `DeliveryLocks` |
| `SessionsProofs` | `Sessions` |
| `CredentialProofs` | `Credentials`, `CredentialAudit`, `CredentialRotation` |
| `CurationProofs` | `MergeChains`, `Triage` |
| `RuntimeProofs` | `AutomationLease`, `AutoOpener` |
| `AccessCountsProofs` | `AccessCounts`, which implements `CountOnce` |

What a next version would model: `GraphLedger` (the membership and pointer
triggers of migration 033, as the refinement of `Stage`), checkpoints, the HTTP
session bound, dream runs.

## GraphProjection

### What it models

One variable per table, node or piece of process state: `lease`
(`graph_projection_leases`), `outbox` (`graph_outbox`, by aggregate and
revision), `pgRev` (the revision columns of `brain_entities` and
`entity_relations`), `fence` (`BrainProjectionFence`), `cursor`
(`BrainProjectionCursor`), `graph` (the revision whose content Neo4j shows),
`pc`/`lead`/`batch`/`cur`/`outcome` (a projector's progress through
`_project_batch`) and `rpc`/`rstate` (a recovery's progress through
`recover_projection_lineage`). Each database transaction is one action named
after its method; a method that can be refused has both outcomes, as the two
disjuncts of its action.

| Code | Actions |
|---|---|
| `_stage_relation_in_session`, entity triggers | `Stage`, `Restage` |
| `purge_delivered_outbox`, `requeue_full_projection` | `Purge`, `RequeueFullProjection` |
| `acquire_leadership` … `release_leadership` | `AcquireLeadership`, `AcquireRefused`, `ArmLeadership`, `AdvanceConfirmedGeneration`, `ReleaseLeadership` |
| `activate_generation`, `has_cursor_evidence` | `ActivateGeneration`, `HasCursorEvidence`, `ReactivateGeneration` |
| `claim_pending`, `renew_claim`, `apply`, `mark_delivered`, `mark_failed` | `ClaimPending`, `RenewClaim`, `Apply`, `ApplyFails`, `MarkDelivered`, `MarkFailed` |
| `recover_projection_lineage` | `PrepareRecovery`, `ResetForRecovery`, `MarkNeoReady`, `FinalizeNeo`, `FinalizePg` |
| exceptions, `stop()`, process death, clocks | `Abort`, `Stop`, `StopRelease`, `Crash`, `RecoveryCrash`, `LeaseExpires`, `ClaimExpires`, `BackoffElapses` |

Clocks are abstract: a lease is live or not and expires by a step. A lease may
expire under a live owner that is merely slow, at the cost of one fault; it
expires for free once the owner is gone. A content is the revision the claim's
statement read, so an apply of an old claim that read a newer row writes the
newer content, as the code does. A Neo4j exception may hide a commit, so
`ApplyFails` has both outcomes.

### Runs

| Run | Instance | Shows |
|---|---|---|
| `projection_safety` | 1 aggregate, 2 revisions, 2 workers, 3 recovery processes of 2 ids, 1 fault, purge or requeue (`OneDisturbance`) | types; `ProtocolInv`, the invariant of the proofs; `SettledIsProjected`; `OneWorkerPerGeneration`; `HistoryConflictNeedsUpkeep`; `GraphNeverRegresses`; `FenceOnlyAdvances`; `ImplementsMirror` |
| `progress` (see below) | 1 aggregate, 2 workers, 1 recovery, 1 fault, 1 purge or requeue, under fairness | `Converges`; `MarkerHasInterlock`; `ArmedFenceAgrees` |
| `projection_purged` | retention then staging of an unchanged relation | finding: violated |
| `projection_rerun` | two processes of one recovery id, no fault | finding: violated |

`Mirror` is what the projection promises, with none of its machinery: a source,
a copy and what is still owed. The copy moves forward and never past the
source, an aggregate stops being owed only when its copy is current, and the
copy is only thrown away while all of it is owed again. `ImplementsMirror`
maps the source to `pgRev`, the copy to `graph` and the owed aggregates to
those whose current outbox row waits (`Owed`).

Bounds. Two revisions give an older and a newer one, hence supersession,
out-of-order failures and the "earlier revision outstanding" rule; two workers
give every takeover; three recovery processes give a second process of one id
and a recovery with another one; two attempts let a row be retried and be
exhausted. Batches of several aggregates are covered by the theorems, which
hold for any number of them. `CHECK_DEADLOCK FALSE`: with every fault spent,
every worker dead and every recovery done the system rests.

Fairness (in `MCProgress`): weak for a running worker (its loop never stops on an
exception) and for the passage of time; strong for a recovery, because a
projector that the fence rejects takes the lease for a moment in every pass, so
the recovery is enabled again and again rather than continuously, and the
operator reruns it until it is accepted. Without a fence nothing is projected
(migration 034 creates none), so `Converges` needs the first recovery.

### Findings

`projection_purged`: the retention docstring says that deleting delivered rows
is safe; staging the unchanged relation afterwards re-inserts its row with a
new event id at a revision whose cursor holds the old one, and the projector
meets a history conflict until the row is exhausted. `projection_rerun`: two
live processes of one recovery id can leave the marker in Neo4j after the
interlock is released. Both are `doc_code_divergence`s with their lines in
`PROJECT.json`; both runs have no faults at all. `SettledIsProjected` and the
whole of `ProtocolInv` hold in spite of both.

### Proofs (`GraphProjectionProofs`)

For every value of the constants that `ConstantsAssumption` allows (any
aggregates, workers, recoveries, ids, revisions, attempts, batch size, faults):

- `InvariantHolds`, `ProtocolInvariant`: `Spec => []IInv`, `Spec => []ProtocolInv`;
- `TypeCorrect`, `SettledIsAlwaysProjected`, `OneWorkerAlways`,
  `NoConflictWithoutUpkeep`: corollaries;
- `FenceAlwaysAdvances`, `GraphNeverGoesBack`: action properties;
- `ProjectionImplementsMirror`: `Spec => ImplementsMirror`, the refinement;
- `MarkerAlwaysInterlocked`, `ArmedAlwaysFenced`: under `OneProcessPerId`, that
  no two recovery processes run with one id. The runbook does not guarantee it,
  and `projection_rerun` shows that the first fails without it, so it is a
  hypothesis of these two theorems and not an assumption on the constants.

`SettledIsProjected` is not inductive: why a late acknowledgement is harmless
depends on how leases, fence, claims and cursors relate. `IInv` has one named
part for each link: generations never run ahead of the lease
(`GenerationsBounded`); a worker past the fence shares its generation with
nobody (`FencedOwn`) and with no recovery (`RecoveryApart`); a settled row is
at most at its cursor (`SettledAtCursor`); what a worker may still acknowledge
is projected (`AckedIsProjected`); and a reset that the fence would still
accept finds nothing settled that it could lose (`ResetLosesNothing`). The
argument of the key step: a worker that still passes the compare-and-set of
`mark_delivered` holds the armed lease, so no recovery started since its write,
so the write is still there, and its row was not replaced (same event id and
claim version), so it stands for the revision written. Each action has an
effect lemma (its frame), then one step per part it can disturb.

`ProtocolInv` adds what the remaining properties need:

- `SnapsFresh`, for the forward motion of the graph. A claim carries the
  content its statement read, which may be newer than the claim's own revision,
  so the cursor alone does not order contents. While a worker's generation is
  the fence's, nobody else writes; when it claimed, the graph was behind the
  ledger, hence behind everything it read; and all its claims of one aggregate
  read the same content. So each apply moves forward or changes nothing.
- `RecoveryFenced` and `EmptyForRecovery`, for the reset of a recovery that lost
  its interlock meanwhile. Once the interlock is released the fence has reached
  the recovery's generation, so a late reset is accepted only while the fence is
  still owned by the recovery, and then the graph is still empty.
- `EventsUnique`, for `HistoryConflictNeedsUpkeep`: without upkeep each revision
  has one event in outbox, claims and cursors. A new row can only be inserted
  where none was (`RowKept`).
- `ArmedReached`: a generation is armed after the fence reached it.

The refinement maps every step (`MirrorStep`): staging publishes
(`StagePublishes`); an apply that the fence admits copies forward
(`ProjectForward`) or stutters; an accepted reset is a wipe, allowed because
everything published waits (`ResetLosesNothing`); an acknowledgement settles its
aggregate, whose current revision is shown (`DeliverySettles`), or stutters;
every other step leaves ledger and graph alone and can only add to what is owed.

Only model-checked: `Converges` (liveness is outside the prover's reach).

## Delivery

### What it models

A requester attaches a contract (deliverables, dependencies on other tickets'
milestones, a required repository document) to a request ticket; the executor
binds a pull request to each deliverable; the observer polls the forge and
publishes what it saw; PostgreSQL issues receipts, and only a receipt lets the
ticket be completed. A generation is a contract revision with an attempt:
amending starts a revision, reopening an attempt.

`wf` is `delivery_workflows`, `contracts` the stored revisions with their
dependencies, `rows` `delivery_artifact_bindings` with the evidence each points
to, `receipts` `delivery_receipts`, `token` what each agent remembers of its
last claim, `prs` the forge, `lock` and `obs` the observer processes with the
jobs in flight, `asked` a history of refreshes that nothing has picked up.

| Code | Definitions |
|---|---|
| `evaluate_delivery` and its findings | `Missing`, `AllGreen`, `AllMerged`, `ContextMet`, `DependencyMet`, `Fresh`, `Underway`, `Satisfied`, `HasWork`, `MayComplete` |
| `set_contract`, `_validate_dependencies`, `bind_pr`, `refresh` | `SetContract`, `Reached`, `ValidUpstreams`, `BindPr`, `Refresh` |
| `acquire`, `renew`, `release` of claims | `AcquireClaim`, `ClaimAccepted`, `ReleaseClaim`, `ClaimExpires` |
| `accept`, `_issue_integration_receipt_under_scope` | `Accept`, `Issued` |
| `guard_delivery_transition`, `apply_transition` | `Transition`, `NewDisposition`, `Mutated` |
| `ObserverOwnership` | `AcquireOwnership`, `LoseOwnership`, `ReleaseOwnership`, `Disconnect`, `Restart` |
| `due`, `_observe`, `publish_*`, `record_*`, `schedule_after` | `Capture`, `Collect`, `Publish`, `Defer`, `DueElapses` |
| the forge and the clock (external) | `Push`, `Review`, `Merge`, `GoesStale` |

A transaction is one step: every decision holds the graph lock and the rows of
all the tickets it reads. A collection takes two steps outside any transaction,
so everything can happen between a capture, the answer of the forge and the
publication. Row versions and due times are only ever compared with what the
job captured, so a job carries two bits, "still the same version" and "still
the same due time", which the operations that change them clear (`Moved`).
Checks, reviews and drafts are one bit, `green`; a merge is final at the forge
and keeps its head. A renewal leaves a live claim live and is no step of its own.

### Runs

| Run | Instance | Shows |
|---|---|---|
| `delivery_receipts` | 1 self ticket, 2 deliverables, 2 pull requests, 3 bindings | types; `ReceiptsAreTrue` |
| `delivery_lifecycle` | 1 ticket, 2 agents, 2 revisions, 2 attempts, 2 bindings, 2 acquisitions | `FulfilledIsProven`, `DispositionAgrees`, `ClaimsFenced` |
| `delivery_queue` | 2 observers, 1 fault, refreshes, with and without context | `RefreshStaysQueued`, `EvidenceMovesForward`; under fairness `DeliveryIsCertified` |
| `delivery_chain` | 2 tickets, the second waits for the acceptance of the first, 2 revisions each | `ReceiptsFollowDependencies` |
| `symmetric` (see below) | 3 tickets, 2 revisions each, any dependency | `DependenciesAcyclic` |

Bounds. Two revisions and two attempts give every way in which something
outlives its generation; three bindings for two deliverables let one be
replaced while the other is proven; a cycle longer than the direct check needs
three tickets. `delivery_receipts` has one revision, attempt and head: that a
receipt stays true over amendments and reopenings is `ReceiptsTheorem`. A shared budget (`MaxFaults`) pays for failed collections, lost
backends, stops, stale evidence and withdrawn approvals; `Watched` and
`MaxClaims` switch refreshes and claims off where a run is not about them.
`CHECK_DEADLOCK FALSE`: once every ticket is closed the system rests.

Fairness: weak for the observer process, its supervisor and the clock that makes
a subject due; strong for capturing a subject, because the queue is served
oldest due time first, so that a subject that is due again and again is not
passed over for ever. Requesters, executors, agents and the forge owe nothing.
`DeliveryIsCertified` assumes that refreshes end (`RefreshesEnd`), and needs to:
a refresh during every collection of a required repository document keeps the
document due (`schedule_after` leaves a changed due time alone), and `due` holds
the bindings of a ticket back while its document is due, so a participant who
refreshes often enough keeps a merged delivery uncertified.

### Proofs (`DeliveryProofs`)

For any tickets, deliverables, pull requests, agents, observers and bounds that
`DeliveryAssumption` allows, all the safety properties of `Delivery`:
`ReceiptsTheorem`, `DependenciesTheorem`, `FulfilledTheorem`,
`DispositionTheorem`, `ClaimsTheorem`, `RefreshTheorem`, `AcyclicTheorem`, the
action property `EvidenceTheorem`, and `TypeCorrect`. The inductive invariant adds to the
properties themselves what a job in flight and a token in an agent's hand may
still know: the evidence of a binding was shown by the forge, for a revision that
exists (`RowsOK`); while a job's row version is current its evidence is no older
than the row's, and a job captured before a refresh knows that the due time
changed (`JobsOK`); the epoch of a claim never comes back, and while it is
current so are the generation it was given for and the contract (`TokensOK`); a
receipt is about a revision that exists and acceptance comes after integration
(`ReceiptsOK`). `ReceiptsAreTrue` follows because a receipt is issued from rows
in the transaction that reads them, and the forge never takes back what they
show: heads move forward and a merged head stays.

`DependenciesAcyclic` speaks of paths of any length, and its proof needs no
induction along them. `Reached(S)`, what the walk of `_validate_dependencies`
visits from `S`, is the least set of tickets that contains `S` and is closed
under the dependencies in force, so a ticket is not reached exactly when some
closed set holds `S` and leaves it out (`NotReached`). Every ticket has such a set
for its own upstreams. A new revision of `t` replaces the edges of `t` only, and the
check gave a closed set `D` that holds the new upstreams and not `t`: `D` is the
new set of `t`, and of another ticket `u` with the set `C` it is the intersection
of `C` and `D` if `u` is in `D`, and their union if it is not (`EdgesReplaced`).

Only model-checked: `DeliveryIsCertified` (liveness).

## The smaller components

Each has a module of its own. The ones that share no state are checked side by
side, which takes one run instead of one for each: in `MCComponents`, `MCSymmetric`
and `MCProgress` a variable `which` picks a component in the first state and only that one takes
steps; the other variables keep their initial values. Every property of a
component is then an invariant (or temporal property) of the whole, and nothing
is lost because the components do not meet. The components are extended, so that
run and theorem name the same definition (`Init`, `Next` and the type invariant
of each carry its name, as in `SessionsInit`, `RotationTypeOK`, `LocksNext`);
second instances are instantiated. `MCProgress` adds to each component
the fairness of its own loops, so that its liveness is checked.

`MCSymmetric` holds the three components whose properties need three of a kind:
the operators of `Sessions`, the invocations of `CredentialRotation` and the tickets
of a second instance of `Delivery`. The three sets are one set of model values, so
that its permutations, with those of the helper processes, are a symmetry of all of
them: no definition names one of the values, orders them or chooses among them, and
the run has safety properties only (885,713 distinct states with it). Two operators
would not do for `RelayReplayIsOwn`: there a successor's predecessor is the only
other session, and a session that ended on a conflict at the revision another's
relay left, whose retry must not find that relay's successor, needs a third.

| Module | One step is | Instance | Shows |
|---|---|---|---|
| `DeliveryLocks` | the wait for a lock, its grant, or the statement that follows | 2 tickets (one depends on the other), 2 pull requests, 3 slots on a pull request, on tickets and on a release, 1 session, 3 transactions from a menu of 9 kinds | `NoOpenSlotIsSatisfied`, `NoWaitCycle`, `ExplicitCloseLeavesNoSession` |
| `Sessions` | a command that locks its row, or one statement of an absorption or a capture | 3 operators, a slot and an update by hand (`symmetric`); 1 operator, 1 trace, 1 artifact (`progress`) | `RelayReplayIsOwn`, `OneAuthorPerRevision`, `NoGhostSession` |
| `AutoOpener` | what a task does between two awaits, or one awaited statement | 2 connections, 2 calls, 1 remembered connection, 1 failing statement | `NoOrphanTrace`, `MemoIsLive`, `EndedTraceCloses` |
| `Credentials` | what runs between two awaits, or one tick | 1 token, 1 verification, grace 2, refresh up to 3 | `RevocationIsBounded` |
| `CredentialAudit` | a gesture, or one statement of a drain | 1 elevation, 2 processes, 1 failing drain | `ExpiryAuditedOnce`, `GestureIsLogged` |
| `AccessCounts` | one statement of an insert or a flush | 2 processes, 3 reads of 2 entities, queue of 1 | `CountsEachReadOnce`: it implements `CountOnce` |
| `MergeChains` | one row lock, or one statement | 3 rows in any state without a chain, 2 transactions with every merge and direct write | `NoMergeChain` |
| `Triage` | one statement | 2 proposals, 2 runs, 2 reviewers | `DoneWhenTriaged` |
| `AutomationLease` | one heartbeat step, one await of the shutdown, or one tick | 2 processes, interval and timeout 1, clock to 5 | `OverlapIsBounded` |
| `CredentialRotation` | one file, one commit, one proof, or an exception before or after it; a helper's read or its replacement of the file | 3 invocations, 2 helpers, 2 new generations, with and without the gateway's file, root's file in either mode | `NoMixWithoutJournal`, `JournalCoversAll` |

Locks and snapshots. PostgreSQL's locks are modelled by what they exclude
(advisory locks and row locks with their modes, a queue in which a request
waits behind an earlier conflicting one), READ COMMITTED by reading what has
committed at the statement, and a row found locked is looked at again once it
is free. A writer that takes a foreign key's lock on a session row waits for a
command that holds it, which is what keeps most of the absorption's races apart
(`KeyLocked`, `Capturing`).

Time is abstract where only an order is compared (ages "fresh", "quiet" and
"stale" for the 4 hours and 7 days of sessions; an artifact remembers which
sessions had started and which were open when it was made) and a small counter
where a duration is promised (`Credentials`, `AutomationLease`). The bounds of
`RevocationIsBounded` and `OverlapIsBounded` are formulas over the constants.
The on-demand verification matches a snapshot it has just refreshed without
looking at its age, so the bound on a revoked token is the larger of the grace
and the length of one refresh.

Abstract specification of access counting. `CountOnce` knows reads, counters
and a journal: a read is held, counted or lost, and counting moves counter and
journal together. `AccessCounts` implements it for every interleaving of two
processes that queue, insert, drain, fail, stop and crash. `stop` flushes one
batch of at most 50 reads and loses the rest of its queue, by the code; entities
that have no row any more are journalled and not counted.

Rotation of credentials. The script changes two database passwords in one
transaction, then replaces five files, and may be killed or fail between any
two of these; the journal holds both generations. `NoMixWithoutJournal` rests on
the finalisation comparing every file: the gateway's file is installed before
the last one, so a gateway that answers to the new token proves nothing about
the others. `JournalCoversAll` rests on the lock, because the check for an
unfinished journal and the write of a new one are two steps.

The last file is root's. The script writes its content to a stage at a fixed path
and starts `deploy/brain-shrik-env-control` through sudo, which reads the stage and
replaces the file later. The helper is a process of its own in the model (`helper`,
with the invocation that waits for it): it takes no lock, the script's lock is not
inherited (`O_CLOEXEC`), and it lives on when the script is killed (`Crash`) or gives
up after its minute (`GiveUp`; whether the kill of sudo then reaches it depends on
sudo, so the model lets it live). A helper that has not read the stage yet reads
what a later invocation staged there (`Restaged`). Two orders that the script
cannot exclude follow, both found by TLC when the exception below is left out:

- `--apply` is killed with its helper about to replace the file, `--rollback`
  finishes and removes the journal, and the helper puts the new generation into
  root's file: a mix without a journal;
- the same with another `--apply` before the late replacement: root's file holds a
  generation the journal on disk does not have.

Both properties therefore except root's file while a helper nobody waits for was
the last to replace it (`stray`, `Strayed`), and nothing else: the roles, the other
files and root's file after any publication that was waited for are covered, for
any number of helpers left behind. In the first case the next preflight refuses,
because the consumers no longer agree (`Consistent`), until the file is repaired by
hand; in the second `--resume` and `--rollback` publish root's file again.

The helper accepts its file in mode 0640 only. Its `--check` is part of the
preflight, so with another mode nothing starts (`Writable`).

Ownership of the automation. `_cleanup` stops the loop and the server, and with
them the work they admitted (`StopWork`), before `release` ends the watcher
(`EndWatcher`), asks for the unlock (`Unlock`) and closes the connection
(`ReleaseReturns`). The state is OWNED throughout, without a timeout and without a
watcher: another process may acquire the lock, or the backend may die, long before
the release returns. `OverlapIsBounded` is therefore about who works or admits work
(`Admits`), not about the state: without the lock it is only a process whose backend
died, and it admits nothing later than `Interval + 2 * Timeout` after that. The
model takes `server.stop` to have ended its handlers when it returns; a stop that
fails, which `_attempt` only records, is not modelled.

Why the bounds are enough. Each race these modules are about involves two
actors, and where a third one matters (a slot on two tickets, a release and a
session) `DeliveryLocks` has three transactions and `MCSymmetric` three operators, invocations
and tickets. A chain of merges needs three rows, the last decision of a ticket two proposals, an evicted connection two
connections and room for one. Every property has a mutated definition for which
the run fails, so the case it is about does occur.

Fairness of `progress`: the sweep is served strongly, because it is enabled
again after every row lock it had to pass over; a capture that reached its
write, tasks that reached an await, the trace net and the drain run to their
end; the clock moves. Clients owe nothing. `GestureIsLogged` is about finitely many
failing drains (`MaxFailures`), and a row that cannot be rendered, which would stop
every drain at it, is outside the model. `CHECK_DEADLOCK FALSE` in all three: the
transactions, reads and tokens of an instance are finite and end.

### Findings

`sessions_cap`: an absorption counts the room left in a session's ledger without
a lock and spends it later, so two of them on two connections, or one and a
capture, together exceed the cap of 100, and the session can then neither end
nor be relayed, because its snapshot breaks a CHECK. A call made with a
credential principal locks the session row first and is not exposed.
`access_unarchive`: a flush judges "a robot has no right to unarchive" by a
status it read before a merge archived the entity, and overwrites the merge.

Read beside these: the ledger of an ended session can still lose artifacts to an
absorption only if the session was abandoned, and the snapshot of an ended
session is the photograph its end took.

### Abstractions to know

- `Sessions`: a session stands for its client key; every trace has a human
  actor, so that its deposits may be taken by window; the selection and the
  update of a window's artifacts are one step, which hides nothing, because a
  session that could capture one of them in between was open when it was made
  and is a rival already; the base focus carries a revision and no text; the
  artifacts a relay names are left out; the lookup of a retried relay does not
  compare the start of the successor with the end of its predecessor, so it finds
  more than the code's.
- `Delivery`: a capture may take more subjects than the two of the code's batch,
  and one the pass has seen already.
- `DeliveryLocks`: whether a ticket is eligible is whether it has a pull request
  and its dependencies their receipts; `Delivery` has the full evaluation. A
  release is recorded for all its lots at once (the run has one), and the shared
  locks on pinned Brain entities are left out.
- `GraphProjection`: rows out of attempts are never claimed; the code also marks
  those that an older, larger limit left behind.
- `CredentialAudit`: a drain takes any rows that wait, not the oldest.
- `MergeChains`: one table stands for the six that carry `merged_into`.
- `Triage`: one ticket.
- `AutoOpener`: the trace net may close any trace that no call is using; a task
  cancelled after its insert committed, and a statement that fails and did commit,
  are not modelled.

## Proofs of the smaller components

Each theorem is about every value of the constants that the module's own named
assumption allows (`SessionsAssumption`, …: finiteness where something is
counted, naturals where something is measured, distinct null values), and rests
on an inductive invariant. The type invariant of a component is a theorem too, also
where no run checks it (`Sessions`, `CredentialRotation`, `CredentialAudit`,
`AutoOpener`).

| Module | Theorems | What the invariant adds, and why |
|---|---|---|
| `SessionsProofs` | `OneAuthorTheorem`, `RelayTheorem`, `AccountedTheorem` | `Accounted`: a focus's revision is the number of sessions that applied to it plus its other edits, by cardinality. `AppliedOK`: no applied revision is in the future, so the next one is nobody's. `ParentOK`: a successor starts at the revision its predecessor's end wrote, or names it as the origin in a slot; since that revision has one author, this is enough for the lookup of a retry. |
| `CredentialProofs` (`TokenInv`) | `RevocationTheorem` | What a set of rows read from the registry still says later (`Seen`): each token was issued, and if it was revoked since, then after the moment the set's age counts from. That moment is before the query, so a slow answer loses nothing; a verification that waited is covered by the length of one refresh (`ClockInv`). |
| `CredentialProofs` (`AuditInv`) | `ExpiryTheorem` | `DueInv`: a sweep passes over rows another drain holds, so one expiry is in at most one drain's hands. `RowsInv`: audit rows are exactly what the elevation's columns say. |
| `CredentialProofs` (`RotationInv`) | `NoMixTheorem`, `CoversTheorem` | `OneRuns`: who is past the lock holds it. `Agrees`: before it writes the journal an invocation has changed nothing, and after that it works from the journal on disk. `Far`: how far a rollback or a finalisation is says which roles and files are back, or all new. `HelpersOK`: an invocation waits for one helper at most, which can only read what that invocation staged, or nothing, and whose success says that root's file holds it unless a helper left behind wrote it since. |
| `CurationProofs` (`MergeInv`) | `ChainTheorem`, `MergeTypeCorrect` | `OwnInv`, `TargetInv`, `ChildInv`, `LockInv`: a transaction holds for update what it redirects and for share what it points to once checked, and these locks conflict. That a row is nobody's target when "the first child by id" finds none rests on every set of ids having a least one (`LeastRow`). `MergeTypeInv`: the fields a merge carries from step to step name rows, and its passes stay within the limit. |
| `CurationProofs` (`TriageInv`) | `TriageTheorem` | `CountInv`: what a decision counted under the ticket's lock still holds when it commits. `DraftInv`: a ticket that waits for extraction has no proposal, and all proposals are one run's. |
| `DeliveryLocksProofs` | `OpenSlotTheorem`, `WaitTheorem`, `CloseTheorem` | See below. |
| `RuntimeProofs` (`LeaseInv`) | `OverlapTheorem` | `Timely`: until its release a process that is OWNED has a watcher, whose timer is not overdue, at most one period away, and, once the backend died, at most so far from that moment as the step of the heartbeat allows: an interval and a timeout asleep, one more timeout with a question out, one timeout with a late answer in. `Working`: work ends before the release begins, and a process whose backend lives is OWNED while it works. While the backend lives and the watcher runs, the lock is held. |
| `RuntimeProofs` (`TraceInv`, `MemoInv`) | `OrphanTheorem`, `MemoTheorem` | `FlightInv`: the end of a connection is not forgotten while a call is inside `ensure_open`, because the eviction passes over those. `HandsInv`: a trace still open after its connection ended is in the hands of a task that will close it. `MemoInv`: the memory of open traces is finite, so that dropping entries brings it back to its bound; a call that memoizes an ended connection entered after its end was forgotten, by `FlightInv`. |
| `AccessCountsProofs` (`AccessInv`) | `CountOnceTheorem`, `ExactTheorem`, `AccessTypeTheorem` | `MemoryOK`: a read is in one queue or one batch of one server, once. `FlushOK`: one flush holds the lock, the rows it drained are there until it commits, and the counters it read are the table's. A step of the queues, the insert or the drain then stutters in `CountOnce` or loses the reads of one server; the commit of a flush counts exactly the drained reads, by the number of them per entity. `Exact`: counter and journal are the number of counted reads, from the steps of `CountOnce` alone. `IdsInv`: no id exceeds the number of rows inserted so far, hence of reads. |

`DeliveryLocks`. Per transaction (`Sound`) the invariant says which operations
are in which phase, that what it still wants comes after all it holds in the
order of the locks (`Ordered`), and behind which locks it stands (`Behind`);
between transactions, that held locks do not exclude each other (`Mutex`).

- `NoOpenSlotIsSatisfied`. A receipt or a release is written behind the exclusive
  fence and an open reads receipts behind the shared one. So an open that found
  its anchors unmet still does when it commits (`Unmet`), and a receipt about to
  commit has picked, or still waits to lock, each open slot it satisfies
  (`Covered`): no slot can open in between. Contract changes and new bindings
  take no fence, but they only take receipts away or give a binding an id no
  receipt names (`IdInv`), and the ticket lock keeps them from the receipt's own
  ticket.
- `NoWaitCycle`. In a set of transactions that all wait, take those whose next
  lock is greatest in the order. None of them is kept waiting by a holder in the
  set, because a holder that waits wants something greater than what it holds.
  Among them the one that queued first is not behind another either
  (`QueueInv`): requests are served in their order. That there is a greatest lock
  rests on tickets and slots being finitely many (`Greatest`).
- `ExplicitCloseLeavesNoSession`. Bind and close decide under the slot's lock, and
  the bound session and the closed slot are written by the step that reads them.

## Only model-checked

- Liveness under fairness is outside the prover's reach: `Converges`,
  `DeliveryIsCertified`, `NoGhostSession`, `EndedTraceCloses`, `GestureIsLogged`.
- `TypeOK` of `MCComponents` puts the type invariants of its components together;
  the conjuncts are theorems one by one.

## Not modelled

The repository has far more code than these modules stand for: the map names
about six percent of it. See `PROJECT.json` "components" for the reason in each
case. In short: reads, rendering and ranking change no state; embedding,
rerank, forge and agent processes are external I/O; command lines, migrations
that only create tables and image pins have no concurrent state; the rotations of
the PostgreSQL roles' and of the Neo4j passwords are scripts of their own, left
out; single-row CRUD in one transaction has no interleaving of its own beyond
the ledger effects that are modelled. Within the modelled components: session
checkpoints, the attribution of sessions to clients, the text of the focus, the
repair of old merge chains, the 30-day purge of access rows, the deletion of
entities.
