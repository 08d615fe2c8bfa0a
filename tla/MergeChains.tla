----------------------------- MODULE MergeChains -----------------------------
(***************************************************************************)
(* Merging entities of one table: merged_into leads from an absorbed row   *)
(* straight to its survivor.  Consolidation (services/consolidation.py)    *)
(* and roadmap proposals (services/proposal_service.py) lock the pair and  *)
(* its children, write and commit; another writer only updates a pointer.  *)
(* A deferred trigger (migration 068) checks every pointer at the commit.  *)
(* One table stands for all six, so that the two kinds of merge also meet. *)
(*                                                                         *)
(* READ COMMITTED: a statement fixes the rows it wants from what has       *)
(* committed, locks them one by one in id order, and looks again at each   *)
(* row it had to wait for.  Locks are held to the end of the transaction;  *)
(* one that waits may be aborted, as PostgreSQL does on a deadlock.        *)
(***************************************************************************)
EXTENDS Integers, FiniteSets

CONSTANTS
    Rows,           \* row ids: numbers, locked in their order
    Txns,
    Menu,           \* [Txns -> operations it may run]
    MaxPasses       \* _MAX_LOCK_PASSES

NoRow == 0
Kinds == {"consolidate", "proposal", "point"}
Ops == {op \in [kind : Kinds, source : Rows, target : Rows] : op.source # op.target}

\* Ids are positive, a merge has two ends, and it is tried at least once.
ASSUME MergeAssumption ==
    /\ Rows \subseteq Nat \ {NoRow} /\ Menu \in [Txns -> SUBSET Ops]
    /\ MaxPasses \in Nat \ {0}

VARIABLES
    ptr,            \* [Rows -> merged_into, committed]
    txn             \* [Txns -> the transaction]

mergeVars == <<ptr, txn>>

\* K is FOR KEY SHARE, S FOR SHARE, N FOR NO KEY UPDATE, X FOR UPDATE.
Modes == {"K", "S", "N", "X"}
Conflict(m, n) == {m, n} \in {{"K", "X"}, {"S", "N"}, {"S", "X"}, {"N"}, {"N", "X"}, {"X"}}

NoTxn == [at |-> "idle", op |-> [kind |-> "none"], want |-> {}, seen |-> {}, pass |-> 0,
         held |-> {}, own |-> <<>>, check |-> {}]

\* Pointers and transactions keep their shapes.
MergeTypeOK ==
    /\ ptr \in [Rows -> Rows \cup {NoRow}]
    /\ \A p \in Txns :
        /\ txn[p].at \in {"idle", "begun", "lock", "locked", "write", "key", "target", "children", "done"}
        /\ txn[p].at \notin {"idle", "done"} => txn[p].op \in Ops
        /\ txn[p].want \subseteq Rows /\ txn[p].seen \subseteq Rows
        /\ txn[p].pass \in 0 .. MaxPasses
        /\ txn[p].held \subseteq Rows \X Modes
        /\ DOMAIN txn[p].own \subseteq Rows /\ txn[p].check \subseteq Rows

Direct(pointers) == \A e \in Rows : pointers[e] # NoRow => pointers[e] # e /\ pointers[pointers[e]] = NoRow

\* Migration 068 refuses to run on a table that holds a chain.
MergeInit ==
    /\ ptr \in {f \in [Rows -> Rows \cup {NoRow}] : Direct(f)}
    /\ txn = [p \in Txns |-> NoTxn]

\* A transaction reads its own writes.
View(p, e) == IF e \in DOMAIN txn[p].own THEN txn[p].own[e] ELSE ptr[e]

Free(p, e, mode) ==
    \A q \in Txns \ {p} : \A l \in txn[q].held : l[1] = e => ~Conflict(mode, l[2])

Set(p, t) == txn' = [txn EXCEPT ![p] = t]
Over == [NoTxn EXCEPT !.at = "done"]

Begin(p) ==
    /\ txn[p].at = "idle"
    /\ \E op \in Menu[p] : Set(p, [NoTxn EXCEPT !.at = "begun", !.op = op])
    /\ UNCHANGED ptr

\* Any error, a refusal or a deadlock ends the transaction.
Abort(p) ==
    /\ txn[p].at \notin {"idle", "done"}
    /\ Set(p, Over)
    /\ UNCHANGED ptr

(***************************************************************************)
(* _lock_merge_pair and _lock_features                                     *)
(***************************************************************************)
Wanted(op) == {op.source, op.target} \cup {e \in Rows : ptr[e] = op.source}

Snapshot(p) ==
    /\ txn[p].at = "begun" /\ txn[p].op.kind # "point"
    /\ Set(p, [txn[p] EXCEPT !.at = "lock", !.seen = {}, !.want = Wanted(txn[p].op)])
    /\ UNCHANGED ptr

\* ORDER BY id FOR UPDATE; a row that changed while it was waited for is judged again,
\* and stays locked even if it no longer counts.
LockNext(p) ==
    /\ txn[p].at = "lock"
    /\ \E e \in txn[p].want :
          /\ \A d \in txn[p].want : e <= d
          /\ Free(p, e, "X")
          /\ Set(p, [txn[p] EXCEPT !.held = @ \cup {<<e, "X">>}, !.want = @ \ {e},
                                   !.seen = IF e \in Wanted(txn[p].op) THEN @ \cup {e} ELSE @,
                                   !.at = IF txn[p].want = {e} THEN "locked" ELSE @])
    /\ UNCHANGED ptr

Straggler(p) == \E e \in Rows \ txn[p].seen : ptr[e] = txn[p].op.source

\* Both ends must be live.  Consolidation looks for a child its locks
\* missed, and if it finds one rolls back to its savepoint and tries again.
Locked(p) ==
    /\ txn[p].at = "locked"
    /\ LET op == txn[p].op
           again == op.kind = "consolidate" /\ Straggler(p)
       IN  Set(p, IF ptr[op.source] # NoRow \/ ptr[op.target] # NoRow THEN Over
                  ELSE IF ~again THEN [txn[p] EXCEPT !.at = "write"]
                  ELSE IF txn[p].pass + 1 = MaxPasses THEN Over
                  ELSE [txn[p] EXCEPT !.at = "begun", !.pass = @ + 1, !.held = {}])
    /\ UNCHANGED ptr

(***************************************************************************)
(* Writing                                                                 *)
(***************************************************************************)
\* The source and its locked children point to the target; a proposal then
\* counts the children that still point at the source.
Write(p) ==
    /\ txn[p].at = "write"
    /\ LET op == txn[p].op
           moved == txn[p].seen \ {op.target}
       IN  Set(p, IF op.kind = "proposal" /\ \E e \in Rows \ moved : ptr[e] = op.source THEN Over
                  ELSE [txn[p] EXCEPT !.at = "target", !.check = moved,
                                       !.own = [e \in moved |-> op.target]])
    /\ UNCHANGED ptr

\* A plain update takes the row and, for the foreign key, a key share of
\* the row it points to.
Point(p) ==
    /\ txn[p].at = "begun" /\ txn[p].op.kind = "point"
    /\ LET op == txn[p].op IN
       /\ Free(p, op.source, "N")
       /\ Set(p, [txn[p] EXCEPT !.at = "key", !.held = {<<op.source, "N">>},
                                !.own = [e \in {op.source} |-> op.target], !.check = {op.source}])
    /\ UNCHANGED ptr

ForeignKey(p) ==
    /\ txn[p].at = "key"
    /\ Free(p, txn[p].op.target, "K")
    /\ Set(p, [txn[p] EXCEPT !.at = "target", !.held = @ \cup {<<txn[p].op.target, "K">>}])
    /\ UNCHANGED ptr

(***************************************************************************)
(* The commit, and refuse_merge_chain for every row whose pointer was set  *)
(***************************************************************************)
TargetReadable(p, e) == TRUE

\* The target is read FOR SHARE: after an earlier update of it commits, and
\* before a later one.
TargetShared(p, e) == Free(p, e, "S")

\* Rows are checked in any order; txn.op.target is the target of them all.
CheckTarget(p) ==
    /\ txn[p].at = "target"
    /\ LET target == txn[p].op.target IN
       /\ TargetShared(p, target)
       /\ Set(p, IF View(p, target) # NoRow THEN Over
                 ELSE [txn[p] EXCEPT !.at = "children", !.held = @ \cup {<<target, "S">>}])
    /\ UNCHANGED ptr

FirstChild(p, e) == {c \in Rows : View(p, c) = e /\ \A d \in Rows : View(p, d) = e => c <= d}

CheckChildren(p) ==
    /\ txn[p].at = "children" /\ txn[p].check # {}
    /\ \E e \in txn[p].check :
          /\ \A c \in FirstChild(p, e) : Free(p, c, "S")
          /\ Set(p, IF FirstChild(p, e) # {} THEN Over
                    ELSE [txn[p] EXCEPT !.check = @ \ {e},
                                        !.at = IF txn[p].check = {e} THEN @ ELSE "target"])
    /\ UNCHANGED ptr

Commit(p) ==
    /\ txn[p].at = "children" /\ txn[p].check = {}
    /\ ptr' = [e \in Rows |-> View(p, e)]
    /\ Set(p, Over)

MergeNext == \E p \in Txns : \/ Begin(p) \/ Abort(p) \/ Snapshot(p) \/ LockNext(p) \/ Locked(p) \/ Write(p)
                             \/ Point(p) \/ ForeignKey(p) \/ CheckTarget(p) \/ CheckChildren(p) \/ Commit(p)

MergeSpec == MergeInit /\ [][MergeNext]_mergeVars

(***************************************************************************)
(* Properties                                                              *)
(***************************************************************************)
\* A merge pointer leads to its survivor in one hop: no interleaving of
\* merges, repointed children and plain updates commits a chain or a cycle.
NoMergeChain == Direct(ptr)
=============================================================================
