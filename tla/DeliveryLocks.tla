--------------------------- MODULE DeliveryLocks ---------------------------
(***************************************************************************)
(* The row and advisory locks under which delivery decisions, contract     *)
(* changes and focus slots meet, one step per lock and per statement:      *)
(* repositories/pg_delivery.py, db/focus_slots.py,                         *)
(* repositories/pg_focus_slot.py, and the bind and end of                  *)
(* repositories/pg_brain_session.py.                                       *)
(*                                                                         *)
(* A transaction works through phases.  At the start of a phase one        *)
(* statement reads the committed rows (READ COMMITTED) and fixes the       *)
(* locks it wants; they are then taken one by one, in the statement's      *)
(* ORDER BY.  A request that conflicts with a holder, or with a            *)
(* conflicting request queued before it, waits: PostgreSQL serves waiters  *)
(* in order.  All locks are held to the commit, the one step that writes.  *)
(*                                                                         *)
(* One project, one deliverable per ticket.  Tickets and slots are numbers *)
(* because the code locks rows in the order of their ids.                  *)
(***************************************************************************)
EXTENDS Integers, FiniteSets

CONSTANTS
    Tickets,        \* tickets of the project, ordered by id
    Prs,            \* pull requests
    Lots,           \* target releases
    FocusSlots,     \* slots, ordered by id; a slot stands for its title
    Anchors,        \* [FocusSlots -> set of anchors the caller asks for]
    Upstream,       \* [Tickets -> dependencies of a new contract revision]
    Sessions,       \* operator sessions
    Transactions,   \* database transactions; each runs one operation
    Requests        \* [Transactions -> operations it may run]

NoPr == "none"
NoSlot == 0
NoOp == [do |-> "none"]

AnchorKinds == [kind : {"ticket"}, of : Tickets] \cup [kind : {"pr"}, of : Prs]
                 \cup [kind : {"lot"}, of : Lots]

Operations == [do : {"integrate", "reopen", "release", "contract"}, t : Tickets]
                \cup [do : {"bind_pr"}, t : Tickets, pr : Prs]
                \cup [do : {"open", "close"}, s : FocusSlots]
                \cup [do : {"bind"}, x : Sessions, s : FocusSlots]
                \cup [do : {"end"}, x : Sessions]

\* Finitely many tickets and slots, known by their ids.
ASSUME LocksAssumption ==
    /\ Tickets \cup FocusSlots \subseteq Nat \ {NoSlot} /\ IsFiniteSet(Tickets \cup FocusSlots)
    /\ NoPr \notin Prs
    /\ Anchors \in [FocusSlots -> SUBSET AnchorKinds]
    /\ Upstream \in [Tickets -> SUBSET Tickets]
    /\ Requests \in [Transactions -> SUBSET Operations]

VARIABLES
    deps,       \* [Tickets -> SUBSET Tickets]: of the current revision
    binding,    \* active binding at the current generation: pr, id, merged
    received,   \* binding id named by the current integration receipt, or 0
    released,   \* lots whose tag the observer attested
    slots,      \* [FocusSlots -> {"absent", "open", "received", "explicit"}]
    session,    \* [Sessions -> open, slot]: the slot the session is bound to
    tx,         \* [Transactions -> op, phase, locks still wanted, locks held, picked]
    queue       \* [transactions waiting for a lock -> those that waited before]

rows == <<deps, binding, received, released, slots, session>>
locksVars == <<deps, binding, received, released, slots, session, tx, queue>>

Bindings == [pr : Prs \cup {NoPr}, id : Nat, merged : BOOLEAN]

Resources == {<<"graph", 0>>, <<"fence", 0>>, <<"base", 0>>} \cup ({"ticket", "workflow"} \X Tickets)
                \cup ({"slot"} \X FocusSlots) \cup ({"session"} \X Sessions)
Locks == Resources \X {"S", "X"}

Phases == {"idle", "graph", "tickets", "workflows", "fence", "slots", "judge", "session", "done"}

\* A transaction that runs op is in phase f, wants the locks w, holds h and
\* has picked the slots k to close.
TxAt(op, f, w, h, k) == [op |-> op, phase |-> f, want |-> w, held |-> h, picked |-> k]

NewTx == TxAt(NoOp, "idle", {}, {}, {})

\* The rows, the transactions and the queue keep their shapes.
LocksTypeOK ==
    /\ deps \in [Tickets -> SUBSET Tickets]
    /\ binding \in [Tickets -> Bindings]
    /\ received \in [Tickets -> Nat]
    /\ released \in SUBSET Lots
    /\ slots \in [FocusSlots -> {"absent", "open", "received", "explicit"}]
    /\ session \in [Sessions -> [open : BOOLEAN, slot : FocusSlots \cup {NoSlot}]]
    /\ tx \in [Transactions -> [op : Operations \cup {NoOp}, phase : Phases, want : SUBSET Locks,
                                held : SUBSET Locks, picked : SUBSET FocusSlots]]
    /\ DOMAIN queue \subseteq Transactions
    /\ queue \in [DOMAIN queue -> SUBSET DOMAIN queue]

Unbound == [pr |-> NoPr, id |-> 0, merged |-> FALSE]

\* Any project before the transactions start: tickets bound to a pull
\* request or not, its slots open or not yet asked for.
LocksInit ==
    /\ deps = Upstream
    /\ binding \in [Tickets -> {Unbound} \cup [pr : Prs, id : {1}, merged : {FALSE}]]
    /\ received = [t \in Tickets |-> 0]
    /\ released = {}
    /\ \E st \in {"absent", "open"} : slots = [s \in FocusSlots |-> st]
    /\ session = [x \in Sessions |-> [open |-> TRUE, slot |-> NoSlot]]
    /\ tx = [p \in Transactions |-> NewTx]
    /\ queue = [p \in {} |-> {}]

(***************************************************************************)
(* Receipts and anchors                                                    *)
(***************************************************************************)
\* _pr_receipt: the receipt must have observed this very binding.
PrMet(R, pr) == \E t \in Tickets : binding[t].pr = pr /\ R[t] # 0 /\ R[t] = binding[t].id

Met(R, L, a) ==
    \/ a.kind = "ticket" /\ R[a.of] # 0
    \/ a.kind = "pr" /\ PrMet(R, a.of)
    \/ a.kind = "lot" /\ a.of \in L

\* A lot anchor decides alone; otherwise every anchor must be met.
Decisive(s) ==
    LET lots == {a \in Anchors[s] : a.kind = "lot"} IN IF lots = {} THEN Anchors[s] ELSE lots

Satisfied(R, L, s) == Decisive(s) # {} /\ \A a \in Decisive(s) : Met(R, L, a)

(***************************************************************************)
(* Locks                                                                   *)
(***************************************************************************)
Excludes(a, b) == a[1] = b[1] /\ "X" \in {a[2], b[2]}

RowLocks(kind, S, mode) == {<<<<kind, i>>, mode>> : i \in S}

\* The order in which a transaction meets kinds of locks, and rows by id.
Rank(r) == CASE r[1] = "graph" -> 1
             [] r[1] = "ticket" -> 2
             [] r[1] = "workflow" -> 3
             [] r[1] = "fence" -> 4
             [] r[1] = "session" -> 5
             [] r[1] = "slot" -> 6
             [] r[1] = "base" -> 7
Num(r) == IF r[1] = "session" THEN 0 ELSE r[2]
Precedes(r, s) == Rank(r) < Rank(s) \/ (Rank(r) = Rank(s) /\ Num(r) < Num(s))

First(L) == CHOOSE l \in L : \A m \in L : m = l \/ Precedes(l[1], m[1])

\* Mutant: the ticket acted on is locked before its dependencies.
NextLockOwnFirst(p) ==
    LET own == {l \in tx[p].want :
                  l[1][1] = "ticket" /\ tx[p].op.do = "integrate" /\ l[1][2] = tx[p].op.t}
    IN  First(IF own = {} THEN tx[p].want ELSE own)
NextLock(p) == First(tx[p].want)

Holds(p, l) == l \in tx[p].held

Waiting(p) == p \in DOMAIN queue

\* Who keeps p from its next lock: holders, and conflicting requests queued
\* before p's.
Blockers(p) ==
    LET l == NextLock(p)
        ahead == IF Waiting(p) THEN queue[p] ELSE DOMAIN queue
    IN  {q \in Transactions \ {p} : \/ \E h \in tx[q].held : Excludes(l, h)
                                    \/ q \in ahead /\ Excludes(l, NextLock(q))}

\* Re-requesting a lock the transaction holds never waits.
Blocked(p) == ~Holds(p, NextLock(p)) /\ Blockers(p) # {}

Wait(p) ==
    /\ tx[p].want # {} /\ ~Waiting(p) /\ Blocked(p)
    /\ queue' = [q \in DOMAIN queue \cup {p} |-> IF q = p THEN DOMAIN queue ELSE queue[q]]
    /\ UNCHANGED <<rows, tx>>

\* The hook's slot query re-checks closed_at once a row lock is granted.
PickedWith(p, l) ==
    IF l[1][1] = "slot" /\ tx[p].op.do \in {"integrate", "release"} /\ slots[l[1][2]] = "open"
    THEN tx[p].picked \cup {l[1][2]} ELSE tx[p].picked

Take(p) ==
    /\ tx[p].want # {} /\ ~Blocked(p)
    /\ LET l == NextLock(p) IN
       tx' = [tx EXCEPT ![p] = TxAt(@.op, @.phase, @.want \ {l}, @.held \cup {l}, PickedWith(p, l))]
    /\ queue' = [q \in DOMAIN queue \ {p} |-> queue[q] \ {p}]
    /\ UNCHANGED rows

(***************************************************************************)
(* Phases.  Enter(p, f, w): the next phase is f and wants the locks w.     *)
(***************************************************************************)
Enter(p, f, w) == tx' = [tx EXCEPT ![p] = TxAt(@.op, f, w, @.held, @.picked)]

Runs(p, f) == tx[p].phase = f /\ tx[p].want = {}

\* Commit and rollback both release every lock.
Released(p) == tx' = [tx EXCEPT ![p] = TxAt(NoOp, "done", {}, {}, {})]

Rollback(p) == Released(p) /\ UNCHANGED <<rows, queue>>

GraphMode(op) == IF op.do \in {"contract", "bind_pr"} THEN "X" ELSE "S"

\* The tickets whose rows an open key-shares before it takes the fence.
AnchorTickets(s) ==
    {t \in Tickets : \E a \in Anchors[s] :
        \/ a.kind = "ticket" /\ a.of = t
        \/ a.kind = "pr" /\ binding[t].pr = a.of
        \/ a.kind = "lot" /\ binding[t].merged}

Admitted(s) == \A a \in Anchors[s] : a.kind = "pr" => \E t \in Tickets : binding[t].pr = a.of

FirstPhase(op) == CASE op.do \in {"bind", "end"} -> "session"
                    [] op.do = "close" -> "slots"
                    [] op.do = "open" -> "tickets"
                    [] OTHER -> "graph"

FirstLocks(op) == CASE op.do \in {"bind", "end"} -> {<<<<"session", op.x>>, "X">>}
                    [] op.do = "close" -> RowLocks("slot", {op.s}, "X")
                    [] op.do = "open" -> RowLocks("ticket", AnchorTickets(op.s), "S")
                    [] OTHER -> {<<<<"graph", 0>>, GraphMode(op)>>}

BeginTx(p, op) ==
    /\ tx[p].phase = "idle"
    /\ tx' = [tx EXCEPT ![p] = TxAt(op, FirstPhase(op), FirstLocks(op), {}, {})]
    /\ op.do = "open" => slots[op.s] = "absent" /\ Admitted(op.s)
    /\ UNCHANGED <<rows, queue>>

\* lock_decision_scope locks the ticket and its discovered dependencies;
\* lock_workflows locks the ticket alone.
Scope(op) == IF op.do \in {"integrate", "reopen"} THEN {op.t} \cup deps[op.t] ELSE {op.t}

LockScope(p) ==
    /\ Runs(p, "graph")
    /\ LET scope == Scope(tx[p].op) IN
       Enter(p, "workflows", RowLocks("ticket", scope, "X") \cup RowLocks("workflow", scope, "X"))
    /\ UNCHANGED <<rows, queue>>

\* Whether this transaction writes a row that may satisfy an anchor.
Receipt(op) == /\ op.do = "integrate" /\ binding[op.t].pr # NoPr /\ received[op.t] = 0
               /\ \A u \in deps[op.t] : received[u] # 0

Releases(op) == op.do = "release" /\ binding[op.t].merged

\* What the transaction itself sees once it has written its receipt.
OwnReceived(op) == IF op.do = "integrate" THEN [received EXCEPT ![op.t] = binding[op.t].id]
                   ELSE received
OwnReleased(op) == IF op.do = "release" THEN Lots ELSE released

\* close_slots_satisfied_by is called once the receipt row is written.
TakeFence(p) ==
    /\ Runs(p, "workflows") /\ (Receipt(tx[p].op) \/ Releases(tx[p].op))
    /\ Enter(p, "fence", {<<<<"fence", 0>>, "X">>})
    /\ UNCHANGED <<rows, queue>>

\* Over-chosen on purpose: Satisfied decides.
TouchedSlots(op) ==
    {s \in FocusSlots : slots[s] = "open" /\ \E a \in Anchors[s] :
        \/ a.kind = "ticket" /\ a.of = op.t
        \/ a.kind = "pr" /\ binding[op.t].pr = a.of
        \/ a.kind = "lot"}

LockSlots(p) ==
    /\ Runs(p, "fence") /\ tx[p].op.do # "open"
    /\ Enter(p, "slots", RowLocks("slot", TouchedSlots(tx[p].op), "X"))
    /\ UNCHANGED <<rows, queue>>

\* anchor_states is a statement of its own, after the row locks.
Judge(p) ==
    /\ Runs(p, "slots") /\ tx[p].op.do \in {"integrate", "release"}
    /\ LET op == tx[p].op IN
       tx' = [tx EXCEPT ![p] = TxAt(op, "judge", {}, @.held, {s \in @.picked :
                                    Satisfied(OwnReceived(op), OwnReleased(op), s)})]
    /\ UNCHANGED <<rows, queue>>

CommitReceipt(p) ==
    /\ Runs(p, "judge") /\ tx[p].op.do # "open"
    /\ LET op == tx[p].op IN
       /\ received' = OwnReceived(op)
       /\ released' = OwnReleased(op)
       /\ binding' = IF op.do = "integrate" THEN [binding EXCEPT ![op.t].merged = TRUE] ELSE binding
       /\ slots' = [s \in FocusSlots |-> IF s \in tx[p].picked THEN "received" ELSE slots[s]]
    /\ Released(p)
    /\ UNCHANGED <<deps, session, queue>>

\* A new revision or attempt leaves the old bindings and receipt behind.
CommitWorkflow(p) ==
    /\ Runs(p, "workflows") /\ ~Receipt(tx[p].op) /\ ~Releases(tx[p].op)
    /\ LET op == tx[p].op
           again == op.do \in {"contract", "reopen"}
           b == binding[op.t]
       IN  /\ deps' = IF op.do = "contract" THEN [deps EXCEPT ![op.t] = Upstream[op.t]] ELSE deps
           /\ received' = IF again THEN [received EXCEPT ![op.t] = 0] ELSE received
           /\ binding' = [binding EXCEPT ![op.t] =
                CASE again -> [pr |-> NoPr, id |-> b.id, merged |-> FALSE]
                  [] op.do = "bind_pr" -> [pr |-> op.pr, id |-> b.id + 1, merged |-> FALSE]
                  [] op.do = "integrate" -> [pr |-> b.pr, id |-> b.id, merged |-> b.pr # NoPr]
                  [] op.do = "release" -> b]
    /\ Released(p)
    /\ UNCHANGED <<released, slots, session, queue>>

\* Mutant: an open does not take the fence.
OpenTakesNoFence(p) ==
    /\ Runs(p, "tickets") /\ tx[p].op.do = "open"
    /\ Enter(p, "fence", {})
    /\ UNCHANGED <<rows, queue>>
\* The shared fence follows the ticket locks and precedes the receipt read.
OpenTakesFence(p) ==
    /\ Runs(p, "tickets") /\ tx[p].op.do = "open"
    /\ Enter(p, "fence", {<<<<"fence", 0>>, "S">>})
    /\ UNCHANGED <<rows, queue>>

AlreadyReceived(s) == \E a \in Anchors[s] : Met(received, released, a)

OpenReadsReceipts(p) ==
    /\ Runs(p, "fence") /\ tx[p].op.do = "open"
    /\ IF AlreadyReceived(tx[p].op.s) THEN Rollback(p)
       ELSE Enter(p, "judge", {}) /\ UNCHANGED <<rows, queue>>

\* A concurrent open of the same title makes this one a replay.
CommitOpen(p) ==
    /\ Runs(p, "judge") /\ tx[p].op.do = "open"
    /\ slots' = [slots EXCEPT ![tx[p].op.s] = IF @ = "absent" THEN "open" ELSE @]
    /\ Released(p)
    /\ UNCHANGED <<deps, binding, received, released, session, queue>>

Holders(s) == {x \in Sessions : session[x].open /\ session[x].slot = s}

CloseExplicitly(p) ==
    /\ Runs(p, "slots") /\ tx[p].op.do = "close"
    /\ LET s == tx[p].op.s IN
       IF slots[s] = "open" /\ Holders(s) = {}
       THEN /\ slots' = [slots EXCEPT ![s] = "explicit"]
            /\ Released(p)
            /\ UNCHANGED <<deps, binding, received, released, session, queue>>
       ELSE Rollback(p)

\* Session row first, then the slot row (bind, bound end) or the base row.
LockFocus(p) ==
    /\ Runs(p, "session")
    /\ LET op == tx[p].op
           own == session[op.x].slot
           s == IF op.do = "bind" THEN op.s ELSE own
       IN  IF ~session[op.x].open \/ own \notin {NoSlot, s}
           THEN Rollback(p)
           ELSE /\ Enter(p, "slots", IF s = NoSlot THEN {<<<<"base", 0>>, "X">>}
                                     ELSE RowLocks("slot", {s}, "X"))
                /\ UNCHANGED <<rows, queue>>

\* Mutant: the slot's own state is not read again.
SlotTakesSessionUnread(s, x) == Holders(s) \subseteq {x}
\* The slot is judged as read under its lock, not as seen before it.
SlotTakesSession(s, x) == slots[s] = "open" /\ Holders(s) \subseteq {x}

CommitSession(p) ==
    /\ Runs(p, "slots") /\ tx[p].op.do \in {"bind", "end"}
    /\ LET op == tx[p].op IN
       IF op.do = "bind" /\ ~SlotTakesSession(op.s, op.x) THEN Rollback(p)
       ELSE /\ session' = [session EXCEPT ![op.x] = IF op.do = "bind" THEN [@ EXCEPT !.slot = op.s]
                                                  ELSE [@ EXCEPT !.open = FALSE]]
            /\ Released(p)
            /\ UNCHANGED <<deps, binding, received, released, slots, queue>>

Step(p) ==
    \/ Wait(p) \/ Take(p)
    \/ LockScope(p) \/ TakeFence(p) \/ LockSlots(p) \/ Judge(p)
    \/ CommitReceipt(p) \/ CommitWorkflow(p)
    \/ OpenTakesFence(p) \/ OpenReadsReceipts(p) \/ CommitOpen(p)
    \/ CloseExplicitly(p) \/ LockFocus(p) \/ CommitSession(p)

AllDone == /\ \A p \in Transactions : tx[p].phase = "done"
           /\ UNCHANGED locksVars

LocksNext ==
    \/ \E p \in Transactions : Step(p)
    \/ \E p \in Transactions : \E op \in Requests[p] : BeginTx(p, op)
    \/ AllDone

LocksSpec == LocksInit /\ [][LocksNext]_locksVars

(***************************************************************************)
(* Properties                                                              *)
(***************************************************************************)
\* No committed state holds an open slot whose receipts are all in: the
\* open and the receipt hook can miss each other in no order, whether the
\* ticket was eligible when the open took its ticket locks or became so
\* later (close_slots_satisfied_by, lock_anchor_project_shared).
NoOpenSlotIsSatisfied == \A s \in FocusSlots : slots[s] = "open" => ~Satisfied(received, released, s)

\* Transactions wait for each other in no cycle: the graph lock, tickets by
\* id, workflows by id, the project fence, slots by id (lock_decision_scope,
\* lock_workflows, lock_anchor_tickets, and sessions before slots).
NoWaitCycle ==
    \A P \in SUBSET {p \in Transactions : Waiting(p)} : P # {} => \E p \in P : Blockers(p) \cap P = {}

\* A slot closed by hand leaves no open session working on it: bind and
\* close read each other's row under the slot lock alone.
ExplicitCloseLeavesNoSession == \A s \in FocusSlots : slots[s] = "explicit" => Holders(s) = {}
=============================================================================
