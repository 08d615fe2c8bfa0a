-------------------------- MODULE AutomationLease --------------------------
(***************************************************************************)
(* The single-owner lease of the automation service: a session advisory    *)
(* lock on a dedicated connection, watched by a heartbeat                  *)
(* (automation/ownership.py), and the runtime that acquires it, works and  *)
(* releases it (automation/runtime.py).  PostgreSQL frees the lock when    *)
(* the backend dies, which the process learns from its next heartbeat.     *)
(*                                                                         *)
(* Time is discrete; a timer fires when its time comes.  An answer of the  *)
(* server may arrive after its backend has died.  Nothing bounds the time  *)
(* a shutdown takes: the watcher is gone by then, and the state stays      *)
(* OWNED until the connection is closed.                                   *)
(***************************************************************************)
EXTENDS Integers, FiniteSets

CONSTANTS
    Automations,    \* automation processes
    Interval,       \* heartbeat_interval
    Timeout,        \* heartbeat_timeout
    MaxClock        \* bound on the clock

NoHolder == "none"

ASSUME LeaseAssumption ==
    /\ Interval \in Nat /\ Timeout \in Nat /\ MaxClock \in Nat
    /\ NoHolder \notin Automations

VARIABLES
    clock,
    holder,         \* process whose backend holds the advisory lock, or NoHolder
    owner           \* [Automations -> state, watcher, its timer, when the backend died, ...]

leaseVars == <<clock, holder, owner>>

NotYet == MaxClock + 1
New == [state |-> "unowned", watch |-> "off", due |-> NotYet, died |-> NotYet, work |-> FALSE,
        stop |-> "no"]

\* The clock, the lock and the processes keep their shapes.
LeaseTypeOK ==
    /\ clock \in 0 .. MaxClock
    /\ holder \in Automations \cup {NoHolder}
    /\ owner \in [Automations -> [state : {"unowned", "owned", "lost", "released"},
                                  watch : {"off", "sleep", "asked", "answered"},
                                  due : Nat, died : 0 .. NotYet, work : BOOLEAN,
                                  stop : {"no", "stopped", "unlock", "close"}]]

LeaseInit ==
    /\ clock = 0 /\ holder = NoHolder
    /\ owner = [p \in Automations |-> New]

Owned(p) == owner[p].state = "owned"
Alive(p) == owner[p].died = NotYet

\* No timer is overslept.
ClockTicks ==
    /\ clock < MaxClock
    /\ \A p \in Automations : owner[p].watch # "off" => clock < owner[p].due
    /\ clock' = clock + 1
    /\ UNCHANGED <<holder, owner>>

\* The connection breaks or the server ends the backend: its session lock
\* is free at once.
BackendDies(p) ==
    /\ Owned(p) /\ Alive(p)
    /\ owner' = [owner EXCEPT ![p].died = clock]
    /\ holder' = IF holder = p THEN NoHolder ELSE holder
    /\ UNCHANGED clock

(***************************************************************************)
(* acquire, and the watcher                                                *)
(***************************************************************************)
Acquire(p) ==
    /\ owner[p].state = "unowned" /\ holder = NoHolder
    /\ holder' = p
    /\ owner' = [owner EXCEPT ![p] = [state |-> "owned", watch |-> "sleep", due |-> clock + Interval,
                                      died |-> NotYet, work |-> FALSE, stop |-> "no"]]
    /\ UNCHANGED clock

AskForever == MaxClock + Timeout
AskTimer == clock + Timeout

\* The interval is over: ask for the backend's pid.
Ask(p) ==
    /\ owner[p].watch = "sleep" /\ clock = owner[p].due
    /\ owner' = [owner EXCEPT ![p].watch = "asked", ![p].due = AskTimer]
    /\ UNCHANGED <<clock, holder>>

\* The server answers while the backend lives.
Answers(p) ==
    /\ owner[p].watch = "asked" /\ Alive(p)
    /\ owner' = [owner EXCEPT ![p].watch = "answered"]
    /\ UNCHANGED <<clock, holder>>

Hears(p) ==
    /\ owner[p].watch = "answered"
    /\ owner' = [owner EXCEPT ![p].watch = "sleep", ![p].due = clock + Interval]
    /\ UNCHANGED <<clock, holder>>

\* _mark_lost: an error, a timeout or another backend.  Work already
\* admitted goes on.
Loses(p) ==
    /\ owner[p].watch \in {"asked", "answered"}
    /\ clock = owner[p].due \/ ~Alive(p)
    /\ owner' = [owner EXCEPT ![p].state = "lost", ![p].watch = "off",
                              ![p].died = IF Alive(p) THEN clock ELSE @]
    /\ holder' = IF holder = p THEN NoHolder ELSE holder
    /\ UNCHANGED clock

(***************************************************************************)
(* Work behind ensure_owned, and the shutdown                              *)
(***************************************************************************)
\* The webhook server and the dedup loop run, and the gate lets them pass.
Admits(p) == Owned(p) /\ owner[p].stop = "no"

Admit(p) ==
    /\ Admits(p) /\ ~owner[p].work
    /\ owner' = [owner EXCEPT ![p].work = TRUE]
    /\ UNCHANGED <<clock, holder>>

WorkEnds(p) ==
    /\ owner[p].work
    /\ owner' = [owner EXCEPT ![p].work = FALSE]
    /\ UNCHANGED <<clock, holder>>

\* _cleanup: the loop is cancelled and the server stopped, with what they
\* were doing; the watcher still runs.
StopWork(p) ==
    /\ owner[p].state \in {"owned", "lost"} /\ owner[p].stop = "no" /\ ~owner[p].work
    /\ owner' = [owner EXCEPT ![p].stop = "stopped"]
    /\ UNCHANGED <<clock, holder>>

\* release: a watcher cancelled with a question out gives the connection up;
\* one cancelled asleep leaves the state OWNED, and the unlock is sent.
EndWatcher(p) ==
    /\ owner[p].stop = "stopped"
    /\ IF owner[p].watch = "sleep"
       THEN /\ owner' = [owner EXCEPT ![p].watch = "off", ![p].stop = "unlock"]
            /\ UNCHANGED holder
       ELSE /\ owner' = [owner EXCEPT ![p].state = "released", ![p].watch = "off"]
            /\ holder' = IF holder = p THEN NoHolder ELSE holder
    /\ UNCHANGED clock

\* pg_advisory_unlock is executed.
Unlock(p) ==
    /\ owner[p].stop = "unlock" /\ Alive(p)
    /\ owner' = [owner EXCEPT ![p].stop = "close"]
    /\ holder' = IF holder = p THEN NoHolder ELSE holder
    /\ UNCHANGED clock

\* The unlock or the close fails, is cancelled, or ends well: the connection
\* is gone in each case.
ReleaseReturns(p) ==
    /\ owner[p].stop \in {"unlock", "close"} /\ Owned(p)
    /\ owner' = [owner EXCEPT ![p].state = "released"]
    /\ holder' = IF holder = p THEN NoHolder ELSE holder
    /\ UNCHANGED clock

\* The process is started again.
Restart(p) ==
    /\ owner[p].state = "released"
    /\ owner' = [owner EXCEPT ![p] = New]
    /\ UNCHANGED <<clock, holder>>

LeaseNext ==
    \/ ClockTicks
    \/ \E p \in Automations : \/ BackendDies(p) \/ Acquire(p) \/ Ask(p) \/ Answers(p) \/ Hears(p) \/ Loses(p)
                              \/ Admit(p) \/ WorkEnds(p) \/ StopWork(p) \/ EndWatcher(p)
                              \/ Unlock(p) \/ ReleaseReturns(p) \/ Restart(p)

LeaseSpec == LeaseInit /\ [][LeaseNext]_leaseVars

(***************************************************************************)
(* Properties                                                              *)
(***************************************************************************)
\* Whoever works or admits work without the lock has lost its backend: no
\* process gives the lock back before its own work has ended, although it
\* stays OWNED over an unlock and a close of any length.  It admits work only
\* until it learns of the loss, which takes an interval, the timeout of the
\* heartbeat that learns it, and the delay of the last good answer.
OverlapIsBounded ==
    \A p \in Automations : holder # p =>
        /\ Admits(p) \/ owner[p].work => ~Alive(p)
        /\ Admits(p) => clock - owner[p].died <= Interval + 2 * Timeout
=============================================================================
