---------------------------- MODULE RuntimeProofs ----------------------------
(***************************************************************************)
(* Theorems about the two components that run beside the tools: the single *)
(* owner of the automation (AutomationLease) and the traces opened for     *)
(* connections (AutoOpener).                                               *)
(***************************************************************************)
EXTENDS AutomationLease, AutoOpener, FiniteSetTheorems, TLAPS

(***************************************************************************)
(* AutomationLease                                                         *)
(***************************************************************************)

OwnerSet == [state : {"unowned", "owned", "lost", "released"}, watch : {"off", "sleep", "asked", "answered"},
             due : Nat, died : 0 .. NotYet, work : BOOLEAN, stop : {"no", "stopped", "unlock", "close"}]

\* Until its release a process that is OWNED has a watcher.
Watched(r) == r.state = "owned" /\ r.stop \in {"no", "stopped"}

\* The watcher's timer is ahead but never further than its period, and if the
\* backend died, the timer is at most so far from that moment.
Timely(r, c) ==
    /\ r.watch # "off" /\ c <= r.due
    /\ r.watch = "sleep" => r.due <= c + Interval
    /\ r.watch # "sleep" => r.due <= c + Timeout
    /\ r.died # NotYet =>
         /\ r.died <= c
         /\ r.watch = "sleep" => r.due <= r.died + Interval + Timeout
         /\ r.watch = "asked" => r.due <= r.died + Interval + 2 * Timeout
         /\ r.watch = "answered" => r.due <= r.died + Timeout

\* Work ends before the release begins, and a process whose backend lives is
\* still OWNED while it works.
Working(r) == r.work => r.stop = "no" /\ (r.died = NotYet => r.state = "owned")

Timers(r, p, h, c) ==
    /\ Watched(r) => Timely(r, c) /\ (r.died = NotYet => h = p)
    /\ Working(r)

TimersInv == \A p \in Automations : Timers(owner[p], p, holder, clock)

LeaseInv == LeaseTypeOK /\ TimersInv

LEMMA LeaseBegins == LeaseInit => LeaseInv
  <1> SUFFICES ASSUME LeaseInit PROVE LeaseInv OBVIOUS
  <1>1. New \in OwnerSet BY LeaseAssumption DEF New, OwnerSet, NotYet
  <1>2. LeaseTypeOK BY <1>1, LeaseAssumption DEF LeaseInit, LeaseTypeOK, OwnerSet
  <1>3. TimersInv BY DEF LeaseInit, TimersInv, Timers, Watched, Working, New
  <1> QED BY <1>2, <1>3 DEF LeaseInv

\* One process moves and the clock stands still.
LEMMA OwnerMoves ==
    ASSUME LeaseInv, NEW p \in Automations, NEW r \in OwnerSet, owner' = [owner EXCEPT ![p] = r],
           clock' = clock, holder' \in Automations \cup {NoHolder},
           \A q \in Automations \ {p} : holder = q => holder' = q,
           Timers(r, p, holder', clock)
    PROVE  LeaseInv'
  <1>1. owner \in [Automations -> OwnerSet] BY DEF LeaseInv, LeaseTypeOK, OwnerSet
  <1>2. owner' \in [Automations -> OwnerSet] /\ owner'[p] = r /\ \A q \in Automations \ {p} : owner'[q] = owner[q]
    BY <1>1
  <1>3. LeaseTypeOK' BY <1>2 DEF LeaseInv, LeaseTypeOK, OwnerSet
  <1>4. ASSUME NEW q \in Automations PROVE Timers(owner'[q], q, holder', clock')
    <2>1. CASE q = p BY <1>2, <2>1
    <2>2. CASE q # p
      <3>1. owner'[q] = owner[q] /\ Timers(owner[q], q, holder, clock) BY <1>2, <2>2 DEF LeaseInv, TimersInv
      <3> QED BY <2>2, <3>1 DEF Timers
    <2> QED BY <2>1, <2>2
  <1> QED BY <1>3, <1>4 DEF LeaseInv, TimersInv

\* A process that is not watched afterwards owes only what it says of work.
LEMMA OwnerRests ==
    ASSUME LeaseInv, NEW p \in Automations, NEW r \in OwnerSet, owner' = [owner EXCEPT ![p] = r],
           clock' = clock, holder' = (IF holder = p THEN NoHolder ELSE holder) \/ holder' = holder,
           ~Watched(r), Working(r)
    PROVE  LeaseInv'
  <1>1. holder' \in Automations \cup {NoHolder} /\ \A q \in Automations \ {p} : holder = q => holder' = q
    BY DEF LeaseInv, LeaseTypeOK
  <1> QED BY <1>1, OwnerMoves DEF Timers

LEMMA LeaseSteps == LeaseInv /\ [LeaseNext]_leaseVars => LeaseInv'
  <1> SUFFICES ASSUME LeaseInv, [LeaseNext]_leaseVars PROVE LeaseInv' OBVIOUS
  <1>0. /\ owner \in [Automations -> OwnerSet] /\ clock \in 0 .. MaxClock
        /\ holder \in Automations \cup {NoHolder} /\ \A p \in Automations : owner[p] \in OwnerSet
    BY DEF LeaseInv, LeaseTypeOK, OwnerSet
  <1>h. \A p \in Automations : Timers(owner[p], p, holder, clock) BY DEF LeaseInv, TimersInv
  <1>1. CASE ClockTicks
    <2>1. owner' = owner /\ holder' = holder /\ clock' = clock + 1 /\ clock < MaxClock
          /\ \A p \in Automations : owner[p].watch # "off" => clock < owner[p].due
      BY <1>1 DEF ClockTicks
    <2>2. LeaseTypeOK' BY <2>1, LeaseAssumption DEF LeaseInv, LeaseTypeOK
    <2>3. ASSUME NEW p \in Automations PROVE Timers(owner[p], p, holder, clock + 1)
      <3>1. owner[p].due \in Nat /\ owner[p].died \in 0 .. NotYet BY <1>0 DEF OwnerSet
      <3>2. CASE Watched(owner[p])
        <4>1. Timely(owner[p], clock) BY <1>h, <3>2 DEF Timers
        <4>2. Timely(owner[p], clock + 1) BY <1>0, <2>1, <3>1, <4>1, LeaseAssumption DEF Timely, NotYet
        <4> QED BY <1>h, <4>2 DEF Timers
      <3>3. CASE ~Watched(owner[p]) BY <1>h, <3>3 DEF Timers
      <3> QED BY <3>2, <3>3
    <2>4. TimersInv' BY <2>1, <2>3 DEF TimersInv
    <2> QED BY <2>2, <2>4 DEF LeaseInv
  <1>2. ASSUME NEW p \in Automations, BackendDies(p) PROVE LeaseInv'
    <2> DEFINE r == [owner[p] EXCEPT !.died = clock]
    <2>1. owner' = [owner EXCEPT ![p] = r] /\ owner[p].state = "owned" /\ owner[p].died = NotYet /\ clock' = clock
      BY <1>0, <1>2 DEF BackendDies, Owned, Alive
    <2>2. owner[p] \in OwnerSet BY <1>0
    <2>3. r \in OwnerSet BY <1>0, <2>2, LeaseAssumption DEF OwnerSet, NotYet
    <2>4. /\ r.state = "owned" /\ r.watch = owner[p].watch /\ r.due = owner[p].due /\ r.died = clock
          /\ r.stop = owner[p].stop /\ r.work = owner[p].work
      BY <2>1, <2>2 DEF OwnerSet
    <2>5. clock # NotYet BY <1>0, LeaseAssumption DEF NotYet
    <2>6. holder' \in Automations \cup {NoHolder} /\ \A q \in Automations \ {p} : holder = q => holder' = q
      BY <1>0, <1>2 DEF BackendDies
    <2>7. owner[p].due \in Nat BY <2>2 DEF OwnerSet
    <2> HIDE DEF r
    <2>8. ASSUME Watched(r) PROVE Timely(r, clock)
      <3>1. Timely(owner[p], clock) BY <1>h, <2>1, <2>4, <2>8 DEF Timers, Watched
      <3> QED BY <1>0, <2>4, <2>7, <3>1, LeaseAssumption DEF Timely
    <2>9. Working(r) BY <1>h, <2>4, <2>5 DEF Timers, Working
    <2>10. Timers(r, p, holder', clock) BY <2>4, <2>5, <2>8, <2>9 DEF Timers
    <2> QED BY <2>1, <2>3, <2>6, <2>10, OwnerMoves
  <1>3. ASSUME NEW p \in Automations, Acquire(p) PROVE LeaseInv'
    <2> DEFINE r == [state |-> "owned", watch |-> "sleep", due |-> clock + Interval, died |-> NotYet,
                     work |-> FALSE, stop |-> "no"]
    <2>1. owner' = [owner EXCEPT ![p] = r] /\ holder = NoHolder /\ holder' = p /\ clock' = clock
      BY <1>3 DEF Acquire
    <2>2. r \in OwnerSet BY <1>0, LeaseAssumption DEF OwnerSet, NotYet
    <2>3. clock <= clock + Interval /\ clock + Interval <= clock + Interval BY <1>0, LeaseAssumption
    <2>4. Timers(r, p, holder', clock) BY <2>1, <2>3 DEF Timers, Timely, Working
    <2> QED BY <2>1, <2>2, <2>4, LeaseAssumption, OwnerMoves
  <1>4. ASSUME NEW p \in Automations, Ask(p) PROVE LeaseInv'
    <2> DEFINE r == [owner[p] EXCEPT !.watch = "asked", !.due = clock + Timeout]
    <2>1. owner' = [owner EXCEPT ![p] = r] /\ owner[p].watch = "sleep" /\ clock = owner[p].due
          /\ holder' = holder /\ clock' = clock
      BY <1>0, <1>4 DEF Ask, AskTimer
    <2>2. owner[p] \in OwnerSet BY <1>0
    <2>3. r \in OwnerSet
      <3>1. PICK d \in Nat : d = clock + Timeout BY <1>0, LeaseAssumption
      <3>2. r = [owner[p] EXCEPT !.watch = "asked", !.due = d] BY <3>1
      <3> HIDE DEF r
      <3> QED BY <2>2, <3>2 DEF OwnerSet
    <2>4. /\ r.state = owner[p].state /\ r.watch = "asked" /\ r.due = clock + Timeout
          /\ r.died = owner[p].died /\ r.stop = owner[p].stop /\ r.work = owner[p].work
      BY <2>2 DEF OwnerSet
    <2>5. owner[p].died \in 0 .. NotYet /\ owner[p].due \in Nat BY <2>2 DEF OwnerSet
    <2> HIDE DEF r
    <2>6. ASSUME Watched(r) PROVE Timely(r, clock) /\ (r.died = NotYet => holder' = p)
      <3>1. Timely(owner[p], clock) /\ (owner[p].died = NotYet => holder = p)
        BY <1>h, <2>4, <2>6 DEF Timers, Watched
      <3>2. owner[p].died # NotYet => owner[p].died <= clock /\ clock <= owner[p].died + Interval + Timeout
        BY <2>1, <3>1 DEF Timely
      <3>3. clock <= r.due /\ r.due <= clock + Timeout BY <1>0, <2>4, LeaseAssumption
      <3>4. r.died # NotYet => r.due <= r.died + Interval + 2 * Timeout
        BY <1>0, <2>4, <2>5, <3>2, LeaseAssumption DEF NotYet
      <3> QED BY <2>1, <2>4, <3>1, <3>2, <3>3, <3>4 DEF Timely
    <2>7. Working(r) BY <1>h, <2>4 DEF Timers, Working
    <2>8. Timers(r, p, holder', clock) BY <2>6, <2>7 DEF Timers
    <2> QED BY <1>0, <2>1, <2>3, <2>8, OwnerMoves
  <1>5. ASSUME NEW p \in Automations, Answers(p) PROVE LeaseInv'
    <2> DEFINE r == [owner[p] EXCEPT !.watch = "answered"]
    <2>1. owner' = [owner EXCEPT ![p] = r] /\ owner[p].watch = "asked" /\ owner[p].died = NotYet
          /\ holder' = holder /\ clock' = clock
      BY <1>0, <1>5 DEF Answers, Alive
    <2>2. owner[p] \in OwnerSet BY <1>0
    <2>3. r \in OwnerSet BY <2>2 DEF OwnerSet
    <2>4. /\ r.state = owner[p].state /\ r.watch = "answered" /\ r.due = owner[p].due /\ r.died = NotYet
          /\ r.stop = owner[p].stop /\ r.work = owner[p].work
      BY <2>1, <2>2 DEF OwnerSet
    <2> HIDE DEF r
    <2>5. ASSUME Watched(r) PROVE Timely(r, clock) /\ holder' = p
      <3>1. Timely(owner[p], clock) /\ holder = p BY <1>h, <2>1, <2>4, <2>5 DEF Timers, Watched
      <3> QED BY <2>1, <2>4, <3>1 DEF Timely
    <2>6. Working(r) BY <1>h, <2>1, <2>4 DEF Timers, Working
    <2>7. Timers(r, p, holder', clock) BY <2>5, <2>6 DEF Timers
    <2> QED BY <1>0, <2>1, <2>3, <2>7, OwnerMoves
  <1>6. ASSUME NEW p \in Automations, Hears(p) PROVE LeaseInv'
    <2> DEFINE r == [owner[p] EXCEPT !.watch = "sleep", !.due = clock + Interval]
    <2>1. owner' = [owner EXCEPT ![p] = r] /\ owner[p].watch = "answered" /\ holder' = holder /\ clock' = clock
      BY <1>0, <1>6 DEF Hears
    <2>2. owner[p] \in OwnerSet BY <1>0
    <2>3. r \in OwnerSet
      <3>1. PICK d \in Nat : d = clock + Interval BY <1>0, LeaseAssumption
      <3>2. r = [owner[p] EXCEPT !.watch = "sleep", !.due = d] BY <3>1
      <3> HIDE DEF r
      <3> QED BY <2>2, <3>2 DEF OwnerSet
    <2>4. /\ r.state = owner[p].state /\ r.watch = "sleep" /\ r.due = clock + Interval
          /\ r.died = owner[p].died /\ r.stop = owner[p].stop /\ r.work = owner[p].work
      BY <2>2 DEF OwnerSet
    <2>5. owner[p].died \in 0 .. NotYet /\ owner[p].due \in Nat BY <2>2 DEF OwnerSet
    <2> HIDE DEF r
    <2>6. ASSUME Watched(r) PROVE Timely(r, clock) /\ (r.died = NotYet => holder' = p)
      <3>1. Timely(owner[p], clock) /\ (owner[p].died = NotYet => holder = p)
        BY <1>h, <2>4, <2>6 DEF Timers, Watched
      <3>2. /\ clock <= owner[p].due
            /\ owner[p].died # NotYet => owner[p].died <= clock /\ owner[p].due <= owner[p].died + Timeout
        BY <2>1, <3>1 DEF Timely
      <3>3. clock <= r.due /\ r.due <= clock + Interval BY <1>0, <2>4, LeaseAssumption
      <3>4. r.died # NotYet => r.due <= r.died + Interval + Timeout
        BY <1>0, <2>4, <2>5, <3>2, LeaseAssumption DEF NotYet
      <3> QED BY <2>1, <2>4, <3>1, <3>2, <3>3, <3>4 DEF Timely
    <2>7. Working(r) BY <1>h, <2>4 DEF Timers, Working
    <2>8. Timers(r, p, holder', clock) BY <2>6, <2>7 DEF Timers
    <2> QED BY <1>0, <2>1, <2>3, <2>8, OwnerMoves
  <1>7. ASSUME NEW p \in Automations, Loses(p) PROVE LeaseInv'
    <2> DEFINE d == IF Alive(p) THEN clock ELSE owner[p].died
               r == [owner[p] EXCEPT !.state = "lost", !.watch = "off", !.died = d]
    <2>1. owner[p] \in OwnerSet BY <1>0
    <2>2. d \in 0 .. NotYet /\ d # NotYet BY <1>0, <2>1, LeaseAssumption DEF OwnerSet, NotYet, Alive
    <2>3. owner' = [owner EXCEPT ![p] = r] /\ clock' = clock /\ holder' = (IF holder = p THEN NoHolder ELSE holder)
      BY <1>0, <1>7 DEF Loses
    <2> HIDE DEF d
    <2>4. /\ r \in OwnerSet /\ r.state = "lost" /\ r.died = d
          /\ r.stop = owner[p].stop /\ r.work = owner[p].work
      BY <2>1, <2>2 DEF OwnerSet
    <2> HIDE DEF r
    <2>5. ~Watched(r) /\ Working(r) BY <1>h, <2>2, <2>4 DEF Timers, Watched, Working
    <2> QED BY <2>3, <2>4, <2>5, OwnerRests
  <1>8. ASSUME NEW p \in Automations, Admit(p) \/ WorkEnds(p) PROVE LeaseInv'
    <2>1. PICK w \in BOOLEAN : /\ owner' = [owner EXCEPT ![p].work = w] /\ clock' = clock /\ holder' = holder
                               /\ w => owner[p].state = "owned" /\ owner[p].stop = "no"
      BY <1>8 DEF Admit, WorkEnds, Admits, Owned
    <2> DEFINE r == [owner[p] EXCEPT !.work = w]
    <2>2. owner' = [owner EXCEPT ![p] = r] BY <1>0, <2>1
    <2>3. owner[p] \in OwnerSet BY <1>0
    <2>4. r \in OwnerSet BY <2>3 DEF OwnerSet
    <2>5. /\ r.state = owner[p].state /\ r.watch = owner[p].watch /\ r.due = owner[p].due
          /\ r.died = owner[p].died /\ r.stop = owner[p].stop /\ r.work = w
      BY <2>3 DEF OwnerSet
    <2> HIDE DEF r
    <2>6. Working(r) BY <2>1, <2>5 DEF Working
    <2>7. Timers(r, p, holder, clock) BY <1>h, <2>5, <2>6 DEF Timers, Watched, Timely
    <2> QED BY <1>0, <2>1, <2>2, <2>4, <2>7, OwnerMoves
  <1>9. ASSUME NEW p \in Automations, StopWork(p) PROVE LeaseInv'
    <2> DEFINE r == [owner[p] EXCEPT !.stop = "stopped"]
    <2>1. /\ owner' = [owner EXCEPT ![p] = r] /\ clock' = clock /\ holder' = holder
          /\ owner[p].stop = "no" /\ ~owner[p].work
      BY <1>0, <1>9 DEF StopWork
    <2>2. owner[p] \in OwnerSet BY <1>0
    <2>3. /\ r \in OwnerSet /\ r.state = owner[p].state /\ r.watch = owner[p].watch /\ r.due = owner[p].due
          /\ r.died = owner[p].died /\ r.stop = "stopped" /\ r.work = owner[p].work
      BY <2>2 DEF OwnerSet
    <2> HIDE DEF r
    <2>4. Timers(r, p, holder, clock) BY <1>h, <2>1, <2>3 DEF Timers, Watched, Timely, Working
    <2> QED BY <1>0, <2>1, <2>3, <2>4, OwnerMoves
  <1>10. ASSUME NEW p \in Automations, EndWatcher(p) PROVE LeaseInv'
    <2>1. owner[p] \in OwnerSet /\ owner[p].stop = "stopped" /\ ~owner[p].work
      BY <1>0, <1>h, <1>10 DEF EndWatcher, Timers, Working, OwnerSet
    <2>2. CASE owner[p].watch = "sleep"
      <3> DEFINE r == [owner[p] EXCEPT !.watch = "off", !.stop = "unlock"]
      <3>1. owner' = [owner EXCEPT ![p] = r] /\ clock' = clock /\ holder' = holder
        BY <1>0, <1>10, <2>2 DEF EndWatcher
      <3>2. r \in OwnerSet /\ r.stop = "unlock" /\ r.work = owner[p].work BY <2>1 DEF OwnerSet
      <3> HIDE DEF r
      <3>3. ~Watched(r) /\ Working(r) BY <2>1, <3>2 DEF Watched, Working
      <3> QED BY <3>1, <3>2, <3>3, OwnerRests
    <2>3. CASE owner[p].watch # "sleep"
      <3> DEFINE r == [owner[p] EXCEPT !.state = "released", !.watch = "off"]
      <3>1. /\ owner' = [owner EXCEPT ![p] = r] /\ clock' = clock
            /\ holder' = (IF holder = p THEN NoHolder ELSE holder)
        BY <1>0, <1>10, <2>3 DEF EndWatcher
      <3>2. r \in OwnerSet /\ r.state = "released" /\ r.work = owner[p].work BY <2>1 DEF OwnerSet
      <3> HIDE DEF r
      <3>3. ~Watched(r) /\ Working(r) BY <2>1, <3>2 DEF Watched, Working
      <3> QED BY <3>1, <3>2, <3>3, OwnerRests
    <2> QED BY <2>2, <2>3
  <1>11. ASSUME NEW p \in Automations, Unlock(p) \/ ReleaseReturns(p) PROVE LeaseInv'
    <2>1. owner[p] \in OwnerSet /\ owner[p].stop \in {"unlock", "close"} /\ ~owner[p].work
      BY <1>0, <1>h, <1>11 DEF Unlock, ReleaseReturns, Timers, Working, OwnerSet
    <2>2. clock' = clock /\ holder' = (IF holder = p THEN NoHolder ELSE holder)
      BY <1>11 DEF Unlock, ReleaseReturns
    <2>3. PICK r \in OwnerSet : owner' = [owner EXCEPT ![p] = r] /\ r.stop \in {"unlock", "close"} /\ ~r.work
      <3>1. CASE Unlock(p)
        <4> DEFINE r == [owner[p] EXCEPT !.stop = "close"]
        <4>1. owner' = [owner EXCEPT ![p] = r] BY <1>0, <3>1 DEF Unlock
        <4>2. r \in OwnerSet /\ r.stop = "close" /\ r.work = owner[p].work BY <2>1 DEF OwnerSet
        <4> QED BY <2>1, <4>1, <4>2
      <3>2. CASE ReleaseReturns(p)
        <4> DEFINE r == [owner[p] EXCEPT !.state = "released"]
        <4>1. owner' = [owner EXCEPT ![p] = r] BY <1>0, <3>2 DEF ReleaseReturns
        <4>2. r \in OwnerSet /\ r.stop = owner[p].stop /\ r.work = owner[p].work BY <2>1 DEF OwnerSet
        <4> QED BY <2>1, <4>1, <4>2
      <3> QED BY <1>11, <3>1, <3>2
    <2>4. ~Watched(r) /\ Working(r) BY <2>3 DEF Watched, Working
    <2> QED BY <2>2, <2>3, <2>4, OwnerRests
  <1>12. ASSUME NEW p \in Automations, Restart(p) PROVE LeaseInv'
    <2>1. owner' = [owner EXCEPT ![p] = New] /\ clock' = clock /\ holder' = holder BY <1>12 DEF Restart
    <2>2. New \in OwnerSet /\ ~Watched(New) /\ Working(New)
      BY LeaseAssumption DEF New, OwnerSet, NotYet, Watched, Working
    <2> QED BY <2>1, <2>2, OwnerRests
  <1>13. CASE UNCHANGED leaseVars
    <2>1. clock' = clock /\ holder' = holder /\ owner' = owner BY <1>13 DEF leaseVars
    <2> QED BY <2>1 DEF LeaseInv, LeaseTypeOK, TimersInv
  <1> QED BY <1>1, <1>2, <1>3, <1>4, <1>5, <1>6, <1>7, <1>8, <1>9, <1>10, <1>11, <1>12, <1>13 DEF LeaseNext

LEMMA LeaseAlways == LeaseSpec => []LeaseInv
  BY LeaseBegins, LeaseSteps, PTL DEF LeaseSpec

\* The clock, the lock and the processes keep their shapes.
THEOREM LeaseTypeTheorem == LeaseSpec => []LeaseTypeOK
  <1>1. LeaseInv => LeaseTypeOK BY DEF LeaseInv
  <1> QED BY <1>1, LeaseAlways, PTL

\* A process admits work, after its backend died and another took the lock, for
\* at most an interval and two timeouts, whatever the heartbeat is configured to
\* (_watch_connection, _mark_lost), and gives the lock back itself only when its
\* work has ended (_cleanup, release).
THEOREM OverlapTheorem == LeaseSpec => []OverlapIsBounded
  <1>1. LeaseInv => OverlapIsBounded
    <2> SUFFICES ASSUME LeaseInv, NEW p \in Automations, holder # p
                 PROVE  /\ Admits(p) \/ owner[p].work => ~Alive(p)
                        /\ Admits(p) => clock - owner[p].died <= Interval + 2 * Timeout
      BY DEF OverlapIsBounded
    <2>1. clock \in Nat /\ owner[p].due \in Nat /\ owner[p].died \in Nat
          /\ owner[p].watch \in {"off", "sleep", "asked", "answered"}
      BY LeaseAssumption DEF LeaseInv, LeaseTypeOK, NotYet
    <2>2. Timers(owner[p], p, holder, clock) BY DEF LeaseInv, TimersInv
    <2>3. owner[p].work /\ owner[p].died = NotYet => Admits(p)
      BY <2>2 DEF Timers, Working, Admits, Owned
    <2>4. Admits(p) => Timely(owner[p], clock) /\ owner[p].died # NotYet
      BY <2>2 DEF Timers, Watched, Admits, Owned
    <2>5. Admits(p) => owner[p].due <= owner[p].died + Interval + 2 * Timeout
      BY <2>1, <2>4, LeaseAssumption DEF Timely
    <2>6. Admits(p) => clock <= owner[p].due BY <2>4 DEF Timely
    <2>7. Admits(p) => clock - owner[p].died <= Interval + 2 * Timeout
      BY <2>1, <2>5, <2>6, LeaseAssumption
    <2> QED BY <2>3, <2>4, <2>7 DEF Alive
  <1> QED BY <1>1, LeaseAlways, PTL

(***************************************************************************)
(* AutoOpener                                                              *)
(***************************************************************************)
Places == {"idle", "arrived", "observe", "observed", "refused", "open", "opened", "close", "end"}
TaskSet == [at : Places, c : Conns \cup {"none"}, id : 0 .. MaxTraces]

\* A task that does something does it for a connection.
TaskInv == \A p \in Calls : call[p].at # "idle" => call[p].c \in Conns

\* Inside ensure_open, no call of an ended connection outlives the memory of
\* the end.
FlightInv == \A c \in gone \ unclosed : InFlight(c) => c \in DOMAIN terminated

\* A trace still open after the end of its connection is in the hands of a
\* task that will close it.
HandsInv == \A c \in gone \ unclosed : open[c] # 0 =>
                \E p \in Calls : call[p].c = c /\ call[p].at \in {"opened", "close", "end"}

TraceInv == TraceTypeOK /\ TaskInv /\ FlightInv /\ HandsInv

LEMMA TraceTyped ==
    ASSUME TraceTypeOK
    PROVE  /\ call \in [Calls -> TaskSet]
           /\ \A p \in Calls : /\ call[p] \in TaskSet /\ call[p].at \in Places
                               /\ call[p].c \in Conns \cup {"none"} /\ call[p].id \in 0 .. MaxTraces
  BY DEF TraceTypeOK, TaskSet, Places

LEMMA TraceBegins == TraceInit => TraceInv
  <1> SUFFICES ASSUME TraceInit PROVE TraceInv OBVIOUS
  <1>1. Idle \in TaskSet /\ Idle.at = "idle" BY TraceAssumption DEF Idle, TaskSet, Places
  <1>2. TraceTypeOK
    <2>1. call \in [Calls -> TaskSet] BY <1>1 DEF TraceInit
    <2>2. DOMAIN terminated \subseteq Conns /\ terminated \in [DOMAIN terminated -> SUBSET Conns] BY DEF TraceInit
    <2>3. /\ open \in [Conns -> 0 .. MaxTraces] /\ last \in [Conns -> 0 .. MaxTraces]
          /\ memo \in [Conns -> 0 .. MaxTraces] /\ gone = {} /\ unclosed = {} /\ errors \in 0 .. MaxErrors
      BY TraceAssumption DEF TraceInit
    <2> QED BY <2>1, <2>2, <2>3 DEF TraceTypeOK, TaskSet, Places
  <1>3. TaskInv /\ FlightInv /\ HandsInv BY <1>1 DEF TraceInit, TaskInv, FlightInv, HandsInv
  <1> QED BY <1>2, <1>3 DEF TraceInv

\* What ending a connection keeps of the ended ones.
LEMMA TerminateKeeps ==
    ASSUME TraceTypeOK, NEW c \in Conns, Terminate(c)
    PROVE  /\ DOMAIN terminated' \subseteq Conns /\ terminated' \in [DOMAIN terminated' -> SUBSET Conns]
           /\ memo' \in [Conns -> 0 .. MaxTraces]
           /\ \A x \in DOMAIN terminated \cup {c} : InFlight(x) => x \in DOMAIN terminated'
  <1> DEFINE e == EndedLast(c)
  <1>1. DOMAIN e = DOMAIN terminated \cup {c} BY DEF EndedLast
  <1>2. \A x \in DOMAIN e : e[x] \subseteq Conns BY DEF EndedLast, TraceTypeOK
  <1>3. PICK idle, excess : terminated' = [x \in {y \in DOMAIN e : InFlight(y) \/ Cardinality(e[y] \cap idle) >= excess} |->
                               e[x] \cap {y \in DOMAIN e : InFlight(y) \/ Cardinality(e[y] \cap idle) >= excess}]
    BY DEF Terminate, ForgetOld
  <1> DEFINE kept == {y \in DOMAIN e : InFlight(y) \/ Cardinality(e[y] \cap idle) >= excess}
  <1> HIDE DEF e
  <1>4. \A x \in DOMAIN e : InFlight(x) => x \in kept OBVIOUS
  <1>5. kept \subseteq DOMAIN e OBVIOUS
  <1>6. terminated' = [x \in kept |-> e[x] \cap kept] BY <1>3
  <1> HIDE DEF kept
  <1>7. DOMAIN terminated' = kept BY <1>6
  <1>8. DOMAIN terminated \subseteq Conns BY DEF TraceTypeOK
  <1>9. terminated' \in [DOMAIN terminated' -> SUBSET Conns] BY <1>1, <1>2, <1>5, <1>6, <1>7
  <1>10. memo' \in [Conns -> 0 .. MaxTraces] BY TraceAssumption DEF Terminate, TraceTypeOK
  <1> QED BY <1>1, <1>4, <1>5, <1>7, <1>8, <1>9, <1>10

\* One task moves; the tasks of other connections stay as they are.
LEMMA TaskMoves ==
    ASSUME TraceInv, NEW p \in Calls, NEW r \in TaskSet, call' = [call EXCEPT ![p] = r],
           r.at # "idle" => r.c \in Conns
    PROVE  /\ call' \in [Calls -> TaskSet] /\ call'[p] = r /\ \A q \in Calls \ {p} : call'[q] = call[q]
           /\ TaskInv'
           /\ \A c : InFlight(c)' => InFlight(c) \/ (r.c = c /\ r.at \notin {"idle", "arrived", "end"})
  <1>1. call' \in [Calls -> TaskSet] /\ call'[p] = r /\ \A q \in Calls \ {p} : call'[q] = call[q]
    BY TraceTyped DEF TraceInv
  <1>2. TaskInv' BY <1>1 DEF TraceInv, TaskInv
  <1>3. \A c : InFlight(c)' => InFlight(c) \/ (r.c = c /\ r.at \notin {"idle", "arrived", "end"})
    BY <1>1 DEF InFlight
  <1> QED BY <1>1, <1>2, <1>3

\* A step that opens no trace and lets none out of its hands.
LEMMA QuietTask ==
    ASSUME TraceInv, NEW p \in Calls, NEW r \in TaskSet, call' = [call EXCEPT ![p] = r],
           r.at # "idle" => r.c \in Conns,
           call[p].at \notin {"opened", "close", "end"},
           r.at \in {"idle", "arrived", "end"} \/ (r.c = call[p].c /\ InFlight(r.c)) \/ r.c \notin (gone \ unclosed'),
           open' = open, last' = last, memo' \in [Conns -> 0 .. MaxTraces], terminated' = terminated,
           gone' = gone, unclosed \subseteq unclosed', unclosed' \subseteq Conns, errors' \in 0 .. MaxErrors
    PROVE  TraceInv'
  <1>1. /\ call' \in [Calls -> TaskSet] /\ call'[p] = r /\ \A q \in Calls \ {p} : call'[q] = call[q]
        /\ TaskInv'
        /\ \A c : InFlight(c)' => InFlight(c) \/ (r.c = c /\ r.at \notin {"idle", "arrived", "end"})
    BY TaskMoves
  <1>2. TraceTypeOK' BY <1>1 DEF TraceInv, TraceTypeOK, TaskSet, Places
  <1>3. FlightInv' BY <1>1 DEF TraceInv, FlightInv
  <1>4. HandsInv'
    <2> SUFFICES ASSUME NEW c \in gone \ unclosed', open[c] # 0
                 PROVE  \E q \in Calls : call'[q].c = c /\ call'[q].at \in {"opened", "close", "end"}
      BY DEF HandsInv
    <2>1. PICK q \in Calls : call[q].c = c /\ call[q].at \in {"opened", "close", "end"} BY DEF TraceInv, HandsInv
    <2> QED BY <1>1, <2>1
  <1> QED BY <1>1, <1>2, <1>3, <1>4 DEF TraceInv

LEMMA TraceSteps == TraceInv /\ [TraceNext]_traceVars => TraceInv'
  <1> SUFFICES ASSUME TraceInv, [TraceNext]_traceVars PROVE TraceInv' OBVIOUS
  <1>0. TraceTypeOK /\ TaskInv /\ FlightInv /\ HandsInv BY DEF TraceInv
  <1>t. /\ call \in [Calls -> TaskSet] /\ memo \in [Conns -> 0 .. MaxTraces] /\ open \in [Conns -> 0 .. MaxTraces]
        /\ last \in [Conns -> 0 .. MaxTraces] /\ unclosed \subseteq Conns /\ gone \subseteq Conns /\ errors \in 0 .. MaxErrors
        /\ \A p \in Calls : /\ call[p] \in TaskSet /\ call[p].at \in Places
                            /\ call[p].c \in Conns \cup {"none"} /\ call[p].id \in 0 .. MaxTraces
    BY <1>0, TraceTyped DEF TraceTypeOK
  <1>i. Idle \in TaskSet /\ Idle.at = "idle" BY TraceAssumption DEF Idle, TaskSet, Places
  <1>f. Fails => errors' \in 0 .. MaxErrors BY <1>t, TraceAssumption DEF Fails
  <1>1. ASSUME NEW p \in Calls, NEW c \in Conns, CallArrives(p, c) PROVE TraceInv'
    <2> DEFINE r == [at |-> "arrived", c |-> c, id |-> 0]
    <2>1. r \in TaskSet BY TraceAssumption DEF TaskSet, Places
    <2>2. call' = [call EXCEPT ![p] = r] /\ call[p].at = "idle" BY <1>1, <1>i DEF CallArrives
    <2>3. open' = open /\ last' = last /\ memo' = memo /\ terminated' = terminated /\ gone' = gone
          /\ unclosed' = unclosed /\ errors' = errors
      BY <1>1 DEF CallArrives
    <2> QED BY <1>t, <2>1, <2>2, <2>3, QuietTask
  <1>2. ASSUME NEW p \in Calls, EnsureOpen(p) PROVE TraceInv'
    <2> DEFINE c == call[p].c
               r == IF c \in DOMAIN terminated THEN Idle
                    ELSE IF memo[c] # 0 THEN [at |-> "observe", c |-> c, id |-> memo[c]]
                    ELSE [at |-> "open", c |-> c, id |-> 0]
    <2>1. call[p].at = "arrived" /\ call' = [call EXCEPT ![p] = r]
          /\ unclosed' = unclosed \cup ({c} \cap (gone \ DOMAIN terminated))
          /\ open' = open /\ last' = last /\ memo' = memo /\ terminated' = terminated /\ gone' = gone /\ errors' = errors
      BY <1>2 DEF EnsureOpen
    <2>2. c \in Conns BY <1>0, <2>1 DEF TaskInv
    <2> HIDE DEF c
    <2>3. [at |-> "observe", c |-> c, id |-> memo[c]] \in TaskSet /\ [at |-> "open", c |-> c, id |-> 0] \in TaskSet
      BY <1>t, <2>2, TraceAssumption DEF TaskSet, Places
    <2>4. r \in TaskSet BY <1>i, <2>3
    <2>5. r.at # "idle" => r.c = c BY <1>i
    <2>6. r.at \in {"idle", "arrived", "end"} \/ r.c \notin (gone \ unclosed') BY <1>i, <2>1, <2>5
    <2>7. unclosed' \subseteq Conns /\ unclosed \subseteq unclosed' BY <1>t, <2>1, <2>2
    <2> HIDE DEF r
    <2> QED BY <1>t, <2>1, <2>2, <2>4, <2>5, <2>6, <2>7, QuietTask
  <1>3. ASSUME NEW p \in Calls, ObserveRuns(p) \/ ObserveReturns(p) PROVE TraceInv'
    <2>1. PICK r \in TaskSet : /\ call' = [call EXCEPT ![p] = r]
                               /\ r = Idle \/ (r.c = call[p].c /\ call[p].at \in {"observe", "refused"})
                               /\ call[p].at \in {"observe", "observed", "refused"}
      <3>1. \A at \in Places : [call[p] EXCEPT !.at = at] \in TaskSet /\ [call[p] EXCEPT !.at = at].c = call[p].c
        BY <1>t DEF TaskSet
      <3>2. \A at : Proceed(p, at) => call' = [call EXCEPT ![p] = [call[p] EXCEPT !.at = at]] BY <1>t DEF Proceed
      <3>3. Return(p) => call' = [call EXCEPT ![p] = Idle] BY DEF Return
      <3>4. CASE ObserveRuns(p)
        <4>1. PICK at \in Places : Proceed(p, at) /\ call[p].at = "observe" BY <3>4 DEF ObserveRuns, Places
        <4> QED BY <3>1, <3>2, <4>1
      <3>5. CASE ObserveReturns(p)
        <4>1. \/ call[p].at = "observed" /\ Return(p)
              \/ call[p].at = "refused" /\ Proceed(p, "open")
          BY <3>5 DEF ObserveReturns
        <4> QED BY <1>i, <3>1, <3>2, <3>3, <4>1 DEF Places
      <3> QED BY <1>3, <3>4, <3>5
    <2>2. /\ open' = open /\ last' = last /\ terminated' = terminated /\ gone' = gone /\ unclosed' = unclosed
          /\ errors' \in 0 .. MaxErrors
      BY <1>3, <1>t, <1>f DEF ObserveRuns, ObserveReturns
    <2>3. memo' \in [Conns -> 0 .. MaxTraces] BY <1>3, <1>t, TraceAssumption DEF ObserveRuns, ObserveReturns
    <2>4. call[p].c \in Conns /\ InFlight(call[p].c) BY <1>0, <2>1 DEF TaskInv, InFlight
    <2>5. r.at # "idle" => r.c \in Conns BY <1>i, <2>1, <2>4
    <2>6. r.at \in {"idle", "arrived", "end"} \/ (r.c = call[p].c /\ InFlight(r.c)) BY <1>i, <2>1, <2>4
    <2>7. call' = [call EXCEPT ![p] = r] BY <2>1
    <2>8. call[p].at \notin {"opened", "close", "end"} BY <2>1
    <2>9. unclosed \subseteq unclosed' /\ unclosed' \subseteq Conns BY <1>t, <2>2
    <2> QED BY <2>2, <2>3, <2>5, <2>6, <2>7, <2>8, <2>9, QuietTask
  <1>4. ASSUME NEW p \in Calls, OpenRuns(p) PROVE TraceInv'
    <2> DEFINE c == call[p].c
               id == IF open[c] # 0 THEN open[c] ELSE last[c] + 1
    <2>1. call[p].at = "open" /\ memo' = memo /\ terminated' = terminated /\ gone' = gone /\ unclosed' = unclosed
      BY <1>4 DEF OpenRuns
    <2>2. c \in Conns /\ InFlight(c) BY <1>0, <2>1 DEF TaskInv, InFlight
    <2>3. CASE Fails /\ Return(p) /\ UNCHANGED <<open, last>>
      <3>1. call' = [call EXCEPT ![p] = Idle] /\ open' = open /\ last' = last BY <2>3 DEF Return
      <3> QED BY <1>t, <1>i, <1>f, <2>1, <2>3, <3>1, QuietTask
    <2>4. CASE /\ id <= MaxTraces
               /\ open' = [open EXCEPT ![c] = id]
               /\ last' = [last EXCEPT ![c] = IF id > @ THEN id ELSE @]
               /\ call' = [call EXCEPT ![p].at = "opened", ![p].id = id]
               /\ UNCHANGED errors
      <3>1. id \in 0 .. MaxTraces
        <4>1. open[c] \in 0 .. MaxTraces /\ last[c] \in 0 .. MaxTraces BY <1>t, <2>2
        <4> QED BY <2>4, <4>1, TraceAssumption
      <3> DEFINE r == [call[p] EXCEPT !.at = "opened", !.id = id]
      <3>2. call' = [call EXCEPT ![p] = r] BY <1>t, <2>4
      <3> HIDE DEF id
      <3>3. r \in TaskSet BY <1>t, <3>1 DEF TaskSet, Places
      <3>4. r.c = c /\ r.at = "opened" BY <1>t DEF TaskSet
      <3> HIDE DEF r
      <3>5. /\ call' \in [Calls -> TaskSet] /\ call'[p] = r /\ \A q \in Calls \ {p} : call'[q] = call[q]
            /\ TaskInv'
            /\ \A x : InFlight(x)' => InFlight(x) \/ (r.c = x /\ r.at \notin {"idle", "arrived", "end"})
        BY <2>2, <3>2, <3>3, <3>4, TaskMoves
      <3>6. open' \in [Conns -> 0 .. MaxTraces] /\ last' \in [Conns -> 0 .. MaxTraces]
            /\ \A x \in Conns \ {c} : open'[x] = open[x]
        BY <1>t, <2>2, <2>4, <3>1
      <3>7. TraceTypeOK' BY <1>0, <2>1, <2>4, <3>5, <3>6 DEF TraceTypeOK, TaskSet, Places
      <3>8. FlightInv' BY <1>0, <2>1, <2>2, <3>4, <3>5 DEF FlightInv
      <3>9. HandsInv'
        <4> SUFFICES ASSUME NEW x \in gone \ unclosed, open'[x] # 0
                     PROVE  \E q \in Calls : call'[q].c = x /\ call'[q].at \in {"opened", "close", "end"}
          BY <2>1 DEF HandsInv
        <4>1. CASE x = c BY <3>4, <3>5, <4>1
        <4>2. CASE x # c
          <5>1. open[x] # 0 BY <1>t, <3>6, <4>2
          <5>2. PICK q \in Calls : call[q].c = x /\ call[q].at \in {"opened", "close", "end"} BY <1>0, <5>1 DEF HandsInv
          <5> QED BY <2>1, <3>5, <5>2
        <4> QED BY <4>1, <4>2
      <3> QED BY <3>5, <3>7, <3>8, <3>9 DEF TraceInv
    <2> QED BY <1>4, <2>3, <2>4 DEF OpenRuns
  <1>5. ASSUME NEW p \in Calls, OpenReturns(p) PROVE TraceInv'
    <2> DEFINE c == call[p].c
    <2>1. call[p].at = "opened" /\ open' = open /\ last' = last /\ gone' = gone /\ unclosed' = unclosed /\ errors' = errors
      BY <1>5 DEF OpenReturns
    <2>2. c \in Conns /\ InFlight(c) BY <1>0, <2>1 DEF TaskInv, InFlight
    <2>3. CASE c \in DOMAIN terminated
      <3> DEFINE r == [call[p] EXCEPT !.at = "close"]
      <3>1. Terminate(c) /\ Proceed(p, "close") BY <1>5, <2>3 DEF OpenReturns
      <3>2. call' = [call EXCEPT ![p] = r] BY <1>t, <3>1 DEF Proceed
      <3>3. r \in TaskSet BY <1>t DEF TaskSet, Places
      <3>4. r.c = c /\ r.at = "close" BY <1>t DEF TaskSet
      <3> HIDE DEF r
      <3>5. /\ call' \in [Calls -> TaskSet] /\ call'[p] = r /\ \A q \in Calls \ {p} : call'[q] = call[q]
            /\ TaskInv'
            /\ \A x : InFlight(x)' => InFlight(x) \/ (r.c = x /\ r.at \notin {"idle", "arrived", "end"})
        BY <2>2, <3>2, <3>3, <3>4, TaskMoves
      <3>6. /\ DOMAIN terminated' \subseteq Conns /\ terminated' \in [DOMAIN terminated' -> SUBSET Conns]
            /\ memo' \in [Conns -> 0 .. MaxTraces]
            /\ \A x \in DOMAIN terminated \cup {c} : InFlight(x) => x \in DOMAIN terminated'
        BY <1>0, <2>2, <3>1, TerminateKeeps
      <3>7. TraceTypeOK' BY <1>0, <2>1, <3>5, <3>6 DEF TraceTypeOK, TaskSet, Places
      <3>8. FlightInv' BY <1>0, <2>1, <2>2, <3>4, <3>5, <3>6 DEF FlightInv
      <3>9. HandsInv' BY <1>0, <2>1, <3>4, <3>5 DEF HandsInv
      <3> QED BY <3>5, <3>7, <3>8, <3>9 DEF TraceInv
    <2>4. CASE c \notin DOMAIN terminated
      <3>1. Remember(c, call[p].id) /\ call' = [call EXCEPT ![p] = Idle] /\ terminated' = terminated
        BY <1>5, <2>4 DEF OpenReturns, Return
      <3>2. memo' \in [Conns -> 0 .. MaxTraces] BY <1>t, <3>1, TraceAssumption DEF Remember
      <3>3. c \notin gone \ unclosed BY <1>0, <2>2, <2>4 DEF FlightInv
      <3>4. /\ call' \in [Calls -> TaskSet] /\ call'[p] = Idle /\ \A q \in Calls \ {p} : call'[q] = call[q]
            /\ TaskInv' /\ \A x : InFlight(x)' => InFlight(x)
        BY <1>i, <3>1, TaskMoves
      <3>5. TraceTypeOK' BY <1>0, <2>1, <3>1, <3>2, <3>4 DEF TraceTypeOK, TaskSet, Places
      <3>6. FlightInv' BY <1>0, <2>1, <3>1, <3>4 DEF FlightInv
      <3>7. HandsInv'
        <4> SUFFICES ASSUME NEW x \in gone \ unclosed, open[x] # 0
                     PROVE  \E q \in Calls : call'[q].c = x /\ call'[q].at \in {"opened", "close", "end"}
          BY <2>1 DEF HandsInv
        <4>1. PICK q \in Calls : call[q].c = x /\ call[q].at \in {"opened", "close", "end"} BY <1>0 DEF HandsInv
        <4>2. q # p BY <3>3, <4>1
        <4> QED BY <3>4, <4>1, <4>2
      <3> QED BY <3>4, <3>5, <3>6, <3>7 DEF TraceInv
    <2> QED BY <2>3, <2>4
  <1>6. ASSUME NEW p \in Calls, CloseRuns(p) PROVE TraceInv'
    <2> DEFINE c == call[p].c
    <2>1. /\ call[p].at \in {"close", "end"} /\ call' = [call EXCEPT ![p] = Idle]
          /\ last' = last /\ memo' = memo /\ terminated' = terminated /\ gone' = gone
          /\ \/ open' = [open EXCEPT ![c] = 0] /\ unclosed' = unclosed /\ errors' = errors
             \/ Fails /\ unclosed' = unclosed \cup {c} /\ open' = open
      BY <1>6 DEF CloseRuns, Return
    <2>2. c \in Conns BY <1>0, <2>1 DEF TaskInv
    <2>3. /\ call' \in [Calls -> TaskSet] /\ call'[p] = Idle /\ \A q \in Calls \ {p} : call'[q] = call[q]
          /\ TaskInv' /\ \A x : InFlight(x)' => InFlight(x)
      BY <1>i, <2>1, TaskMoves
    <2> HIDE DEF c
    <2>4. /\ open' \in [Conns -> 0 .. MaxTraces] /\ unclosed' \subseteq Conns /\ unclosed \subseteq unclosed' /\ errors' \in 0 .. MaxErrors
          /\ \A x \in Conns \ {c} : open'[x] = open[x]
          /\ c \in unclosed' \/ open'[c] = 0
      BY <1>t, <1>f, <2>1, <2>2, TraceAssumption
    <2>5. TraceTypeOK' BY <1>0, <2>1, <2>3, <2>4 DEF TraceTypeOK, TaskSet, Places
    <2>6. FlightInv' BY <1>0, <2>1, <2>3, <2>4 DEF FlightInv
    <2>7. HandsInv'
      <3> SUFFICES ASSUME NEW x \in gone \ unclosed', open'[x] # 0
                   PROVE  \E q \in Calls : call'[q].c = x /\ call'[q].at \in {"opened", "close", "end"}
        BY <2>1 DEF HandsInv
      <3>1. x # c /\ x \in Conns /\ x \notin unclosed BY <1>t, <2>4
      <3>2. open[x] # 0 BY <2>4, <3>1
      <3>3. PICK q \in Calls : call[q].c = x /\ call[q].at \in {"opened", "close", "end"} BY <1>0, <3>1, <3>2 DEF HandsInv
      <3>4. q # p BY <3>1, <3>3 DEF c
      <3> QED BY <2>3, <3>3, <3>4
    <2> QED BY <2>3, <2>5, <2>6, <2>7 DEF TraceInv
  <1>7. ASSUME NEW p \in Calls, NEW c \in Conns, ConnectionEnds(p, c) PROVE TraceInv'
    <2> DEFINE r == [at |-> "end", c |-> c, id |-> 0]
    <2>1. /\ call[p] = Idle /\ gone' = gone \cup {c} /\ Terminate(c) /\ call' = [call EXCEPT ![p] = r]
          /\ open' = open /\ last' = last /\ unclosed' = unclosed /\ errors' = errors
      BY <1>7 DEF ConnectionEnds
    <2>2. r \in TaskSet BY TraceAssumption DEF TaskSet, Places
    <2>3. /\ call' \in [Calls -> TaskSet] /\ call'[p] = r /\ \A q \in Calls \ {p} : call'[q] = call[q]
          /\ TaskInv' /\ \A x : InFlight(x)' => InFlight(x)
      BY <2>1, <2>2, TaskMoves
    <2>4. /\ DOMAIN terminated' \subseteq Conns /\ terminated' \in [DOMAIN terminated' -> SUBSET Conns]
          /\ memo' \in [Conns -> 0 .. MaxTraces]
          /\ \A x \in DOMAIN terminated \cup {c} : InFlight(x) => x \in DOMAIN terminated'
      BY <1>0, <2>1, TerminateKeeps
    <2>5. TraceTypeOK' BY <1>0, <2>1, <2>3, <2>4 DEF TraceTypeOK, TaskSet, Places
    <2>6. FlightInv' BY <1>0, <2>1, <2>3, <2>4 DEF FlightInv
    <2>7. HandsInv'
      <3> SUFFICES ASSUME NEW x \in gone' \ unclosed, open[x] # 0
                   PROVE  \E q \in Calls : call'[q].c = x /\ call'[q].at \in {"opened", "close", "end"}
        BY <2>1 DEF HandsInv
      <3>1. CASE x = c BY <2>3, <3>1
      <3>2. CASE x # c
        <4>1. PICK q \in Calls : call[q].c = x /\ call[q].at \in {"opened", "close", "end"} BY <1>0, <2>1, <3>2 DEF HandsInv
        <4>2. q # p BY <1>i, <2>1, <4>1
        <4> QED BY <2>3, <4>1, <4>2
      <3> QED BY <3>1, <3>2
    <2> QED BY <2>3, <2>5, <2>6, <2>7 DEF TraceInv
  <1>8. ASSUME NEW c \in Conns, NetCloses(c) PROVE TraceInv'
    <2>1. open' = [open EXCEPT ![c] = 0] /\ last' = last /\ memo' = memo /\ terminated' = terminated /\ call' = call
          /\ gone' = gone /\ unclosed' = unclosed /\ errors' = errors
      BY <1>8 DEF NetCloses
    <2>2. open' \in [Conns -> 0 .. MaxTraces] /\ \A x \in Conns : open'[x] = open[x] \/ open'[x] = 0
      BY <1>t, <2>1, TraceAssumption
    <2>3. TraceTypeOK' BY <1>0, <2>1, <2>2 DEF TraceTypeOK
    <2>4. TaskInv' /\ FlightInv' BY <1>0, <2>1 DEF TaskInv, FlightInv, InFlight
    <2>5. HandsInv' BY <1>0, <1>t, <2>1, <2>2 DEF HandsInv
    <2> QED BY <2>3, <2>4, <2>5 DEF TraceInv
  <1>9. CASE UNCHANGED traceVars
    <2>1. open' = open /\ last' = last /\ memo' = memo /\ terminated' = terminated /\ call' = call
          /\ gone' = gone /\ unclosed' = unclosed /\ errors' = errors
      BY <1>9 DEF traceVars
    <2> QED BY <2>1 DEF TraceInv, TraceTypeOK, TaskInv, FlightInv, HandsInv, InFlight
  <1> QED BY <1>1, <1>2, <1>3, <1>4, <1>5, <1>6, <1>7, <1>8, <1>9 DEF TraceNext

LEMMA TraceAlways == TraceSpec => []TraceInv
  BY TraceBegins, TraceSteps, PTL DEF TraceSpec

\* Tables, memory and tasks keep their shapes.
THEOREM TraceTypeTheorem == TraceSpec => []TraceTypeOK
  <1>1. TraceInv => TraceTypeOK BY DEF TraceInv
  <1> QED BY <1>1, TraceAlways, PTL

\* An ended connection leaves no trace once its calls are over, but those the
\* opener leaves to the trace net, for any number of connections and calls and
\* any size of the memory of ended ones (ensure_open, close,
\* _forget_old_terminations).
THEOREM OrphanTheorem == TraceSpec => []NoOrphanTrace
  <1>1. TraceInv => NoOrphanTrace BY DEF TraceInv, HandsInv, NoOrphanTrace
  <1> QED BY <1>1, TraceAlways, PTL

\* The memory never holds infinitely many connections, nor an ended one.
MemoInv == IsFiniteSet(Memoized) /\ MemoIsLive

\* Forgetting connections keeps the memory within its bound.
LEMMA MemoShrinks ==
    ASSUME MemoInv, NEW M, M \subseteq Memoized
    PROVE  IsFiniteSet(M) /\ Cardinality(M) <= MaxConns
  <1>1. /\ IsFiniteSet(Memoized) /\ Cardinality(Memoized) <= MaxConns
        /\ Cardinality(Memoized) \in Nat
    BY FS_CardinalityType DEF MemoInv, MemoIsLive
  <1>2. IsFiniteSet(M) /\ Cardinality(M) <= Cardinality(Memoized) BY <1>1, FS_Subset
  <1>3. Cardinality(M) \in Nat BY <1>2, FS_CardinalityType
  <1> QED BY <1>1, <1>2, <1>3, TraceAssumption

\* Remembering one connection drops others until the bound is met again.
LEMMA MemoGrows ==
    ASSUME MemoInv, TraceTypeOK, NEW c \in Conns, NEW id \in 0 .. MaxTraces, Remember(c, id)
    PROVE  /\ IsFiniteSet(Memoized') /\ Cardinality(Memoized') <= MaxConns
           /\ Memoized' \subseteq Memoized \cup {c}
  <1> DEFINE M == Memoized \cup {c}
  <1>1. PICK drop \in SUBSET (Memoized \ {c}) :
          /\ Cardinality(M \ drop) = IF Cardinality(M) > MaxConns THEN MaxConns ELSE Cardinality(M)
          /\ memo' = [x \in Conns |-> IF x = c THEN id ELSE IF x \in drop THEN 0 ELSE memo[x]]
    BY DEF Remember
  <1>2. Memoized' \subseteq M \ drop BY <1>1 DEF Memoized
  <1>3. IsFiniteSet(M)
    <2>1. IsFiniteSet(Memoized) BY DEF MemoInv
    <2> QED BY <2>1, FS_AddElement
  <1>4. IsFiniteSet(M \ drop) BY <1>3, FS_Difference
  <1>5. IsFiniteSet(Memoized') /\ Cardinality(Memoized') <= Cardinality(M \ drop) BY <1>2, <1>4, FS_Subset
  <1>6. Cardinality(M \ drop) \in Nat /\ Cardinality(M) \in Nat /\ Cardinality(Memoized') \in Nat
    BY <1>3, <1>4, <1>5, FS_CardinalityType
  <1>7. Cardinality(M \ drop) <= MaxConns BY <1>1, <1>6, TraceAssumption
  <1> QED BY <1>2, <1>5, <1>6, <1>7, TraceAssumption

LEMMA MemoBegins == TraceInit => MemoInv
  <1> SUFFICES ASSUME TraceInit PROVE MemoInv OBVIOUS
  <1>1. Memoized = {} BY DEF TraceInit, Memoized
  <1> QED BY <1>1, FS_EmptySet, TraceAssumption DEF MemoInv, MemoIsLive

LEMMA MemoSteps == TraceInv /\ MemoInv /\ [TraceNext]_traceVars => MemoInv'
  <1> SUFFICES ASSUME TraceInv, MemoInv, [TraceNext]_traceVars PROVE MemoInv' OBVIOUS
  <1>0. TraceTypeOK /\ TaskInv /\ FlightInv /\ Memoized \cap gone \subseteq unclosed
    BY DEF TraceInv, MemoInv, MemoIsLive
  <1>t. /\ \A p \in Calls : call[p].c \in Conns \cup {"none"} /\ call[p].id \in 0 .. MaxTraces
        /\ memo \in [Conns -> 0 .. MaxTraces]
    BY <1>0, TraceTyped DEF TraceTypeOK
  \* Most steps only forget connections, or leave more of them to the net.
  <1>1. ASSUME Memoized' \subseteq Memoized, gone' = gone, unclosed \subseteq unclosed' PROVE MemoInv'
    <2>1. IsFiniteSet(Memoized') /\ Cardinality(Memoized') <= MaxConns BY <1>1, MemoShrinks
    <2> QED BY <1>0, <1>1, <2>1 DEF MemoInv, MemoIsLive
  <1>2. ASSUME memo' = memo, gone' = gone, unclosed \subseteq unclosed' PROVE MemoInv'
    BY <1>1, <1>2 DEF Memoized
  <1>3. ASSUME NEW p \in Calls, ObserveReturns(p) PROVE MemoInv'
    <2>1. /\ memo' = memo \/ memo' = [memo EXCEPT ![call[p].c] = 0]
          /\ gone' = gone /\ unclosed' = unclosed
      BY <1>3 DEF ObserveReturns
    <2>2. Memoized' \subseteq Memoized BY <1>t, <2>1 DEF Memoized
    <2> QED BY <1>1, <2>1, <2>2
  <1>4. ASSUME NEW p \in Calls, OpenReturns(p) PROVE MemoInv'
    <2> DEFINE c == call[p].c
    <2>1. call[p].at = "opened" /\ gone' = gone /\ unclosed' = unclosed BY <1>4 DEF OpenReturns
    <2>2. c \in Conns /\ InFlight(c) BY <1>0, <2>1 DEF TaskInv, InFlight
    <2>3. CASE c \in DOMAIN terminated
      <3>1. memo' = [memo EXCEPT ![c] = 0] BY <1>4, <2>3 DEF OpenReturns, Terminate
      <3>2. Memoized' \subseteq Memoized BY <1>t, <3>1 DEF Memoized
      <3> QED BY <1>1, <2>1, <3>2
    <2>4. CASE c \notin DOMAIN terminated
      <3>1. Remember(c, call[p].id) BY <1>4, <2>4 DEF OpenReturns
      <3>2. /\ IsFiniteSet(Memoized') /\ Cardinality(Memoized') <= MaxConns
            /\ Memoized' \subseteq Memoized \cup {c}
        BY <1>0, <1>t, <2>2, <3>1, MemoGrows
      <3>3. c \notin gone \ unclosed BY <1>0, <2>2, <2>4 DEF FlightInv
      <3> QED BY <1>0, <2>1, <3>2, <3>3 DEF MemoInv, MemoIsLive
    <2> QED BY <2>3, <2>4
  <1>5. ASSUME NEW p \in Calls, NEW c \in Conns, ConnectionEnds(p, c) PROVE MemoInv'
    <2>1. gone' = gone \cup {c} /\ unclosed' = unclosed /\ memo' = [memo EXCEPT ![c] = 0]
      BY <1>5 DEF ConnectionEnds, Terminate
    <2>2. Memoized' \subseteq Memoized \ {c} BY <1>t, <2>1 DEF Memoized
    <2>3. IsFiniteSet(Memoized') /\ Cardinality(Memoized') <= MaxConns BY <2>2, MemoShrinks
    <2> QED BY <1>0, <2>1, <2>2, <2>3 DEF MemoInv, MemoIsLive
  <1>6. ASSUME NEW p \in Calls, EnsureOpen(p) \/ ObserveRuns(p) \/ OpenRuns(p) \/ CloseRuns(p) PROVE MemoInv'
    BY <1>2, <1>6 DEF EnsureOpen, ObserveRuns, OpenRuns, CloseRuns
  <1>7. ASSUME NEW p \in Calls, NEW c \in Conns, CallArrives(p, c) PROVE MemoInv'
    BY <1>2, <1>7 DEF CallArrives
  <1>8. ASSUME NEW c \in Conns, NetCloses(c) PROVE MemoInv'
    BY <1>2, <1>8 DEF NetCloses
  <1>9. CASE UNCHANGED traceVars BY <1>2, <1>9 DEF traceVars
  <1> QED BY <1>3, <1>4, <1>5, <1>6, <1>7, <1>8, <1>9 DEF TraceNext

\* The memory of open traces stays within max_connections and never brings
\* back a connection that ended, but one the opener left to the trace net, for
\* any number of connections and calls and any order of calls, ends and
\* evictions.
THEOREM MemoTheorem == TraceSpec => []MemoIsLive
  <1>1. MemoInv => MemoIsLive BY DEF MemoInv
  <1> QED BY <1>1, MemoBegins, MemoSteps, TraceAlways, PTL DEF TraceSpec
=============================================================================
