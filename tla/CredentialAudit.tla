--------------------------- MODULE CredentialAudit ---------------------------
(***************************************************************************)
(* The audit outbox of administrative elevations: a grant and an end write *)
(* their audit row with the gesture itself, an expiry is found and written *)
(* by the drain, and every server process drains the rows into its log     *)
(* (repositories/pg_client_credentials.py, credentials/audit.py).          *)
(*                                                                         *)
(* A gesture is one transaction and one step.  A drain is one transaction  *)
(* of several steps that hold their row locks to its end; what it logged   *)
(* stays logged when it fails.                                             *)
(***************************************************************************)
EXTENDS Integers, FiniteSets

CONSTANTS
    Elevations,
    Drainers,       \* server processes
    DrainBatch,     \* rows claimed by one drain (100)
    MaxFailures     \* bound on drains that fail

VARIABLES
    elev,           \* [Elevations -> the row; over once expires_at has passed]
    audit,          \* [Events -> audit rows committed]
    emitted,        \* events with emitted_at
    logged,         \* events a log has shown
    drain,          \* [Drainers -> the transaction in progress]
    failures

auditVars == <<elev, audit, emitted, logged, drain, failures>>

Events == {"elevated", "unelevated", "elevation_expired"} \X Elevations
Elevated(e) == <<"elevated", e>>
Unelevated(e) == <<"unelevated", e>>
ElevationExpired(e) == <<"elevation_expired", e>>

\* At least one process drains.
ASSUME AuditAssumption == IsFiniteSet(Drainers) /\ Drainers # {} /\ MaxFailures \in Nat

NoDrain == [at |-> "idle", due |-> {}, rows |-> {}, shown |-> {}]

\* An ended elevation is "ended" if its expiry had not been audited before.
AuditTypeOK ==
    /\ elev \in [Elevations -> [status : {"absent", "granted", "ended", "ended_late"}, over : BOOLEAN,
                                audited : BOOLEAN]]
    /\ audit \in [Events -> 0 .. Cardinality(Drainers)]
    /\ emitted \in SUBSET Events /\ logged \in SUBSET Events
    /\ drain \in [Drainers -> [at : {"idle", "swept", "claimed"}, due : SUBSET Elevations,
                               rows : SUBSET Events, shown : SUBSET Events]]
    /\ failures \in 0 .. MaxFailures

AuditInit ==
    /\ elev = [e \in Elevations |-> [status |-> "absent", over |-> FALSE, audited |-> FALSE]]
    /\ audit = [v \in Events |-> 0]
    /\ emitted = {} /\ logged = {}
    /\ drain = [d \in Drainers |-> NoDrain]
    /\ failures = 0

(***************************************************************************)
(* Gestures                                                                *)
(***************************************************************************)
GrantElevation(e) ==
    /\ elev[e].status = "absent"
    /\ elev' = [elev EXCEPT ![e].status = "granted"]
    /\ audit' = [audit EXCEPT ![Elevated(e)] = @ + 1]
    /\ UNCHANGED <<emitted, logged, drain, failures>>

\* The clock reaches expires_at.
RunsOut(e) ==
    /\ elev[e].status = "granted" /\ ~elev[e].over
    /\ elev' = [elev EXCEPT ![e].over = TRUE]
    /\ UNCHANGED <<audit, emitted, logged, drain, failures>>

Swept == UNION {drain[d].due : d \in Drainers}

\* The update waits for a sweep that holds the row, and asks only that the
\* elevation was not ended: one that ran out may still be.
EndElevation(e) ==
    /\ elev[e].status = "granted" /\ e \notin Swept
    /\ elev' = [elev EXCEPT ![e].status = IF elev[e].audited THEN "ended_late" ELSE "ended"]
    /\ audit' = [audit EXCEPT ![Unelevated(e)] = @ + 1]
    /\ UNCHANGED <<emitted, logged, drain, failures>>

(***************************************************************************)
(* drain_once                                                              *)
(***************************************************************************)
Due == {e \in Elevations : elev[e].over /\ elev[e].status = "granted" /\ ~elev[e].audited}

SweepUnlocked(d) ==
    /\ drain[d].at = "idle"
    /\ drain' = [drain EXCEPT ![d].at = "swept", ![d].due = Due]
    /\ UNCHANGED <<elev, audit, emitted, logged, failures>>

\* FOR UPDATE SKIP LOCKED: a row another drain holds is left to it.
Sweep(d) ==
    /\ drain[d].at = "idle"
    /\ drain' = [drain EXCEPT ![d].at = "swept", ![d].due = Due \ Swept]
    /\ UNCHANGED <<elev, audit, emitted, logged, failures>>

Claimed == UNION {drain[d].rows : d \in Drainers}

\* The drain sees its own new rows.
UnemittedFor(d) == ({v \in Events : audit[v] > 0} \ (emitted \cup Claimed)) \cup {ElevationExpired(e) : e \in drain[d].due}

ClaimUnemitted(d) ==
    /\ drain[d].at = "swept"
    /\ \E rows \in SUBSET UnemittedFor(d) :
          /\ Cardinality(rows) = IF Cardinality(UnemittedFor(d)) > DrainBatch THEN DrainBatch
                                 ELSE Cardinality(UnemittedFor(d))
          /\ drain' = [drain EXCEPT ![d].at = "claimed", ![d].rows = rows]
    /\ UNCHANGED <<elev, audit, emitted, logged, failures>>

Log(d) ==
    /\ drain[d].at = "claimed"
    /\ \E v \in drain[d].rows \ drain[d].shown :
          /\ logged' = logged \cup {v}
          /\ drain' = [drain EXCEPT ![d].shown = @ \cup {v}]
    /\ UNCHANGED <<elev, audit, emitted, failures>>

\* Marked without having been read: everything there was to claim.
EmittedOfAll(d) == {v \in Events : audit[v] > 0} \cup drain[d].rows

EmittedOf(d) == drain[d].rows

Commit(d) ==
    /\ drain[d].at = "claimed" /\ drain[d].shown = drain[d].rows
    /\ elev' = [e \in Elevations |-> IF e \in drain[d].due THEN [elev[e] EXCEPT !.audited = TRUE] ELSE elev[e]]
    /\ audit' = [v \in Events |-> IF v \in {ElevationExpired(e) : e \in drain[d].due} THEN audit[v] + 1
                                  ELSE audit[v]]
    /\ emitted' = emitted \cup EmittedOf(d)
    /\ drain' = [drain EXCEPT ![d] = NoDrain]
    /\ UNCHANGED <<logged, failures>>

\* An exception or the end of the process rolls the claim back.
Rollback(d) ==
    /\ drain[d].at # "idle" /\ failures < MaxFailures
    /\ failures' = failures + 1
    /\ drain' = [drain EXCEPT ![d] = NoDrain]
    /\ UNCHANGED <<elev, audit, emitted, logged>>

Drains(d) == Sweep(d) \/ ClaimUnemitted(d) \/ Log(d) \/ Commit(d)

AuditNext ==
    \/ \E e \in Elevations : GrantElevation(e) \/ RunsOut(e) \/ EndElevation(e)
    \/ \E d \in Drainers : Sweep(d) \/ ClaimUnemitted(d) \/ Log(d) \/ Commit(d) \/ Rollback(d)

AuditSpec == AuditInit /\ [][AuditNext]_auditVars

(***************************************************************************)
(* Properties                                                              *)
(***************************************************************************)
\* Two drains never both audit one expiry (the second would break the
\* unique index and fail every drain after it), and an elevation ended
\* before its expiry was audited is never reported as expired.
ExpiryAuditedOnce ==
    \A e \in Elevations :
        /\ audit[ElevationExpired(e)] <= 1
        /\ elev[e].status = "ended" => audit[ElevationExpired(e)] = 0

\* Every gesture reaches a log and is marked, although drains overlap and
\* finitely many of them fail: no row is marked by a drain that did not log it
\* (drain_once, mark_audit_emitted).
GestureIsLogged ==
    \A v \in Events : (audit[v] > 0) ~> (v \in logged /\ v \in emitted)
=============================================================================
