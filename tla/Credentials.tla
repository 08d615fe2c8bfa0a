----------------------------- MODULE Credentials -----------------------------
(***************************************************************************)
(* The credential verifier of one server process: it answers from a        *)
(* snapshot of the registry that a refresh replaces whole, refuses when    *)
(* the snapshot is too old, and asks the database about a token the        *)
(* snapshot does not hold (credentials/verifier.py, with the registry of   *)
(* repositories/pg_client_credentials.py).  A step is what runs between    *)
(* two awaits; a database answer arrives some time after it was read.      *)
(***************************************************************************)
EXTENDS Integers, FiniteSets

CONSTANTS
    Tokens,         \* issued tokens, each standing for its digest
    Expires,        \* [Tokens -> expires_at]; beyond MaxTime is never
    Tasks,          \* verifications in flight
    Grace,          \* a snapshot older than this is refused (90 s)
    LookupGap,      \* least time between two lookups (5 s)
    MaxQuery,       \* a refresh running longer times out
    KnownCap,       \* remembered refusals (1024)
    MaxTime         \* bound on the clock

Nil == "none"
Never == -1

VARIABLES
    now,
    row,            \* [Tokens -> status and revoked_at]
    snap,           \* tokens of the snapshot
    loaded,         \* _last_success
    refresh,        \* the refresh holding the lock: at, from, rows, by
    known,          \* tokens with a remembered refusal
    lookedUp,       \* _last_lookup_at
    task            \* [Tasks -> at, token, when it was answered]

credentialsVars == <<now, row, snap, loaded, refresh, known, lookedUp, task>>

NoRefresh == [at |-> "idle", from |-> 0, rows |-> {}, by |-> Nil]
NoTask == [at |-> "idle", tok |-> Nil, on |-> 0]

Times == 0 .. MaxTime

\* What a deployment's settings satisfy.
ASSUME CredentialsAssumption ==
    /\ MaxTime \in Nat /\ Grace \in Nat /\ MaxQuery \in Nat
    /\ Expires \in [Tokens -> Int]
    /\ Nil \notin Tasks

\* The clock, the registry, the snapshot and the tasks keep their shapes.
CredentialsTypeOK ==
    /\ now \in Times /\ loaded \in Times \cup {Never} /\ lookedUp \in Times \cup {Never}
    /\ row \in [Tokens -> [status : {"absent", "active", "revoked"}, at : Times]]
    /\ snap \in SUBSET Tokens /\ known \in SUBSET Tokens
    /\ refresh \in [at : {"idle", "query", "read"}, from : Times, rows : SUBSET Tokens,
                    by : Tasks \cup {Nil}]
    /\ task \in [Tasks -> [at : {"idle", "lookup", "active", "unknown", "closed", "refresh", "refreshing",
                                 "accepted", "refused"},
                           tok : Tokens \cup {Nil}, on : Times]]

CredentialsInit ==
    /\ now = 0
    /\ row = [t \in Tokens |-> [status |-> "absent", at |-> 0]]
    /\ snap = {} /\ loaded = Never
    /\ refresh = NoRefresh
    /\ known = {} /\ lookedUp = Never
    /\ task = [p \in Tasks |-> NoTask]

Tick ==
    /\ now < MaxTime
    /\ refresh.at # "idle" => now - refresh.from < MaxQuery
    /\ now' = now + 1
    /\ UNCHANGED <<row, snap, loaded, refresh, known, lookedUp, task>>

(***************************************************************************)
(* The registry                                                            *)
(***************************************************************************)
Issue(t) ==
    /\ row[t].status = "absent"
    /\ row' = [row EXCEPT ![t].status = "active"]
    /\ UNCHANGED <<now, snap, loaded, refresh, known, lookedUp, task>>

\* A second revocation is refused and keeps the first date.
Revoke(t) ==
    /\ row[t].status = "active"
    /\ row' = [row EXCEPT ![t] = [status |-> "revoked", at |-> now]]
    /\ UNCHANGED <<now, snap, loaded, refresh, known, lookedUp, task>>

ActiveRows(at) == {t \in Tokens : row[t].status = "active" /\ Expires[t] > at}

(***************************************************************************)
(* Refresh: the loop, a notification, a reconnection or a verification     *)
(***************************************************************************)
\* The lock admits one; its age counts from before its query.
RefreshBegins(by) ==
    /\ refresh.at = "idle"
    /\ refresh' = [at |-> "query", from |-> now, rows |-> {}, by |-> by]
    /\ IF by = Nil THEN UNCHANGED task
       ELSE task[by].at = "refresh" /\ task' = [task EXCEPT ![by].at = "refreshing"]
    /\ UNCHANGED <<now, row, snap, loaded, known, lookedUp>>

RefreshReads ==
    /\ refresh.at = "query"
    /\ refresh' = [refresh EXCEPT !.at = "read", !.rows = ActiveRows(refresh.from)]
    /\ UNCHANGED <<now, row, snap, loaded, known, lookedUp, task>>

Expired(t) == Expires[t] <= now

\* The verification's own refresh returned: match once more, with no look
\* at the snapshot's age.
Answer(by, tokens) ==
    IF by = Nil THEN task
    ELSE LET matched == task[by].tok \in tokens /\ ~Expired(task[by].tok)
         IN  [task EXCEPT ![by].at = IF matched THEN "accepted" ELSE "refused", ![by].on = now]

LoadedAtPublication == now
LoadedAt == refresh.from

RefreshPublishes ==
    /\ refresh.at = "read"
    /\ snap' = refresh.rows
    /\ known' = known \ refresh.rows
    /\ loaded' = LoadedAt
    /\ task' = Answer(refresh.by, refresh.rows)
    /\ refresh' = NoRefresh
    /\ UNCHANGED <<now, row, lookedUp>>

\* The old snapshot stays.
RefreshFails ==
    /\ refresh.at # "idle"
    /\ task' = Answer(refresh.by, {})
    /\ refresh' = NoRefresh
    /\ UNCHANGED <<now, row, snap, loaded, known, lookedUp>>

(***************************************************************************)
(* verify                                                                  *)
(***************************************************************************)
Fresh == loaded # Never /\ now - loaded <= Grace

MayLookup == lookedUp = Never \/ now - lookedUp >= LookupGap

Verify(p, t) ==
    /\ task[p].at \in {"idle", "accepted", "refused"}
    /\ LET asks == Fresh /\ t \notin snap \cup known /\ MayLookup IN
       /\ task' = [task EXCEPT ![p] = [tok |-> t, on |-> now,
                                       at |-> IF asks THEN "lookup"
                                              ELSE IF Fresh /\ t \in snap /\ ~Expired(t) THEN "accepted"
                                              ELSE "refused"]]
       /\ lookedUp' = IF asks THEN now ELSE lookedUp
    /\ UNCHANGED <<now, row, snap, loaded, refresh, known>>

\* disposition_by_digest; a failing query refuses.
LookupRuns(p) ==
    /\ task[p].at = "lookup"
    /\ LET t == task[p].tok
           disposition == IF row[t].status = "absent" THEN "unknown"
                          ELSE IF row[t].status = "revoked" \/ Expired(t) THEN "closed"
                          ELSE "active"
       IN  task' = [task EXCEPT ![p].at = disposition]
    /\ UNCHANGED <<now, row, snap, loaded, refresh, known, lookedUp>>

Refuses(p) == task' = [task EXCEPT ![p].at = "refused", ![p].on = now]

LookupFails(p) ==
    /\ task[p].at = "lookup"
    /\ Refuses(p)
    /\ UNCHANGED <<now, row, snap, loaded, refresh, known, lookedUp>>

\* Beyond the cap an older refusal is forgotten.
LookupReturns(p) ==
    /\ task[p].at \in {"active", "unknown", "closed"}
    /\ LET t == task[p].tok IN
       IF ~Fresh \/ task[p].at = "unknown" THEN Refuses(p) /\ UNCHANGED known
       ELSE IF task[p].at = "active" THEN task' = [task EXCEPT ![p].at = "refresh"] /\ UNCHANGED known
       ELSE /\ Refuses(p)
            /\ \E out \in SUBSET (known \ {t}) :
                  /\ Cardinality(out) = IF Cardinality(known \cup {t}) > KnownCap THEN 1 ELSE 0
                  /\ known' = (known \cup {t}) \ out
    /\ UNCHANGED <<now, row, snap, loaded, refresh, lookedUp>>

CredentialsNext ==
    \/ Tick \/ RefreshReads \/ RefreshPublishes \/ RefreshFails
    \/ \E by \in Tasks \cup {Nil} : RefreshBegins(by)
    \/ \E t \in Tokens : Issue(t) \/ Revoke(t)
    \/ \E p \in Tasks : \/ LookupRuns(p) \/ LookupFails(p) \/ LookupReturns(p)
                        \/ \E t \in Tokens : Verify(p, t)

CredentialsSpec == CredentialsInit /\ [][CredentialsNext]_credentialsVars

(***************************************************************************)
(* Properties                                                              *)
(***************************************************************************)
Longest == IF Grace > MaxQuery THEN Grace ELSE MaxQuery

\* A token is accepted only if it was issued and has not expired, and a
\* revoked one at most Grace after its revocation, whatever the refreshes,
\* their delays and failures; or the length of one refresh, when that is
\* longer and the verification waited for it.
RevocationIsBounded ==
    \A p \in Tasks :
        task[p].at = "accepted" =>
            LET t == task[p].tok IN
            /\ row[t].status # "absent" /\ task[p].on < Expires[t]
            /\ row[t].status = "revoked" => task[p].on - row[t].at <= Longest
=============================================================================
