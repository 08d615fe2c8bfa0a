-------------------------- MODULE CredentialProofs --------------------------
(***************************************************************************)
(* The three components about credentials: the server's view of tokens and *)
(* elevations (Credentials), the last-use audit (CredentialAudit) and the  *)
(* rotation scripts (CredentialRotation). They share no state; each part   *)
(* has its own inductive invariant.                                        *)
(***************************************************************************)
EXTENDS Credentials, CredentialAudit, CredentialRotation, FiniteSetTheorems, TLAPS

-----------------------------------------------------------------------------
(***************************************************************************)
(* That a revoked token is accepted for a bounded time only, for every set *)
(* of tokens and of verifications and every grace and query time.          *)
(*                                                                         *)
(* The bound rests on what a set of rows read from the registry still says *)
(* at a later time: each of its tokens was issued, and if it was revoked   *)
(* since, then after the moment the set's age counts from (Seen).  That    *)
(* moment is before the query, so nothing is lost to a slow answer.        *)
(***************************************************************************)

Row == [status : {"absent", "active", "revoked"}, at : Times]
Refresh == [at : {"idle", "query", "read"}, from : Times, rows : SUBSET Tokens,
            by : Tasks \cup {Nil}]
Task == [at : {"idle", "lookup", "active", "unknown", "closed", "refresh", "refreshing",
               "accepted", "refused"},
         tok : Tokens \cup {Nil}, on : Times]

\* What holds of a token in rows whose age counts from then.
Seen(t, then) ==
    /\ row[t].status # "absent"
    /\ row[t].status = "revoked" => row[t].at >= then

\* From the lookup's start to its answer.
LookingUp == {"lookup", "active", "unknown", "closed"}

\* What holds of an accepted verification ever after.
Justified(k) ==
    /\ k.tok \in Tokens
    /\ k.on <= now
    /\ k.on < Expires[k.tok]
    /\ row[k.tok].status # "absent"
    /\ row[k.tok].status = "revoked" => k.on - row[k.tok].at <= Longest

ClockInv ==
    /\ loaded <= now
    /\ \A t \in Tokens : row[t].at <= now
    /\ refresh.from <= now
    /\ refresh.at # "idle" => now - refresh.from <= MaxQuery

TokenRowsInv == \A t \in refresh.rows : Seen(t, refresh.from)
SnapInv == \A t \in snap : Seen(t, loaded)
TaskInv ==
    \A p \in Tasks : /\ task[p].at = "accepted" => Justified(task[p])
                     /\ task[p].at \in LookingUp => task[p].tok \in Tokens

TokenInv == CredentialsTypeOK /\ ClockInv /\ TokenRowsInv /\ SnapInv /\ TaskInv

(***************************************************************************)
(* Lemmas                                                                  *)
(***************************************************************************)
\* TypeOK in terms of the record types above.
LEMMA TokenShapes ==
    ASSUME CredentialsTypeOK
    PROVE  /\ now \in Times /\ loaded \in Times \cup {Never} /\ lookedUp \in Times \cup {Never}
           /\ row \in [Tokens -> Row] /\ refresh \in Refresh /\ task \in [Tasks -> Task]
           /\ snap \in SUBSET Tokens /\ known \in SUBSET Tokens
  BY DEF CredentialsTypeOK, Row, Refresh, Task

\* Longest bounds both delays.
LEMMA LongestBounds ==
    Longest \in Nat /\ Grace <= Longest /\ MaxQuery <= Longest
  BY CredentialsAssumption DEF Longest

\* The registry only moves a row forward at the present time, so what a set
\* of rows says, and what justified an answer, stays true (Issue, Revoke).
LEMMA RegistryMoves ==
    ASSUME CredentialsTypeOK, ClockInv, NEW u \in Tokens, Issue(u) \/ Revoke(u)
    PROVE  /\ row' \in [Tokens -> Row]
           /\ \A t \in Tokens : row'[t].at <= now
           /\ \A t \in Tokens, then \in Int : then <= now /\ Seen(t, then) => Seen(t, then)'
           /\ \A p \in Tasks : Justified(task[p]) => Justified(task[p])'
  <1>0. now \in Times /\ row \in [Tokens -> Row] /\ task \in [Tasks -> Task] /\ now' = now /\ task' = task
    BY TokenShapes DEF Issue, Revoke
  <1>1. /\ row' \in [Tokens -> Row]
        /\ \A t \in Tokens : \/ row'[t] = row[t]
                             \/ row[t].status = "absent" /\ row'[t].status = "active" /\ row'[t].at = row[t].at
                             \/ row[t].status = "active" /\ row'[t].status = "revoked" /\ row'[t].at = now
    <2>1. CASE Issue(u)
      <3> DEFINE q == [row[u] EXCEPT !.status = "active"]
      <3>1. q \in Row /\ q.status = "active" /\ q.at = row[u].at BY <1>0 DEF Row
      <3>2. row' = [row EXCEPT ![u] = q] BY <2>1 DEF Issue
      <3> HIDE DEF q
      <3> QED BY <1>0, <3>1, <3>2, <2>1 DEF Issue
    <2>2. CASE Revoke(u)
      <3> DEFINE q == [status |-> "revoked", at |-> now]
      <3>1. q \in Row /\ q.status = "revoked" /\ q.at = now BY <1>0 DEF Row
      <3>2. row' = [row EXCEPT ![u] = q] BY <2>2 DEF Revoke
      <3> HIDE DEF q
      <3> QED BY <1>0, <3>1, <3>2, <2>2 DEF Revoke
    <2> QED BY <2>1, <2>2
  <1>2. \A t \in Tokens : row'[t].at <= now
    BY <1>0, <1>1, CredentialsAssumption DEF ClockInv, Times
  <1>3. ASSUME NEW t \in Tokens, NEW then \in Int, then <= now, Seen(t, then)
        PROVE  Seen(t, then)'
    BY <1>0, <1>1, <1>3, CredentialsAssumption DEF Seen, Times
  <1>4. ASSUME NEW p \in Tasks, Justified(task[p])
        PROVE  Justified(task[p])'
    <2>1. task[p].on \in Int /\ now \in Int BY <1>0, CredentialsAssumption DEF Task, Times
    <2>2. Longest \in Nat BY LongestBounds
    <2> DEFINE k == task[p]
    <2>3. k.tok \in Tokens /\ k.on <= now /\ k.on < Expires[k.tok] BY <1>4 DEF Justified
    <2>4. row'[k.tok].status # "absent" BY <1>1, <1>4, <2>3 DEF Justified
    <2>5. row'[k.tok].status = "revoked" => k.on - row'[k.tok].at <= Longest
      BY <1>1, <1>4, <2>1, <2>2, <2>3 DEF Justified
    <2> QED BY <1>0, <2>3, <2>4, <2>5 DEF Justified
  <1> QED BY <1>1, <1>2, <1>3, <1>4

\* A verification that gets a new answer: the others keep theirs, and the
\* new one is justified if it accepts (Answer, Verify, Refuses).
LEMMA TaskMoves ==
    ASSUME CredentialsTypeOK, TaskInv, NEW p \in Tasks, NEW k \in Task,
           task' = [task EXCEPT ![p] = k], UNCHANGED <<now, row>>,
           k.at = "accepted" => Justified(k), k.at \in LookingUp => k.tok \in Tokens
    PROVE  task' \in [Tasks -> Task] /\ TaskInv'
  <1>1. task \in [Tasks -> Task] BY TokenShapes
  <1>2. task' \in [Tasks -> Task] BY <1>1
  <1>3. ASSUME NEW q \in Tasks, task'[q].at = "accepted" PROVE Justified(task[q])'
    <2>1. CASE q = p
      <3>1. task'[q] = k BY <1>1, <2>1
      <3> QED BY <1>3, <3>1 DEF Justified
    <2>2. CASE q # p
      <3>1. task'[q] = task[q] BY <1>1, <2>2
      <3> QED BY <1>3, <3>1 DEF Justified, TaskInv
    <2> QED BY <2>1, <2>2
  <1>4. ASSUME NEW q \in Tasks, task'[q].at \in LookingUp PROVE task'[q].tok \in Tokens
    <2>1. task'[q] = IF q = p THEN k ELSE task[q] BY <1>1
    <2> QED BY <1>4, <2>1 DEF TaskInv
  <1> QED BY <1>2, <1>3, <1>4 DEF TaskInv

\* A step of a verification that answers nothing.
LEMMA TaskWaits ==
    ASSUME CredentialsTypeOK, TaskInv, NEW p \in Tasks, NEW a,
           a \in {"lookup", "active", "unknown", "closed", "refresh", "refreshing"},
           a \in LookingUp => task[p].at \in LookingUp,
           task' = [task EXCEPT ![p].at = a], UNCHANGED <<now, row>>
    PROVE  task' \in [Tasks -> Task] /\ TaskInv'
  <1> DEFINE k == [task[p] EXCEPT !.at = a]
  <1>0. task[p] \in Task BY TokenShapes
  <1>1. k \in Task /\ k.at = a /\ k.tok = task[p].tok BY <1>0 DEF Task
  <1>2. task' = [task EXCEPT ![p] = k] OBVIOUS
  <1> HIDE DEF k
  <1>3. a \in LookingUp => k.tok \in Tokens BY <1>1 DEF TaskInv
  <1> QED BY <1>1, <1>2, <1>3, TaskMoves

\* A refusal.
LEMMA TaskRefused ==
    ASSUME CredentialsTypeOK, TaskInv, NEW p \in Tasks, Refuses(p), UNCHANGED <<now, row>>
    PROVE  task' \in [Tasks -> Task] /\ TaskInv'
  <1> DEFINE k == [task[p] EXCEPT !.at = "refused", !.on = now]
  <1>0. task[p] \in Task /\ now \in Times BY TokenShapes
  <1>1. k \in Task /\ k.at = "refused" BY <1>0 DEF Task
  <1>2. task' = [task EXCEPT ![p] = k] BY DEF Refuses
  <1> HIDE DEF k
  <1> QED BY <1>1, <1>2, TaskMoves DEF LookingUp

\* The verification that waited for a refresh is answered from its rows,
\* whose age is at most the query's time (Answer).
LEMMA Answered ==
    ASSUME TokenInv, refresh.at # "idle", NEW tokens \in {refresh.rows, {}},
           task' = Answer(refresh.by, tokens), UNCHANGED <<now, row>>
    PROVE  task' \in [Tasks -> Task] /\ TaskInv'
  <1>0. /\ now \in Times /\ refresh \in Refresh /\ task \in [Tasks -> Task] /\ row \in [Tokens -> Row]
        /\ CredentialsTypeOK /\ TaskInv
    BY TokenShapes DEF TokenInv
  <1>1. CASE refresh.by = Nil
    <2>1. task' = task BY <1>1 DEF Answer
    <2> QED BY <1>0, <2>1 DEF TaskInv, Justified
  <1>2. CASE refresh.by # Nil
    <2> DEFINE b == refresh.by
               matched == task[b].tok \in tokens /\ ~Expired(task[b].tok)
               k == [task[b] EXCEPT !.at = IF matched THEN "accepted" ELSE "refused", !.on = now]
    <2>1. b \in Tasks BY <1>0, <1>2 DEF Refresh
    <2>2. task[b] \in Task BY <1>0, <2>1
    <2>3. task' = [task EXCEPT ![b] = k] BY <1>2 DEF Answer
    <2>4. k \in Task /\ k.tok = task[b].tok /\ k.on = now /\ k.at = IF matched THEN "accepted" ELSE "refused"
      BY <1>0, <2>2 DEF Task
    <2>5. ASSUME matched PROVE Justified(k)
      <3> DEFINE t == task[b].tok
      <3>1. t \in refresh.rows /\ t \in Tokens BY <1>0, <2>5 DEF Refresh
      <3>2. Seen(t, refresh.from) BY <3>1 DEF TokenInv, TokenRowsInv
      <3>3. now - refresh.from <= MaxQuery BY DEF TokenInv, ClockInv
      <3>4. now < Expires[t] BY <1>0, <2>5, <3>1, CredentialsAssumption DEF Expired, Times
      <3>5. row[t] \in Row BY <1>0, <3>1
      <3>6. row[t].at \in Int /\ refresh.from \in Int /\ now \in Int /\ MaxQuery \in Int
        BY <1>0, <3>5, CredentialsAssumption DEF Row, Refresh, Times
      <3>7. row[t].status = "revoked" => now - row[t].at <= Longest
        BY <3>2, <3>3, <3>6, LongestBounds DEF Seen
      <3>8. row[t].status # "absent" BY <3>2 DEF Seen
      <3> HIDE DEF t
      <3>9. k.tok = t BY <2>4 DEF t
      <3> HIDE DEF k, b, matched
      <3> QED BY <2>4, <3>1, <3>4, <3>6, <3>7, <3>8, <3>9 DEF Justified
    <2>6. k.at = "accepted" => Justified(k) BY <2>4, <2>5
    <2>7. k.at \notin LookingUp BY <2>4 DEF LookingUp
    <2> HIDE DEF k, matched, b
    <2> QED BY <1>0, <2>1, <2>3, <2>4, <2>6, <2>7, TaskMoves
  <1> QED BY <1>1, <1>2

(***************************************************************************)
(* The invariant                                                           *)
(***************************************************************************)
\* No row, no snapshot, no verification at the start.
LEMMA TokenInitInv == CredentialsInit => TokenInv
  <1> SUFFICES ASSUME CredentialsInit PROVE TokenInv OBVIOUS
  <1>0. 0 \in Times BY CredentialsAssumption DEF Times
  <1>1. row \in [Tokens -> Row] /\ \A t \in Tokens : row[t].at = 0
    BY <1>0 DEF CredentialsInit, Row
  <1>2. refresh \in Refresh /\ refresh.at = "idle" /\ refresh.rows = {} /\ refresh.from = 0
    BY <1>0 DEF CredentialsInit, NoRefresh, Refresh
  <1>3. task \in [Tasks -> Task] /\ \A p \in Tasks : task[p].at = "idle"
    BY <1>0 DEF CredentialsInit, NoTask, Task
  <1>4. CredentialsTypeOK
    BY <1>0, <1>1, <1>2, <1>3 DEF CredentialsInit, CredentialsTypeOK, Row, Refresh, Task
  <1>5. ClockInv BY <1>1, <1>2 DEF CredentialsInit, ClockInv, Never
  <1> QED BY <1>2, <1>3, <1>4, <1>5 DEF CredentialsInit, TokenInv, TokenRowsInv, SnapInv, TaskInv, LookingUp

\* Every step keeps the invariant.
LEMMA TokenStepInv == ASSUME TokenInv, [CredentialsNext]_credentialsVars PROVE TokenInv'
  <1>0. /\ now \in Times /\ loaded \in Times \cup {Never} /\ lookedUp \in Times \cup {Never}
        /\ row \in [Tokens -> Row] /\ refresh \in Refresh /\ task \in [Tasks -> Task]
        /\ snap \in SUBSET Tokens /\ known \in SUBSET Tokens
        /\ CredentialsTypeOK /\ ClockInv /\ TokenRowsInv /\ SnapInv /\ TaskInv
    BY TokenShapes DEF TokenInv
  <1>a. now \in Int /\ MaxTime \in Int /\ now >= 0 /\ MaxQuery \in Int /\ MaxQuery >= 0
    BY <1>0, CredentialsAssumption DEF Times
  <1>b. loaded \in Int /\ refresh.from \in Int
    BY <1>0, CredentialsAssumption DEF Times, Never, Refresh
  <1>c. \A t \in Tokens : row[t].at \in Int
    BY <1>0 DEF Row, Times
  <1>1. CASE Tick
    <2>1. now' = now + 1 /\ UNCHANGED <<row, snap, loaded, refresh, known, lookedUp, task>>
      BY <1>1 DEF Tick
    <2>2. now' \in Times BY <1>1, <1>a, <2>1 DEF Tick, Times
    <2>3. CredentialsTypeOK' BY <1>0, <2>1, <2>2 DEF CredentialsTypeOK
    <2>4. ClockInv' BY <1>0, <1>1, <1>a, <1>b, <1>c, <2>1 DEF ClockInv, Tick
    <2>5. TokenRowsInv' /\ SnapInv' BY <1>0, <2>1 DEF TokenRowsInv, SnapInv, Seen
    <2>6. TaskInv'
      <3>1. \A p \in Tasks : task[p].on \in Int BY <1>0 DEF Task, Times
      <3> QED BY <1>0, <1>a, <2>1, <3>1 DEF TaskInv, Justified
    <2> QED BY <2>3, <2>4, <2>5, <2>6 DEF TokenInv
  <1>2. ASSUME NEW t \in Tokens, Issue(t) \/ Revoke(t) PROVE TokenInv'
    <2>1. UNCHANGED <<now, snap, loaded, refresh, known, lookedUp, task>>
      BY <1>2 DEF Issue, Revoke
    <2>2. /\ row' \in [Tokens -> Row]
          /\ \A u \in Tokens : row'[u].at <= now
          /\ \A u \in Tokens, then \in Int : then <= now /\ Seen(u, then) => Seen(u, then)'
          /\ \A p \in Tasks : Justified(task[p]) => Justified(task[p])'
      BY <1>0, <1>2, RegistryMoves
    <2>3. CredentialsTypeOK' BY <1>0, <2>1, <2>2 DEF CredentialsTypeOK, Row
    <2>4. ClockInv' BY <1>0, <2>1, <2>2 DEF ClockInv
    <2>5. TokenRowsInv'
      <3>1. ASSUME NEW u \in refresh.rows PROVE Seen(u, refresh.from)'
        <4>1. u \in Tokens BY <1>0 DEF Refresh
        <4>2. Seen(u, refresh.from) BY <1>0 DEF TokenRowsInv
        <4>3. refresh.from <= now BY <1>0 DEF ClockInv
        <4> QED BY <1>b, <2>1, <2>2, <4>1, <4>2, <4>3 DEF Seen
      <3> QED BY <2>1, <3>1 DEF TokenRowsInv
    <2>6. SnapInv'
      <3>1. ASSUME NEW u \in snap PROVE Seen(u, loaded)'
        <4>1. u \in Tokens /\ Seen(u, loaded) /\ loaded <= now BY <1>0 DEF SnapInv, ClockInv
        <4> QED BY <1>b, <2>1, <2>2, <4>1 DEF Seen
      <3> QED BY <2>1, <3>1 DEF SnapInv
    <2>7. TaskInv' BY <1>0, <2>1, <2>2 DEF TaskInv
    <2> QED BY <2>3, <2>4, <2>5, <2>6, <2>7 DEF TokenInv
  <1>3. ASSUME NEW by \in Tasks \cup {Nil}, RefreshBegins(by) PROVE TokenInv'
    <2> DEFINE r == [at |-> "query", from |-> now, rows |-> {}, by |-> by]
    <2>1. refresh' = r /\ UNCHANGED <<now, row, snap, loaded, known, lookedUp>>
      BY <1>3 DEF RefreshBegins
    <2>2. r \in Refresh /\ r.at = "query" /\ r.from = now /\ r.rows = {}
      BY <1>0 DEF Refresh
    <2> HIDE DEF r
    <2>3. task' \in [Tasks -> Task] /\ TaskInv'
      <3>1. CASE by = Nil
        <4>1. task' = task BY <1>3, <3>1 DEF RefreshBegins
        <4> QED BY <1>0, <2>1, <4>1 DEF TaskInv, Justified
      <3>2. CASE by # Nil
        <4>1. by \in Tasks /\ task' = [task EXCEPT ![by].at = "refreshing"]
          BY <1>3, <3>2 DEF RefreshBegins
        <4> QED BY <1>0, <2>1, <4>1, TaskWaits DEF LookingUp
      <3> QED BY <3>1, <3>2
    <2>4. CredentialsTypeOK' BY <1>0, <2>1, <2>2, <2>3 DEF CredentialsTypeOK, Refresh, Task
    <2>5. ClockInv' BY <1>0, <1>a, <2>1, <2>2 DEF ClockInv
    <2>6. TokenRowsInv' /\ SnapInv' BY <1>0, <2>1, <2>2 DEF TokenRowsInv, SnapInv, Seen
    <2> QED BY <2>3, <2>4, <2>5, <2>6 DEF TokenInv
  <1>4. CASE RefreshReads
    <2> DEFINE r == [refresh EXCEPT !.at = "read", !.rows = ActiveRows(refresh.from)]
    <2>1. refresh' = r /\ UNCHANGED <<now, row, snap, loaded, known, lookedUp, task>>
      BY <1>4 DEF RefreshReads
    <2>2. ActiveRows(refresh.from) \in SUBSET Tokens BY DEF ActiveRows
    <2>3. r \in Refresh /\ r.at = "read" /\ r.from = refresh.from /\ r.rows = ActiveRows(refresh.from)
      BY <1>0, <2>2 DEF Refresh
    <2>4. refresh.at # "idle" BY <1>4 DEF RefreshReads
    <2> HIDE DEF r
    <2>5. CredentialsTypeOK' BY <1>0, <2>1, <2>3 DEF CredentialsTypeOK, Refresh
    <2>6. ClockInv' BY <1>0, <2>1, <2>3, <2>4 DEF ClockInv
    <2>7. TokenRowsInv' BY <2>1, <2>3 DEF TokenRowsInv, Seen, ActiveRows
    <2>8. SnapInv' /\ TaskInv' BY <1>0, <2>1 DEF SnapInv, TaskInv, Seen, Justified
    <2> QED BY <2>5, <2>6, <2>7, <2>8 DEF TokenInv
  <1>5. NoRefresh \in Refresh /\ NoRefresh.at = "idle" /\ NoRefresh.rows = {} /\ NoRefresh.from = 0
    BY <1>a, CredentialsAssumption DEF NoRefresh, Refresh, Times
  <1>6. CASE RefreshPublishes
    <2>1. /\ refresh.at = "read" /\ snap' = refresh.rows /\ known' = known \ refresh.rows
          /\ loaded' = refresh.from /\ task' = Answer(refresh.by, refresh.rows)
          /\ refresh' = NoRefresh /\ UNCHANGED <<now, row, lookedUp>>
      BY <1>6 DEF RefreshPublishes, LoadedAt
    <2>2. task' \in [Tasks -> Task] /\ TaskInv' BY <2>1, Answered
    <2>3. refresh.from \in Times /\ refresh.rows \in SUBSET Tokens BY <1>0 DEF Refresh
    <2>4. CredentialsTypeOK' BY <1>0, <1>5, <2>1, <2>2, <2>3 DEF CredentialsTypeOK, Refresh, Task
    <2>5. ClockInv' BY <1>0, <1>5, <1>a, <2>1 DEF ClockInv
    <2>6. TokenRowsInv' BY <1>5, <2>1 DEF TokenRowsInv
    <2>7. SnapInv' BY <1>0, <2>1 DEF SnapInv, TokenRowsInv, Seen
    <2> QED BY <2>2, <2>4, <2>5, <2>6, <2>7 DEF TokenInv
  <1>7. CASE RefreshFails
    <2>1. /\ refresh.at # "idle" /\ task' = Answer(refresh.by, {})
          /\ refresh' = NoRefresh /\ UNCHANGED <<now, row, snap, loaded, known, lookedUp>>
      BY <1>7 DEF RefreshFails
    <2>2. task' \in [Tasks -> Task] /\ TaskInv' BY <2>1, Answered
    <2>3. CredentialsTypeOK' BY <1>0, <1>5, <2>1, <2>2 DEF CredentialsTypeOK, Refresh, Task
    <2>4. ClockInv' BY <1>0, <1>5, <1>a, <2>1 DEF ClockInv
    <2>5. TokenRowsInv' BY <1>5, <2>1 DEF TokenRowsInv
    <2>6. SnapInv' BY <1>0, <2>1 DEF SnapInv, Seen
    <2> QED BY <2>2, <2>3, <2>4, <2>5, <2>6 DEF TokenInv
  <1>8. ASSUME UNCHANGED <<now, row, snap, loaded, refresh>>, TaskInv', task' \in [Tasks -> Task],
               lookedUp' \in Times \cup {Never}, known' \in SUBSET Tokens
        PROVE  TokenInv'
    <2>1. CredentialsTypeOK' BY <1>0, <1>8 DEF CredentialsTypeOK, Task
    <2>2. ClockInv' /\ TokenRowsInv' /\ SnapInv' BY <1>0, <1>8 DEF ClockInv, TokenRowsInv, SnapInv, Seen
    <2> QED BY <1>8, <2>1, <2>2 DEF TokenInv
  <1>9. ASSUME NEW p \in Tasks, NEW t \in Tokens, Verify(p, t) PROVE TokenInv'
    <2> DEFINE asks == Fresh /\ t \notin snap \cup known /\ MayLookup
               a == IF asks THEN "lookup" ELSE IF Fresh /\ t \in snap /\ ~Expired(t) THEN "accepted" ELSE "refused"
               k == [tok |-> t, on |-> now, at |-> a]
    <2>1. /\ task' = [task EXCEPT ![p] = k] /\ lookedUp' = (IF asks THEN now ELSE lookedUp)
          /\ UNCHANGED <<now, row, snap, loaded, refresh, known>>
      BY <1>9 DEF Verify
    <2>2. a \in {"lookup", "accepted", "refused"} OBVIOUS
    <2>3. a = "accepted" => Fresh /\ t \in snap /\ ~Expired(t) OBVIOUS
    <2>4. lookedUp' \in Times \cup {Never} BY <1>0, <2>1
    <2> HIDE DEF a, asks
    <2>5. k \in Task /\ k.tok = t /\ k.on = now /\ k.at = a BY <1>0, <2>2 DEF Task
    <2> HIDE DEF k
    <2>6. ASSUME a = "accepted" PROVE Justified(k)
      <3>1. Seen(t, loaded) BY <1>0, <2>3, <2>6 DEF SnapInv
      <3>2. now - loaded <= Grace BY <2>3, <2>6 DEF Fresh
      <3>3. now < Expires[t] BY <1>a, <2>3, <2>6, CredentialsAssumption DEF Expired
      <3>4. row[t].status = "revoked" => now - row[t].at <= Longest
        BY <1>a, <1>b, <1>c, <3>1, <3>2, LongestBounds, CredentialsAssumption DEF Seen
      <3> QED BY <1>a, <2>5, <3>1, <3>3, <3>4 DEF Justified, Seen
    <2>7. task' \in [Tasks -> Task] /\ TaskInv' BY <1>0, <2>1, <2>5, <2>6, TaskMoves
    <2> QED BY <1>0, <1>8, <2>1, <2>4, <2>7
  <1>10. ASSUME NEW p \in Tasks, LookupRuns(p) PROVE TokenInv'
    <2> DEFINE a == IF row[task[p].tok].status = "absent" THEN "unknown"
                    ELSE IF row[task[p].tok].status = "revoked" \/ Expired(task[p].tok) THEN "closed"
                    ELSE "active"
    <2>1. task' = [task EXCEPT ![p].at = a] /\ UNCHANGED <<now, row, snap, loaded, refresh, known, lookedUp>>
      BY <1>10 DEF LookupRuns
    <2>2. a \in {"lookup", "active", "unknown", "closed", "refresh", "refreshing"} OBVIOUS
    <2> HIDE DEF a
    <2>3. task[p].at \in LookingUp BY <1>10 DEF LookupRuns, LookingUp
    <2>4. task' \in [Tasks -> Task] /\ TaskInv' BY <1>0, <2>1, <2>2, <2>3, TaskWaits
    <2> QED BY <1>0, <1>8, <2>1, <2>4
  <1>11. ASSUME NEW p \in Tasks, LookupFails(p) PROVE TokenInv'
    <2>1. Refuses(p) /\ UNCHANGED <<now, row, snap, loaded, refresh, known, lookedUp>>
      BY <1>11 DEF LookupFails
    <2> QED BY <1>0, <1>8, <2>1, TaskRefused
  <1>12. ASSUME NEW p \in Tasks, LookupReturns(p) PROVE TokenInv'
    <2>1. UNCHANGED <<now, row, snap, loaded, refresh, lookedUp>> BY <1>12 DEF LookupReturns
    <2>2. CASE Refuses(p) /\ UNCHANGED known
      BY <1>0, <1>8, <2>1, <2>2, TaskRefused
    <2>3. CASE task' = [task EXCEPT ![p].at = "refresh"] /\ UNCHANGED known
      <3>1. task' \in [Tasks -> Task] /\ TaskInv' BY <1>0, <2>1, <2>3, TaskWaits DEF LookingUp
      <3> QED BY <1>0, <1>8, <2>1, <2>3, <3>1
    <2>4. CASE task[p].at = "closed" /\ Refuses(p) /\ \E out \in SUBSET (known \ {task[p].tok}) : known' = (known \cup {task[p].tok}) \ out
      <3>1. task[p].tok \in Tokens BY <1>0, <2>4 DEF TaskInv, LookingUp
      <3>2. known' \in SUBSET Tokens BY <1>0, <2>4, <3>1
      <3>3. task' \in [Tasks -> Task] /\ TaskInv' BY <1>0, <2>1, <2>4, TaskRefused
      <3> QED BY <1>0, <1>8, <2>1, <3>2, <3>3
    <2> QED BY <1>12, <2>2, <2>3, <2>4 DEF LookupReturns
  <1>13. CASE UNCHANGED credentialsVars
    BY <1>0, <1>8, <1>13 DEF credentialsVars, TaskInv, Justified
  <1> QED BY <1>1, <1>2, <1>3, <1>4, <1>6, <1>7, <1>9, <1>10, <1>11, <1>12, <1>13 DEF CredentialsNext

\* The invariant holds throughout, whatever the number of tokens and tasks.
THEOREM TokenInvariantHolds == CredentialsSpec => []TokenInv
  BY TokenInitInv, TokenStepInv, PTL DEF CredentialsSpec

\* The verifier's state keeps its shape.
THEOREM TokenTypeCorrect == CredentialsSpec => []CredentialsTypeOK
  <1>1. TokenInv => CredentialsTypeOK BY DEF TokenInv
  <1> QED BY <1>1, TokenInvariantHolds, PTL

\* A token is accepted only if it was issued and has not expired, and a
\* revoked one at most Grace, or the length of the refresh the verification
\* waited for, after its revocation.
THEOREM RevocationTheorem == CredentialsSpec => []RevocationIsBounded
  <1>1. TokenInv => RevocationIsBounded BY DEF TokenInv, TaskInv, Justified, RevocationIsBounded
  <1> QED BY <1>1, TokenInvariantHolds, PTL

-----------------------------------------------------------------------------
(***************************************************************************)
(* That an expiry is audited once, for every set of elevations and of      *)
(* draining processes.  A sweep skips the rows another drain holds, so at  *)
(* most one drain has an expiry to write (DueInv), and it stays the only   *)
(* one until its transaction ends; the audit rows are then exactly what    *)
(* the elevation's own columns say (AuditRowsInv).                         *)
(***************************************************************************)

Elevation == [status : {"absent", "granted", "ended", "ended_late"}, over : BOOLEAN, audited : BOOLEAN]
Drain == [at : {"idle", "swept", "claimed"}, due : SUBSET Elevations,
          rows : SUBSET Events, shown : SUBSET Events]

\* One audit row for each gesture the elevation's row records.
AuditRowsInv ==
    \A e \in Elevations :
        /\ audit[Elevated(e)] = IF elev[e].status = "absent" THEN 0 ELSE 1
        /\ audit[Unelevated(e)] = IF elev[e].status \in {"ended", "ended_late"} THEN 1 ELSE 0
        /\ audit[ElevationExpired(e)] = IF elev[e].audited THEN 1 ELSE 0
        /\ elev[e].audited => elev[e].status \in {"granted", "ended_late"}

\* What a drain swept is still due, and nobody else swept it.
DueInv ==
    /\ \A d \in Drainers, e \in Elevations :
          e \in drain[d].due => elev[e].status = "granted" /\ ~elev[e].audited
    /\ \A d, c \in Drainers : d # c => drain[d].due \cap drain[c].due = {}

AuditInv == AuditTypeOK /\ AuditRowsInv /\ DueInv

(***************************************************************************)
(* Lemmas                                                                  *)
(***************************************************************************)
\* TypeOK in terms of the record types above.
LEMMA AuditShapes ==
    ASSUME AuditTypeOK
    PROVE  /\ elev \in [Elevations -> Elevation] /\ drain \in [Drainers -> Drain]
           /\ audit \in [Events -> 0 .. Cardinality(Drainers)]
           /\ emitted \in SUBSET Events /\ logged \in SUBSET Events /\ failures \in 0 .. MaxFailures
  BY DEF AuditTypeOK, Elevation, Drain

\* The events of an elevation are told apart by their names and by it.
LEMMA EventsDiffer ==
    /\ \A e \in Elevations : /\ Elevated(e) \in Events /\ Unelevated(e) \in Events
                             /\ ElevationExpired(e) \in Events
    /\ \A e, f : /\ Elevated(e) # Unelevated(f) /\ Elevated(e) # ElevationExpired(f)
                 /\ Unelevated(e) # ElevationExpired(f)
                 /\ Elevated(e) = Elevated(f) => e = f
                 /\ Unelevated(e) = Unelevated(f) => e = f
                 /\ ElevationExpired(e) = ElevationExpired(f) => e = f
    /\ \A v \in Events : \E e \in Elevations : v \in {Elevated(e), Unelevated(e), ElevationExpired(e)}
  BY DEF Events, Elevated, Unelevated, ElevationExpired

\* The bound of TypeOK leaves room for one row of each event.
LEMMA OneFits == Cardinality(Drainers) \in Nat /\ Cardinality(Drainers) >= 1
  <1>1. Cardinality(Drainers) \in Nat BY FS_CardinalityType, AuditAssumption
  <1>2. Cardinality(Drainers) # 0 BY FS_EmptySet, AuditAssumption
  <1> QED BY <1>1, <1>2

\* Counting each event as AuditRowsInv says keeps the type of the audit table.
LEMMA RowsFit ==
    ASSUME NEW a, DOMAIN a = Events, a = [v \in Events |-> a[v]],
           \A e \in Elevations : a[Elevated(e)] \in {0, 1} /\ a[Unelevated(e)] \in {0, 1}
                                 /\ a[ElevationExpired(e)] \in {0, 1}
    PROVE  a \in [Events -> 0 .. Cardinality(Drainers)]
  <1>1. \A v \in Events : a[v] \in {0, 1} BY EventsDiffer
  <1>2. {0, 1} \subseteq 0 .. Cardinality(Drainers) BY OneFits
  <1> QED BY <1>1, <1>2

(***************************************************************************)
(* The invariant                                                           *)
(***************************************************************************)
\* Nothing is granted at the start.
LEMMA AuditInitInv == AuditInit => AuditInv
  <1> SUFFICES ASSUME AuditInit PROVE AuditInv OBVIOUS
  <1>1. elev \in [Elevations -> Elevation] /\ \A e \in Elevations : elev[e].status = "absent"
    BY DEF AuditInit, Elevation
  <1>2. \A e \in Elevations : ~elev[e].audited BY DEF AuditInit
  <1>3. drain \in [Drainers -> Drain] /\ \A d \in Drainers : drain[d].due = {}
    BY DEF AuditInit, NoDrain, Drain
  <1>4. \A v \in Events : audit[v] = 0 BY DEF AuditInit
  <1>5. audit \in [Events -> 0 .. Cardinality(Drainers)] BY OneFits DEF AuditInit
  <1>6. failures \in 0 .. MaxFailures BY AuditAssumption DEF AuditInit
  <1>7. AuditTypeOK BY <1>1, <1>3, <1>5, <1>6 DEF AuditInit, AuditTypeOK, Elevation, Drain
  <1>8. AuditRowsInv BY <1>1, <1>2, <1>4, EventsDiffer DEF AuditRowsInv
  <1>9. DueInv BY <1>3 DEF DueInv
  <1> QED BY <1>7, <1>8, <1>9 DEF AuditInv

\* Every step keeps the invariant.
LEMMA AuditStepInv == ASSUME AuditInv, [AuditNext]_auditVars PROVE AuditInv'
  <1>0. /\ elev \in [Elevations -> Elevation] /\ drain \in [Drainers -> Drain]
        /\ audit \in [Events -> 0 .. Cardinality(Drainers)]
        /\ emitted \in SUBSET Events /\ logged \in SUBSET Events /\ failures \in 0 .. MaxFailures
        /\ AuditTypeOK /\ AuditRowsInv /\ DueInv
    BY AuditShapes DEF AuditInv
  <1>1. ASSUME NEW e \in Elevations, GrantElevation(e) PROVE AuditInv'
    <2> DEFINE q == [elev[e] EXCEPT !.status = "granted"]
    <2>1. /\ elev' = [elev EXCEPT ![e] = q] /\ elev[e].status = "absent"
          /\ audit' = [audit EXCEPT ![Elevated(e)] = audit[Elevated(e)] + 1]
          /\ UNCHANGED <<emitted, logged, drain, failures>>
      BY <1>1 DEF GrantElevation
    <2>2. elev[e] \in Elevation BY <1>0
    <2>3. q \in Elevation /\ q.status = "granted" /\ q.audited = elev[e].audited BY <2>2 DEF Elevation
    <2> HIDE DEF q
    <2>4. /\ elev' \in [Elevations -> Elevation] /\ elev'[e] = q
          /\ \A f \in Elevations \ {e} : elev'[f] = elev[f]
      BY <1>0, <2>1, <2>3
    <2>5. audit[Elevated(e)] = 0 BY <1>0, <2>1 DEF AuditRowsInv
    <2>6. /\ audit'[Elevated(e)] = 1 /\ \A v \in Events \ {Elevated(e)} : audit'[v] = audit[v]
          /\ DOMAIN audit' = Events /\ audit' = [v \in Events |-> audit'[v]]
      <3>1. Elevated(e) \in Events BY EventsDiffer
      <3>2. audit' = [audit EXCEPT ![Elevated(e)] = 1] BY <2>1, <2>5
      <3> QED BY <1>0, <3>1, <3>2
    <2>7. ~elev[e].audited BY <1>0, <2>1 DEF AuditRowsInv
    <2>8. AuditRowsInv'
      <3> SUFFICES ASSUME NEW f \in Elevations
                   PROVE  /\ audit'[Elevated(f)] = IF elev'[f].status = "absent" THEN 0 ELSE 1
                          /\ audit'[Unelevated(f)] = IF elev'[f].status \in {"ended", "ended_late"} THEN 1 ELSE 0
                          /\ audit'[ElevationExpired(f)] = IF elev'[f].audited THEN 1 ELSE 0
                          /\ elev'[f].audited => elev'[f].status \in {"granted", "ended_late"}
        BY DEF AuditRowsInv
      <3>1. audit'[Unelevated(f)] = audit[Unelevated(f)] /\ audit'[ElevationExpired(f)] = audit[ElevationExpired(f)]
        BY <2>6, EventsDiffer
      <3>2. CASE f = e BY <1>0, <2>1, <2>3, <2>4, <2>6, <2>7, <3>1, <3>2 DEF AuditRowsInv
      <3>3. CASE f # e
        <4>1. audit'[Elevated(f)] = audit[Elevated(f)] BY <2>6, <3>3, EventsDiffer
        <4> QED BY <1>0, <2>4, <3>1, <3>3, <4>1 DEF AuditRowsInv
      <3> QED BY <3>2, <3>3
    <2>9. audit' \in [Events -> 0 .. Cardinality(Drainers)]
      BY <2>6, <2>8, RowsFit DEF AuditRowsInv
    <2>10. AuditTypeOK' BY <1>0, <2>1, <2>4, <2>9 DEF AuditTypeOK, Elevation
    <2>11. DueInv'
      <3>1. \A d \in Drainers : e \notin drain[d].due BY <1>0, <2>1 DEF DueInv
      <3> QED BY <1>0, <2>1, <2>4, <3>1 DEF DueInv
    <2> QED BY <2>8, <2>10, <2>11 DEF AuditInv
  <1>2. ASSUME NEW e \in Elevations, RunsOut(e) PROVE AuditInv'
    <2> DEFINE q == [elev[e] EXCEPT !.over = TRUE]
    <2>1. elev' = [elev EXCEPT ![e] = q] /\ UNCHANGED <<audit, emitted, logged, drain, failures>>
      BY <1>2 DEF RunsOut
    <2>2. elev[e] \in Elevation BY <1>0
    <2>3. q \in Elevation /\ q.status = elev[e].status /\ q.audited = elev[e].audited BY <2>2 DEF Elevation
    <2> HIDE DEF q
    <2>4. /\ elev' \in [Elevations -> Elevation]
          /\ \A f \in Elevations : elev'[f].status = elev[f].status /\ elev'[f].audited = elev[f].audited
      BY <1>0, <2>1, <2>3
    <2>5. AuditTypeOK' BY <1>0, <2>1, <2>4 DEF AuditTypeOK, Elevation
    <2>6. AuditRowsInv' BY <1>0, <2>1, <2>4 DEF AuditRowsInv
    <2>7. DueInv' BY <1>0, <2>1, <2>4 DEF DueInv
    <2> QED BY <2>5, <2>6, <2>7 DEF AuditInv
  <1>3. ASSUME NEW e \in Elevations, EndElevation(e) PROVE AuditInv'
    <2> DEFINE s == IF elev[e].audited THEN "ended_late" ELSE "ended"
               q == [elev[e] EXCEPT !.status = s]
    <2>1. /\ elev' = [elev EXCEPT ![e] = q] /\ elev[e].status = "granted" /\ e \notin Swept
          /\ audit' = [audit EXCEPT ![Unelevated(e)] = audit[Unelevated(e)] + 1]
          /\ UNCHANGED <<emitted, logged, drain, failures>>
      BY <1>3 DEF EndElevation
    <2>2. elev[e] \in Elevation BY <1>0
    <2>a. s \in {"ended", "ended_late"} /\ (elev[e].audited => s = "ended_late") OBVIOUS
    <2> HIDE DEF s
    <2>3. q \in Elevation /\ q.status = s /\ q.audited = elev[e].audited BY <2>2, <2>a DEF Elevation
    <2> HIDE DEF q
    <2>4. /\ elev' \in [Elevations -> Elevation] /\ elev'[e] = q
          /\ \A f \in Elevations \ {e} : elev'[f] = elev[f]
      BY <1>0, <2>1, <2>3
    <2>5. audit[Unelevated(e)] = 0 BY <1>0, <2>1 DEF AuditRowsInv
    <2>6. /\ audit'[Unelevated(e)] = 1 /\ \A v \in Events \ {Unelevated(e)} : audit'[v] = audit[v]
          /\ DOMAIN audit' = Events /\ audit' = [v \in Events |-> audit'[v]]
      <3>1. Unelevated(e) \in Events BY EventsDiffer
      <3>2. audit' = [audit EXCEPT ![Unelevated(e)] = 1] BY <2>1, <2>5
      <3> QED BY <1>0, <3>1, <3>2
    <2>8. AuditRowsInv'
      <3> SUFFICES ASSUME NEW f \in Elevations
                   PROVE  /\ audit'[Elevated(f)] = IF elev'[f].status = "absent" THEN 0 ELSE 1
                          /\ audit'[Unelevated(f)] = IF elev'[f].status \in {"ended", "ended_late"} THEN 1 ELSE 0
                          /\ audit'[ElevationExpired(f)] = IF elev'[f].audited THEN 1 ELSE 0
                          /\ elev'[f].audited => elev'[f].status \in {"granted", "ended_late"}
        BY DEF AuditRowsInv
      <3>1. audit'[Elevated(f)] = audit[Elevated(f)] /\ audit'[ElevationExpired(f)] = audit[ElevationExpired(f)]
        BY <2>6, EventsDiffer
      <3>2. CASE f = e BY <1>0, <2>1, <2>a, <2>3, <2>4, <2>6, <3>1, <3>2 DEF AuditRowsInv
      <3>3. CASE f # e
        <4>1. audit'[Unelevated(f)] = audit[Unelevated(f)] BY <2>6, <3>3, EventsDiffer
        <4> QED BY <1>0, <2>4, <3>1, <3>3, <4>1 DEF AuditRowsInv
      <3> QED BY <3>2, <3>3
    <2>9. audit' \in [Events -> 0 .. Cardinality(Drainers)]
      BY <2>6, <2>8, RowsFit DEF AuditRowsInv
    <2>10. AuditTypeOK' BY <1>0, <2>1, <2>4, <2>9 DEF AuditTypeOK, Elevation
    <2>11. DueInv'
      <3>1. \A d \in Drainers : e \notin drain[d].due BY <2>1 DEF Swept
      <3> QED BY <1>0, <2>1, <2>4, <3>1 DEF DueInv
    <2> QED BY <2>8, <2>10, <2>11 DEF AuditInv
  <1>4. ASSUME NEW d \in Drainers, NEW q \in Drain, drain' = [drain EXCEPT ![d] = q],
               UNCHANGED <<elev, audit>>, emitted' \in SUBSET Events, logged' \in SUBSET Events,
               failures' \in 0 .. MaxFailures,
               q.due \subseteq drain[d].due \/ q.due = Due \ Swept
        PROVE  AuditInv'
    <2>1. /\ drain' \in [Drainers -> Drain] /\ drain'[d] = q
          /\ \A c \in Drainers \ {d} : drain'[c] = drain[c]
      BY <1>0, <1>4
    <2>2. AuditTypeOK' BY <1>0, <1>4, <2>1 DEF AuditTypeOK, Drain
    <2>3. AuditRowsInv' BY <1>0, <1>4 DEF AuditRowsInv
    <2>4. \A e \in q.due : elev[e].status = "granted" /\ ~elev[e].audited
      <3>1. q.due \subseteq Elevations BY <1>4 DEF Drain
      <3> QED BY <1>0, <1>4, <3>1 DEF DueInv, Due
    <2>5. \A c \in Drainers \ {d} : q.due \cap drain[c].due = {}
      BY <1>0, <1>4 DEF DueInv, Swept
    <2>6. DueInv'
      <3>1. ASSUME NEW c \in Drainers, NEW e \in Elevations, e \in drain'[c].due
            PROVE  elev[e].status = "granted" /\ ~elev[e].audited
        BY <1>0, <2>1, <2>4, <3>1 DEF DueInv
      <3>2. ASSUME NEW c \in Drainers, NEW b \in Drainers, c # b
            PROVE  drain'[c].due \cap drain'[b].due = {}
        BY <1>0, <2>1, <2>5, <3>2 DEF DueInv
      <3> QED BY <1>4, <3>1, <3>2 DEF DueInv
    <2> QED BY <2>2, <2>3, <2>6 DEF AuditInv
  <1>5. ASSUME NEW d \in Drainers, Sweep(d) PROVE AuditInv'
    <2> DEFINE s == Due \ Swept
               q == [drain[d] EXCEPT !.at = "swept", !.due = s]
    <2>1. drain' = [drain EXCEPT ![d] = q] /\ UNCHANGED <<elev, audit, emitted, logged, failures>>
      BY <1>5 DEF Sweep
    <2>2. drain[d] \in Drain /\ s \in SUBSET Elevations BY <1>0 DEF Due
    <2>a. s = Due \ Swept OBVIOUS
    <2> HIDE DEF s
    <2>3. q \in Drain /\ q.due = s BY <2>2 DEF Drain
    <2> HIDE DEF q
    <2> QED BY <1>0, <1>4, <2>1, <2>a, <2>3
  <1>6. ASSUME NEW d \in Drainers, ClaimUnemitted(d) PROVE AuditInv'
    <2>1. PICK rows \in SUBSET UnemittedFor(d) : drain' = [drain EXCEPT ![d].at = "claimed", ![d].rows = rows]
      BY <1>6 DEF ClaimUnemitted
    <2>2. drain[d] \in Drain BY <1>0
    <2>3. drain[d].due \subseteq Elevations BY <2>2 DEF Drain
    <2>4. rows \in SUBSET Events BY <2>1, <2>3, EventsDiffer DEF UnemittedFor
    <2> DEFINE q == [drain[d] EXCEPT !.at = "claimed", !.rows = rows]
    <2>5. drain' = [drain EXCEPT ![d] = q] /\ UNCHANGED <<elev, audit, emitted, logged, failures>>
      BY <1>6, <2>1 DEF ClaimUnemitted
    <2>6. q \in Drain /\ q.due = drain[d].due BY <2>2, <2>4 DEF Drain
    <2> HIDE DEF q
    <2> QED BY <1>0, <1>4, <2>5, <2>6
  <1>7. ASSUME NEW d \in Drainers, Log(d) PROVE AuditInv'
    <2>1. PICK v \in drain[d].rows \ drain[d].shown :
             logged' = logged \cup {v} /\ drain' = [drain EXCEPT ![d].shown = drain[d].shown \cup {v}]
      BY <1>7 DEF Log
    <2>2. drain[d] \in Drain BY <1>0
    <2> DEFINE s == drain[d].shown \cup {v}
               q == [drain[d] EXCEPT !.shown = s]
    <2>3. s \in SUBSET Events /\ logged' \in SUBSET Events BY <1>0, <2>1, <2>2 DEF Drain
    <2>4. drain' = [drain EXCEPT ![d] = q] BY <2>1
    <2> HIDE DEF s
    <2>5. q \in Drain /\ q.due = drain[d].due BY <2>2, <2>3 DEF Drain
    <2> HIDE DEF q
    <2>6. UNCHANGED <<elev, audit, emitted, failures>> BY <1>7 DEF Log
    <2> QED BY <1>0, <1>4, <2>3, <2>4, <2>5, <2>6
  <1>8. NoDrain \in Drain /\ NoDrain.due = {} BY DEF NoDrain, Drain
  <1>9. ASSUME NEW d \in Drainers, Rollback(d) PROVE AuditInv'
    <2>1. /\ drain' = [drain EXCEPT ![d] = NoDrain] /\ UNCHANGED <<elev, audit, emitted, logged>>
          /\ failures' = failures + 1 /\ failures < MaxFailures
      BY <1>9 DEF Rollback
    <2>2. failures' \in 0 .. MaxFailures BY <1>0, <2>1, AuditAssumption
    <2> QED BY <1>0, <1>4, <1>8, <2>1, <2>2
  <1>10. ASSUME NEW d \in Drainers, Commit(d) PROVE AuditInv'
    <2> DEFINE due == drain[d].due
    <2>1. /\ elev' = [e \in Elevations |-> IF e \in due THEN [elev[e] EXCEPT !.audited = TRUE] ELSE elev[e]]
          /\ audit' = [v \in Events |-> IF v \in {ElevationExpired(e) : e \in due} THEN audit[v] + 1 ELSE audit[v]]
          /\ emitted' = emitted \cup drain[d].rows
          /\ drain' = [drain EXCEPT ![d] = NoDrain]
          /\ UNCHANGED <<logged, failures>>
      BY <1>10 DEF Commit, EmittedOf
    <2>2. drain[d] \in Drain BY <1>0
    <2>3. due \in SUBSET Elevations /\ emitted' \in SUBSET Events BY <1>0, <2>1, <2>2 DEF Drain
    <2>4. \A e \in due : elev[e].status = "granted" /\ ~elev[e].audited BY <1>0, <2>3 DEF DueInv
    <2>5. \A c \in Drainers \ {d} : due \cap drain[c].due = {} BY <1>0 DEF DueInv
    <2> HIDE DEF due
    <2>6. \A e \in Elevations : elev[e] \in Elevation BY <1>0
    <2>7. ASSUME NEW e \in Elevations, e \in due
          PROVE  elev'[e] \in Elevation /\ elev'[e].status = elev[e].status /\ elev'[e].audited = TRUE
      <3>1. elev'[e] = [elev[e] EXCEPT !.audited = TRUE] BY <2>1, <2>7
      <3>2. elev[e] \in Elevation BY <2>6
      <3> QED BY <3>1, <3>2 DEF Elevation
    <2>8. \A e \in Elevations \ due : elev'[e] = elev[e] BY <2>1
    <2>9. elev' \in [Elevations -> Elevation] BY <2>1, <2>6, <2>7, <2>8
    <2>10. ASSUME NEW e \in Elevations
           PROVE  /\ audit'[Elevated(e)] = audit[Elevated(e)] /\ audit'[Unelevated(e)] = audit[Unelevated(e)]
                  /\ e \in due => audit'[ElevationExpired(e)] = audit[ElevationExpired(e)] + 1
                  /\ e \notin due => audit'[ElevationExpired(e)] = audit[ElevationExpired(e)]
      BY <2>1, EventsDiffer
    <2>11. AuditRowsInv'
      <3> SUFFICES ASSUME NEW f \in Elevations
                   PROVE  /\ audit'[Elevated(f)] = IF elev'[f].status = "absent" THEN 0 ELSE 1
                          /\ audit'[Unelevated(f)] = IF elev'[f].status \in {"ended", "ended_late"} THEN 1 ELSE 0
                          /\ audit'[ElevationExpired(f)] = IF elev'[f].audited THEN 1 ELSE 0
                          /\ elev'[f].audited => elev'[f].status \in {"granted", "ended_late"}
        BY DEF AuditRowsInv
      <3>1. CASE f \in due
        <4>1. audit[ElevationExpired(f)] = 0 BY <1>0, <2>4, <3>1 DEF AuditRowsInv
        <4>2. audit'[ElevationExpired(f)] = 1 BY <2>10, <3>1, <4>1
        <4> QED BY <1>0, <2>4, <2>7, <2>10, <3>1, <4>2 DEF AuditRowsInv
      <3>2. CASE f \notin due BY <1>0, <2>8, <2>10, <3>2 DEF AuditRowsInv
      <3> QED BY <3>1, <3>2
    <2>12. audit' \in [Events -> 0 .. Cardinality(Drainers)]
      <3>1. DOMAIN audit' = Events /\ audit' = [v \in Events |-> audit'[v]] BY <2>1
      <3> QED BY <2>11, <3>1, RowsFit DEF AuditRowsInv
    <2>13. /\ drain' \in [Drainers -> Drain] /\ drain'[d] = NoDrain
           /\ \A c \in Drainers \ {d} : drain'[c] = drain[c]
      BY <1>0, <1>8, <2>1
    <2>14. AuditTypeOK' BY <1>0, <2>1, <2>3, <2>9, <2>12, <2>13 DEF AuditTypeOK, Elevation, Drain
    <2>15. DueInv'
      <3>1. ASSUME NEW c \in Drainers, NEW e \in Elevations, e \in drain'[c].due
            PROVE  elev'[e].status = "granted" /\ ~elev'[e].audited
        <4>1. c # d /\ e \in drain[c].due BY <1>8, <2>13, <3>1
        <4>2. e \notin due BY <2>5, <4>1
        <4> QED BY <1>0, <2>8, <4>1, <4>2 DEF DueInv
      <3>2. ASSUME NEW c \in Drainers, NEW b \in Drainers, c # b
            PROVE  drain'[c].due \cap drain'[b].due = {}
        BY <1>0, <1>8, <2>13, <3>2 DEF DueInv
      <3> QED BY <3>1, <3>2 DEF DueInv
    <2> QED BY <2>11, <2>14, <2>15 DEF AuditInv
  <1>11. CASE UNCHANGED auditVars
    BY <1>0, <1>11 DEF auditVars, AuditInv, AuditTypeOK, AuditRowsInv, DueInv
  <1> QED BY <1>1, <1>2, <1>3, <1>5, <1>6, <1>7, <1>9, <1>10, <1>11 DEF AuditNext

\* The invariant holds throughout.
THEOREM AuditInvariantHolds == AuditSpec => []AuditInv
  BY AuditInitInv, AuditStepInv, PTL DEF AuditSpec

\* Elevations, audit rows and drains keep their shapes.
THEOREM AuditTypeCorrect == AuditSpec => []AuditTypeOK
  <1>1. AuditInv => AuditTypeOK BY DEF AuditInv
  <1> QED BY <1>1, AuditInvariantHolds, PTL

\* However many processes drain at once, an expiry gets at most one audit
\* row, and none once the elevation was ended before it was audited.
THEOREM ExpiryTheorem == AuditSpec => []ExpiryAuditedOnce
  <1>1. AuditInv => ExpiryAuditedOnce BY DEF AuditInv, AuditRowsInv, ExpiryAuditedOnce
  <1> QED BY <1>1, AuditInvariantHolds, PTL

-----------------------------------------------------------------------------
(***************************************************************************)
(* Proofs about CredentialRotation, for any number of overlapping          *)
(* invocations, of rotations and of helpers left behind.                   *)
(***************************************************************************)

-----------------------------------------------------------------------------
(* The inductive invariant.                                                *)

\* Whoever is past the lock holds it, so only one is.
OneRuns == \A p \in Procs : proc[p].pc # "idle" => lock = p

\* Generation g is what both roles and every file that exists hold.
Uniform(roles, files, g) ==
    /\ roles["brain"] = g /\ roles["codex_ro"] = g
    /\ \A f \in Files : files[f] = g \/ (f = "gateway" /\ files[f] = Absent)

\* A state to journal: snapshots of one generation, and a later one.
Sound(st) ==
    /\ st.new \in 1 .. fresh
    /\ \E g \in 1 .. fresh : g # st.new /\ Uniform(OldRoles(st), st.snap, g)

JournalSound == journal # NoJournal => Sound(journal)

\* An invocation that is about to write its journal has changed nothing yet;
\* one past that point works from the journal on disk.
Agrees(p) ==
    /\ proc[p].pc = "write" =>
          /\ journal = NoJournal /\ Sound(State(p))
          /\ db = OldRoles(State(p))
          /\ \A f \in Files : State(p).snap[f] = file[f] \/ Strayed(f)
    /\ proc[p].pc \notin {"idle", "preflight", "prepare", "write"} =>
          journal # NoJournal /\ State(p) = journal

Restored(i) == file[Order[i]] = journal.snap[Order[i]] \/ Strayed(Order[i])

\* How far a rollback and a finalisation are.
Reached(pc, k) ==
    /\ pc = "restore" => db = OldRoles(journal) /\ \A i \in 1 .. (k - 1) : Restored(i)
    /\ pc = "unprove" => db = OldRoles(journal) /\ \A i \in 1 .. 5 : Restored(i)
    /\ pc \in {"probe", "compare"} => db = NewRoles(journal)
    /\ pc = "remove" =>
          \/ db = OldRoles(journal) /\ \A i \in 1 .. 5 : Restored(i)
          \/ db = NewRoles(journal) /\ \A f \in Files : file[f] = journal.new \/ Strayed(f)

Far(p) == Reached(proc[p].pc, proc[p].k)

\* The generation in force was drawn.
Drawn == db["brain"] \in 1 .. fresh

DataOK ==
    /\ db \in [{"brain", "codex_ro"} -> Gens]
    /\ file \in [Files -> Gens]
    /\ mode \in {"0640", "0600"}
    /\ journal \in States
    /\ gateway \in BOOLEAN /\ fresh \in Gens
    /\ stray \in BOOLEAN
    /\ Drawn /\ JournalSound /\ NoMixWithoutJournal /\ JournalCoversAll

Helper == [at : {"off", "begun", "ready", "ok", "failed"}, by : Procs \cup {Nobody}, gen : Gens]

\* A helper that is waited for works on what its invocation publishes: it
\* can read nothing else from the stage.
Serves(h, p) ==
    /\ proc[p].pc \in {"install", "restore"} /\ proc[p].k = 5
    /\ helper[h].at = "begun" => helper[h].gen \in {Payload(p), Absent}
    /\ helper[h].at = "ready" => helper[h].gen = Payload(p)
    /\ helper[h].at = "ok" => file["shrik"] = Payload(p) \/ stray

HelpersOK ==
    /\ helper \in [Helpers -> Helper]
    /\ \A h \in Helpers : helper[h].by # Nobody => Serves(h, helper[h].by)
    /\ \A h, i \in Helpers : helper[h].by # Nobody /\ helper[i].by = helper[h].by => h = i

\* Nobody waits for a helper.
Unattended == \A h \in Helpers : helper[h].by = Nobody

RotationInv ==
    /\ RotationTypeOK /\ DataOK /\ OneRuns /\ HelpersOK
    /\ \A p \in Procs : Agrees(p) /\ Far(p)

-----------------------------------------------------------------------------
(* Constants of the module.                                                *)

\* The five installed files, in the order the script writes them.
LEMMA OrderFacts ==
    /\ Len(Order) = 5
    /\ Order[1] = "brain" /\ Order[2] = "red_data" /\ Order[3] = "red_codex"
    /\ Order[4] = "gateway" /\ Order[5] = "shrik"
    /\ Files = {"brain", "red_data", "red_codex", "gateway", "shrik"}
<1>1. Len(Order) = 5 /\ DOMAIN Order = 1 .. 5
  BY DEF Order
<1>2. /\ Order[1] = "brain" /\ Order[2] = "red_data" /\ Order[3] = "red_codex"
      /\ Order[4] = "gateway" /\ Order[5] = "shrik"
  BY DEF Order
<1>3. \A i \in 1 .. 5 : i = 1 \/ i = 2 \/ i = 3 \/ i = 4 \/ i = 5
  OBVIOUS
<1>4. Files = {"brain", "red_data", "red_codex", "gateway", "shrik"}
  BY <1>1, <1>2, <1>3 DEF Files
<1> QED BY <1>1, <1>2, <1>4

Journals == [new : Gens, snap : [Files -> Gens]]
Invocation == [pc : Places, cmd : Commands, st : States, k : 1 .. Len(Order)]

\* Moving an invocation to another place or another file keeps its shape.
LEMMA InvocationUpdates ==
    ASSUME NEW v \in Invocation
    PROVE  /\ \A to \in Places : [v EXCEPT !.pc = to, !.k = 1] \in Invocation
           /\ v.k < 5 => [v EXCEPT !.k = v.k + 1] \in Invocation
           /\ \A to \in Places, st \in States : [v EXCEPT !.pc = to, !.st = st] \in Invocation
<1>1. v.k \in 1 .. 5 /\ 1 \in 1 .. Len(Order) /\ Len(Order) = 5
  BY OrderFacts DEF Invocation
<1>2. \A to \in Places : [v EXCEPT !.pc = to, !.k = 1] \in Invocation
  BY <1>1 DEF Invocation
<1>3. v.k < 5 => [v EXCEPT !.k = v.k + 1] \in Invocation
  BY <1>1 DEF Invocation
<1>4. \A to \in Places, st \in States : [v EXCEPT !.pc = to, !.st = st] \in Invocation
  BY DEF Invocation
<1> QED BY <1>2, <1>3, <1>4

-----------------------------------------------------------------------------
(* Control.                                                                *)

\* Invocation p is now at a place, every other one is out.
Moves(p, to, k) ==
    /\ proc' \in [Procs -> Invocation]
    /\ lock' \in Procs \cup {Nobody}
    /\ OneRuns'
    /\ \A q \in Procs \ {p} : proc'[q].pc = "idle"
    /\ proc'[p].pc = to
    /\ to # "idle" => proc'[p].st = proc[p].st /\ proc'[p].cmd = proc[p].cmd /\ proc'[p].k = k

\* The lock file admits one: while one invocation runs the others are idle.
LEMMA OthersOut ==
    ASSUME OneRuns, NEW p \in Procs, proc[p].pc # "idle"
    PROVE  \A q \in Procs \ {p} : proc[q].pc = "idle"
BY DEF OneRuns

\* A step to a given place moves the one invocation that runs.
LEMMA GotoMoves ==
    ASSUME RotationTypeOK, OneRuns, NEW p \in Procs, proc[p].pc # "idle", NEW to \in Places, Goto(p, to)
    PROVE  Moves(p, to, 1)
<1>1. proc \in [Procs -> Invocation] /\ proc[p] \in Invocation
  BY DEF RotationTypeOK, Invocation
<1>2. NotRunning \in Invocation /\ NotRunning.pc = "idle"
  <2>1. "idle" \in Places /\ "apply" \in Commands /\ NoJournal \in States /\ 1 \in 1 .. Len(Order)
    BY OrderFacts DEF Places, Commands, States
  <2> QED BY <2>1 DEF NotRunning, Invocation
<1>3. [proc[p] EXCEPT !.pc = to, !.k = 1] \in Invocation
  BY <1>1, InvocationUpdates
<1>4. proc' \in [Procs -> Invocation]
  BY <1>1, <1>2, <1>3 DEF Goto
<1>5. \A q \in Procs \ {p} : proc'[q] = proc[q]
  BY <1>1 DEF Goto
<1>6. proc'[p].pc = to
  BY <1>1, <1>2 DEF Goto, Invocation
<1>7. to # "idle" => proc'[p].st = proc[p].st /\ proc'[p].cmd = proc[p].cmd /\ proc'[p].k = 1
  BY <1>1 DEF Goto, Invocation
<1>8. lock' \in Procs \cup {Nobody}
  BY DEF Goto, RotationTypeOK
<1>9. OneRuns'
  BY <1>5, <1>6, OthersOut DEF OneRuns, Goto
<1> QED BY <1>4, <1>5, <1>6, <1>7, <1>8, <1>9, OthersOut DEF Moves

\* An error is caught at a place of the script.
LEMMA CaughtPlace == ASSUME NEW p PROVE Caught(p) \in Places
BY DEF Caught, Places, Undo

\* A step that may fail goes on, or to the place that catches the error.
LEMMA ContinueMoves ==
    ASSUME RotationTypeOK, OneRuns, NEW p \in Procs, proc[p].pc # "idle", NEW to \in Places, Continue(p, to)
    PROVE  Moves(p, to, 1) \/ Moves(p, Caught(p), 1)
BY GotoMoves, CaughtPlace DEF Continue

\* A step of a loop over the files goes to the next file, leaves the loop
\* after the last, or fails.
LEMMA AdvanceMoves ==
    ASSUME RotationTypeOK, OneRuns, NEW p \in Procs, proc[p].pc # "idle", NEW to \in Places, Advance(p, to)
    PROVE  \/ proc[p].k = 5 /\ Moves(p, to, 1)
           \/ proc[p].k < 5 /\ Moves(p, proc[p].pc, proc[p].k + 1)
           \/ Moves(p, Caught(p), 1)
<1>1. proc \in [Procs -> Invocation] /\ proc[p] \in Invocation /\ proc[p].k \in 1 .. 5
  BY OrderFacts DEF RotationTypeOK, Invocation
<1>2. CASE proc[p].k = Len(Order)
  BY <1>2, ContinueMoves, OrderFacts DEF Advance
<1>3. CASE proc[p].k # Len(Order) /\ Goto(p, Caught(p))
  BY <1>3, GotoMoves, CaughtPlace
<1>4. CASE proc[p].k # Len(Order) /\ proc' = [proc EXCEPT ![p].k = @ + 1] /\ UNCHANGED lock
  <2>1. [proc[p] EXCEPT !.k = proc[p].k + 1] \in Invocation
    <3>1. proc[p].k < 5
      BY <1>1, <1>4, OrderFacts
    <3> QED BY <1>1, <3>1, InvocationUpdates
  <2>2. proc' \in [Procs -> Invocation]
    BY <1>1, <1>4, <2>1
  <2>3. /\ \A q \in Procs \ {p} : proc'[q] = proc[q]
        /\ proc'[p].pc = proc[p].pc /\ proc'[p].st = proc[p].st /\ proc'[p].cmd = proc[p].cmd
        /\ proc'[p].k = proc[p].k + 1
    BY <1>1, <1>4 DEF Invocation
  <2>4. OneRuns'
    BY <1>4, <2>3, OthersOut DEF OneRuns
  <2> QED BY <1>1, <1>4, <2>2, <2>3, <2>4, OthersOut, OrderFacts DEF Moves, RotationTypeOK
<1> QED BY <1>2, <1>3, <1>4 DEF Advance
-----------------------------------------------------------------------------
(* One invocation moves, the data stay what the journal allows.            *)

Data == <<db, file, mode, journal, gateway, fresh, stray>>

\* What holds of the secrets does not depend on where invocations are.
LEMMA SameData == ASSUME DataOK, UNCHANGED Data PROVE DataOK'
BY DEF Data, DataOK, Drawn, JournalSound, Sound, NoMixWithoutJournal, JournalCoversAll, Strayed

\* An invocation that runs, and is not in the middle of a publication, leaves
\* no helper of anybody waited for.
LEMMA Alone ==
    ASSUME RotationInv, NEW p \in Procs, proc[p].pc # "idle",
           proc[p].pc \notin {"install", "restore"} \/ proc[p].k # 5 \/ ~Waiting(p)
    PROVE  Unattended
<1> SUFFICES ASSUME NEW h \in Helpers, helper[h].by # Nobody PROVE FALSE
  BY DEF Unattended
<1> DEFINE q == helper[h].by
<1>1. q \in Procs /\ Serves(h, q)
  BY DEF RotationInv, HelpersOK, Helper
<1>2. lock = q /\ lock = p
  BY <1>1 DEF Serves, RotationInv, OneRuns
<1> QED BY <1>1, <1>2 DEF Serves, Waiting

\* Helpers nobody waits for owe nothing.
LEMMA Unwatched ==
    ASSUME helper' \in [Helpers -> Helper], Unattended'
    PROVE  HelpersOK'
BY DEF HelpersOK, Unattended

\* To keep the invariant a moving invocation only has to agree with the
\* journal and with how far its new place says it is.
LEMMA Landing ==
    ASSUME NEW p \in Procs, NEW to, NEW k, Moves(p, to, k),
           DataOK', HelpersOK', Agrees(p)', Far(p)'
    PROVE  RotationInv'
<1>1. RotationTypeOK'
  BY DEF DataOK, HelpersOK, Helper, RotationTypeOK, Moves, Invocation
<1>2. \A q \in Procs \ {p} : (Agrees(q) /\ Far(q))'
  BY DEF Moves, Agrees, Far, Reached
<1> QED BY <1>1, <1>2 DEF RotationInv, Moves

Early == {"idle", "preflight", "prepare", "write"}

\* A step that only moves an invocation.
LEMMA Quiet ==
    ASSUME RotationInv, NEW p \in Procs, NEW to \in Places, Moves(p, to, 1), UNCHANGED Data, HelpersOK',
           to # "write", to \in Early \/ proc[p].pc \notin Early,
           Reached(to, 1)
    PROVE  RotationInv'
<1>1. DataOK'
  BY SameData DEF RotationInv
<1>2. Agrees(p)'
  BY DEF RotationInv, Agrees, Moves, Data, Early, State
<1>3. proc'[p].k = 1 \/ to = "idle"
  BY DEF Moves
<1>4. Far(p)'
  BY <1>3 DEF Far, Reached, Data, Restored, Strayed, Moves
<1> QED BY <1>1, <1>2, <1>4, Landing

\* The place that catches an error claims no progress of its own.
LEMMA CaughtFits ==
    ASSUME NEW p
    PROVE  /\ Caught(p) \in Places /\ Caught(p) # "write"
           /\ Caught(p) \in Early \/ proc[p].pc \notin Early
           /\ Reached(Caught(p), 1)
BY DEF Caught, Places, Undo, Early, Cutover, Reached

\* A step that changes no secret, to a place that claims no more.
LEMMA QuietContinue ==
    ASSUME RotationInv, NEW p \in Procs, proc[p].pc # "idle", NEW to \in Places, Continue(p, to), UNCHANGED Data, HelpersOK',
           to # "write", to \in Early \/ proc[p].pc \notin Early,
           Reached(to, 1)
    PROVE  RotationInv'
<1>1. Moves(p, to, 1) \/ Moves(p, Caught(p), 1)
  BY ContinueMoves DEF RotationInv
<1> QED BY <1>1, Quiet, CaughtFits

\* A helper that is not waited for any more, or whose stage was replaced,
\* keeps its shape.
LEMMA HelperUpdates ==
    ASSUME HelpersOK, NEW g \in Gens
    PROVE  /\ NoHelper \in Helper /\ NoHelper.by = Nobody
           /\ Restaged(g) \in [Helpers -> Helper]
           /\ \A h \in Helpers : Restaged(g)[h].by = helper[h].by /\ Restaged(g)[h].at = helper[h].at
           /\ \A h \in Helpers : Restaged(g)[h].gen = IF helper[h].at = "begun" THEN g ELSE helper[h].gen
<1>1. helper \in [Helpers -> Helper]
  BY DEF HelpersOK
<1>2. 0 \in Gens
  BY RotationAssumption DEF Gens
<1>3. NoHelper \in Helper /\ NoHelper.by = Nobody
  BY <1>2 DEF NoHelper, Helper, Absent
<1>4. \A h \in Helpers : [helper[h] EXCEPT !.gen = g] \in Helper
  BY <1>1 DEF Helper
<1> QED BY <1>1, <1>3, <1>4 DEF Restaged, Helper

\* An invocation that ends leaves its helper to itself.
LEMMA Leaving ==
    ASSUME RotationInv, NEW p \in Procs, proc[p].pc # "idle",
           NEW hs \in [Helpers -> Helper], \A h \in Helpers : hs[h].by = helper[h].by,
           helper' = LeftBy(p, hs)
    PROVE  HelpersOK'
<1>1. NoHelper \in Helper /\ NoHelper.by = Nobody
  <2>1. 0 \in Gens BY RotationAssumption DEF Gens
  <2> QED BY <2>1, HelperUpdates DEF RotationInv
<1>2. \A h \in Helpers : [hs[h] EXCEPT !.by = Nobody] \in Helper /\ [hs[h] EXCEPT !.by = Nobody].by = Nobody
  BY DEF Helper
<1>3. helper' \in [Helpers -> Helper]
  BY <1>1, <1>2 DEF LeftBy
<1>4. ASSUME NEW h \in Helpers PROVE helper'[h].by = Nobody
  <2>1. CASE hs[h].by = p
    BY <1>1, <1>2, <2>1 DEF LeftBy
  <2>2. CASE hs[h].by # p
    <3>1. helper'[h] = hs[h]
      BY <2>2 DEF LeftBy
    <3>2. SUFFICES ASSUME hs[h].by # Nobody PROVE FALSE
      BY <3>1
    <3>3. hs[h].by \in Procs /\ Serves(h, hs[h].by)
      BY <3>2 DEF RotationInv, HelpersOK, Helper
    <3> QED BY <2>2, <3>3 DEF Serves, RotationInv, OneRuns
  <2> QED BY <2>1, <2>2
<1> QED BY <1>3, <1>4, Unwatched DEF Unattended

\* Steps that change no data: an exception, a timeout, the end of the process, and
\* every proof that only looks.
LEMMA RaiseStep == ASSUME RotationInv, NEW p \in Procs, Raise(p) \/ GiveUp(p) \/ Crash(p) PROVE RotationInv'
<1>1. proc[p].pc # "idle" /\ UNCHANGED Data
  <2>1. CASE Raise(p) \/ Crash(p)
    BY <2>1 DEF Raise, Crash, At, Data, publication
  <2>2. CASE GiveUp(p)
    <3>1. PICK h \in Helpers : helper[h].by = p
      BY <2>2 DEF GiveUp, Waiting
    <3>2. Serves(h, p)
      BY <3>1, RotationAssumption DEF RotationInv, HelpersOK
    <3> QED BY <2>2, <3>2 DEF GiveUp, Serves, Data
  <2> QED BY <2>1, <2>2
<1>2. Goto(p, Caught(p)) \/ Goto(p, "idle")
  BY DEF Raise, GiveUp, Crash
<1>3. "idle" \in Places /\ "idle" \in Early /\ Reached("idle", 1)
  BY DEF Places, Early, Reached
<1>4. Moves(p, Caught(p), 1) \/ Moves(p, "idle", 1)
  BY <1>1, <1>2, <1>3, GotoMoves, CaughtPlace DEF RotationInv
<1>5. HelpersOK'
  <2>1. CASE Raise(p)
    <3>1. Unattended
      BY <1>1, <2>1, Alone DEF Raise
    <3> QED BY <2>1, <3>1, Unwatched DEF Raise, publication, RotationInv, HelpersOK, Unattended
  <2>2. CASE GiveUp(p) \/ Crash(p)
    <3>1. Absent \in Gens
      BY RotationAssumption DEF Gens, Absent
    <3>2. /\ helper \in [Helpers -> Helper] /\ Restaged(Absent) \in [Helpers -> Helper]
          /\ \A h \in Helpers : Restaged(Absent)[h].by = helper[h].by
      BY <3>1, HelperUpdates DEF RotationInv, HelpersOK
    <3>3. helper' = LeftBy(p, helper) \/ helper' = LeftBy(p, Restaged(Absent))
      BY <2>2 DEF GiveUp, Crash
    <3> QED BY <1>1, <3>2, <3>3, Leaving
  <2> QED BY <2>1, <2>2
<1> QED BY <1>1, <1>3, <1>4, <1>5, Quiet, CaughtFits

\* The checks and proofs of login read the secrets and change none.
LEMMA LookingStep ==
    ASSUME RotationInv, NEW p \in Procs,
           \/ Preflight(p) \/ Measure(p) \/ ProveNew(p) \/ MeasureUndo(p)
           \/ ProveOld(p) \/ ProveGateway(p) \/ ProveInstalled(p)
    PROVE  RotationInv'
<1>a. proc[p].pc \notin {"idle", "install", "restore"} /\ helper' = helper
  BY DEF At, publication, Preflight, Measure, ProveNew, MeasureUndo, ProveOld, ProveGateway, ProveInstalled
<1>b. HelpersOK'
  BY <1>a, Alone, Unwatched DEF RotationInv, HelpersOK, Unattended
<1> USE <1>b DEF At, Data, publication
<1>0. Agrees(p) /\ Far(p)
  BY DEF RotationInv
<1>1. CASE Preflight(p)
  <2>1. "prepare" \in Places /\ "prepare" \in Early /\ Reached("prepare", 1)
    BY DEF Places, Early, Reached
  <2> QED BY <1>1, <2>1, QuietContinue DEF Preflight
<1>2. CASE Measure(p)
  <2>1. \A to \in {"rotate", "install"} : to \in Places /\ to # "write" /\ Reached(to, 1)
    BY DEF Places, Cutover, Reached
  <2>2. proc[p].pc # "idle" /\ proc[p].pc \notin Early
    BY <1>2 DEF Measure, Early
  <2> QED BY <1>2, <2>1, <2>2, QuietContinue DEF Measure
<1>3. CASE ProveNew(p)
  <2>1. proc[p].pc # "idle" /\ proc[p].pc \notin Early /\ State(p) = journal
    BY <1>0, <1>3 DEF ProveNew, Early, Agrees
  <2>2. \A to \in {"idle", "probe"} : to \in Places /\ to # "write" /\ Reached(to, 1)
    BY <1>3, <2>1 DEF ProveNew, Places, Reached
  <2> QED BY <1>3, <2>1, <2>2, QuietContinue DEF ProveNew
<1>4. CASE MeasureUndo(p)
  <2>1. proc[p].pc # "idle" /\ proc[p].pc \notin Early /\ State(p) = journal
    BY <1>0, <1>4 DEF MeasureUndo, Early, Agrees
  <2>2. CASE db = NewRoles(State(p)) /\ Continue(p, "unrotate")
    <3>1. "unrotate" \in Places /\ Reached("unrotate", 1)
      BY DEF Places, Undo, Reached
    <3> QED BY <1>4, <2>1, <2>2, <3>1, QuietContinue DEF MeasureUndo
  <2>3. CASE db = OldRoles(State(p)) /\ Continue(p, "restore")
    <3>1. "restore" \in Places /\ Reached("restore", 1)
      BY <2>1, <2>3 DEF Places, Undo, Reached
    <3> QED BY <1>4, <2>1, <2>3, <3>1, QuietContinue DEF MeasureUndo
  <2> QED BY <1>4, <2>2, <2>3 DEF MeasureUndo
<1>5. CASE ProveOld(p)
  <2>1. proc[p].pc # "idle" /\ proc[p].pc \notin Early
    BY <1>5 DEF ProveOld, Early
  <2>2. \A to \in {"idle", "remove"} : to \in Places /\ to # "write" /\ Reached(to, 1)
    BY <1>0, <1>5 DEF ProveOld, Places, Reached, Far
  <2> QED BY <1>5, <2>1, <2>2, QuietContinue DEF ProveOld
<1>6. CASE ProveGateway(p)
  <2>1. proc[p].pc # "idle" /\ proc[p].pc \notin Early
    BY <1>6 DEF ProveGateway, Early
  <2>2. "compare" \in Places /\ Reached("compare", 1)
    BY <1>0, <1>6 DEF ProveGateway, Places, Reached, Far
  <2> QED BY <1>6, <2>1, <2>2, QuietContinue DEF ProveGateway
<1>7. CASE ProveInstalled(p)
  <2>1. proc[p].pc # "idle" /\ proc[p].pc \notin Early /\ State(p) = journal
    BY <1>0, <1>7 DEF ProveInstalled, Early, Agrees
  <2>2. "remove" \in Places /\ Reached("remove", 1)
    BY <1>0, <1>7, <2>1 DEF ProveInstalled, Installed, Places, Reached, Far
  <2> QED BY <1>7, <2>1, <2>2, QuietContinue DEF ProveInstalled
<1> QED BY <1>1, <1>2, <1>3, <1>4, <1>5, <1>6, <1>7
-----------------------------------------------------------------------------
(* Steps that change data.                                                 *)

\* A journal on disk: its shape, and the two generations it holds.
LEMMA JournalFacts ==
    ASSUME DataOK, journal # NoJournal
    PROVE  /\ journal.new \in Gens /\ journal.new \in 1 .. fresh
           /\ journal.snap \in [Files -> Gens]
           /\ OldRoles(journal) \in [{"brain", "codex_ro"} -> Gens]
           /\ NewRoles(journal) \in [{"brain", "codex_ro"} -> Gens]
           /\ OldRoles(journal)["brain"] \in 1 .. fresh
           /\ NewRoles(journal)["brain"] \in 1 .. fresh
<1>1. journal.new \in Gens /\ journal.snap \in [Files -> Gens]
  BY DEF DataOK, States
<1>2. journal.new \in 1 .. fresh
  BY DEF DataOK, JournalSound, Sound
<1>3. journal.snap["brain"] \in Gens /\ journal.snap["red_codex"] \in Gens
  BY <1>1, OrderFacts
<1>4. OldRoles(journal) \in [{"brain", "codex_ro"} -> Gens]
  BY <1>3 DEF OldRoles
<1>5. NewRoles(journal) \in [{"brain", "codex_ro"} -> Gens] /\ NewRoles(journal)["brain"] \in 1 .. fresh
  BY <1>1, <1>2 DEF NewRoles
<1>6. OldRoles(journal)["brain"] \in 1 .. fresh
  BY DEF DataOK, JournalSound, Sound, Uniform
<1> QED BY <1>1, <1>2, <1>4, <1>5, <1>6

\* With the journal on disk unchanged, the database may go to either of its
\* generations and a file to either of its contents.
LEMMA WithinJournal ==
    ASSUME DataOK, journal # NoJournal, UNCHANGED <<journal, mode, gateway, fresh, stray>>,
           db' = db \/ db' = OldRoles(journal) \/ db' = NewRoles(journal),
           \/ file' = file
           \/ \E f \in Files : \E c \in {journal.snap[f], journal.new} : file' = [file EXCEPT ![f] = c]
    PROVE  DataOK'
<1>1. db' \in [{"brain", "codex_ro"} -> Gens] /\ Drawn'
  BY JournalFacts DEF DataOK, Drawn
<1>2. file' \in [Files -> Gens] /\ \A f \in Files : file'[f] \in {journal.snap[f], journal.new} \/ Strayed(f)
  BY JournalFacts DEF DataOK, JournalCoversAll
<1>3. JournalCoversAll'
  BY <1>2 DEF DataOK, JournalCoversAll, Strayed
<1>4. JournalSound' /\ NoMixWithoutJournal'
  BY DEF DataOK, JournalSound, Sound, NoMixWithoutJournal
<1> QED BY <1>1, <1>2, <1>3, <1>4 DEF DataOK

\* ALTER ROLE, forward or back, happens under a journal only.
LEMMA RotateStep ==
    ASSUME RotationInv, NEW p \in Procs, Rotate(p) \/ Unrotate(p)
    PROVE  RotationInv'
<1>1. proc[p].pc \in {"rotate", "unrotate"} /\ proc[p].pc \notin Early
  BY DEF Rotate, Unrotate, At, Early
<1>2. journal # NoJournal /\ State(p) = journal
  BY <1>1 DEF RotationInv, Agrees
<1>3. UNCHANGED <<file, journal, mode, gateway, fresh, stray, helper>>
  BY DEF Rotate, Unrotate, publication
<1>4. DataOK'
  BY <1>2, <1>3, WithinJournal DEF RotationInv, Rotate, Unrotate
<1>a. HelpersOK'
  BY <1>1, <1>3, Alone, Unwatched DEF RotationInv, HelpersOK, Unattended, Early
<1>5. ASSUME NEW to \in {"install", "restore", "undo", "idle"}, Moves(p, to, 1),
             to = "restore" => db' = OldRoles(journal)
      PROVE  RotationInv'
  <2>1. Agrees(p)'
    BY <1>2, <1>3, <1>5 DEF Agrees, Moves, State
  <2>2. Far(p)'
    BY <1>3, <1>5 DEF Far, Reached, Moves
  <2> QED BY <1>4, <1>5, <1>a, <2>1, <2>2, Landing
<1>6. Caught(p) \in {"undo", "idle"}
  BY DEF Caught
<1>7. CASE Rotate(p)
  <2>1. "install" \in Places
    BY DEF Places, Cutover
  <2>2. Moves(p, "install", 1) \/ Moves(p, Caught(p), 1)
    BY <1>1, <1>7, <2>1, ContinueMoves DEF Rotate, RotationInv
  <2> QED BY <2>2, <1>5, <1>6
<1>8. CASE Unrotate(p)
  <2>1. "restore" \in Places
    BY DEF Places, Undo
  <2>2. Moves(p, "restore", 1) \/ Moves(p, Caught(p), 1)
    BY <1>1, <1>8, <2>1, ContinueMoves DEF Unrotate, RotationInv
  <2>3. db' = OldRoles(journal)
    BY <1>2, <1>8 DEF Unrotate
  <2> QED BY <2>2, <2>3, <1>5, <1>6
<1> QED BY <1>7, <1>8

\* Writing one file of the new generation keeps the journal sound: its
\* snapshots are those of before.
LEMMA InstallStep == ASSUME RotationInv, NEW p \in Procs, InstallFile(p) PROVE RotationInv'
<1>1. proc[p].pc = "install" /\ UNCHANGED <<db, journal, mode, gateway, fresh, stray, helper>>
  BY DEF InstallFile, At, publication
<1>2. journal # NoJournal /\ State(p) = journal
  BY <1>1 DEF RotationInv, Agrees
<1>3. Target(p) \in Files
  BY OrderFacts DEF RotationInv, RotationTypeOK, Target
<1>4. DataOK'
  BY <1>1, <1>2, <1>3, WithinJournal DEF RotationInv, InstallFile
<1>a. HelpersOK'
  <2>1. proc[p].k # 5
    BY OrderFacts DEF InstallFile, Target
  <2> QED BY <1>1, <2>1, Alone, Unwatched DEF RotationInv, HelpersOK, Unattended
<1>5. "prove" \in Places /\ Caught(p) \in {"undo", "idle"}
  BY DEF Places, Cutover, Caught
<1>6. \E to \in {"prove", "install", "undo", "idle"}, k \in 1 .. 6 : Moves(p, to, k)
  <2>1. proc[p].k \in 1 .. 5
    BY OrderFacts DEF RotationInv, RotationTypeOK
  <2>2. RotationTypeOK /\ OneRuns /\ Advance(p, "prove")
    BY DEF RotationInv, InstallFile
  <2> QED BY <1>1, <1>5, <2>1, <2>2, AdvanceMoves
<1>7. PICK to \in {"prove", "install", "undo", "idle"}, k \in 1 .. 6 : Moves(p, to, k)
  BY <1>6
<1>8. Agrees(p)'
  BY <1>1, <1>2, <1>7 DEF Agrees, Moves, State
<1>9. Far(p)'
  BY <1>7 DEF Far, Reached, Moves
<1> QED BY <1>4, <1>a, <1>7, <1>8, <1>9, Landing

\* Restoring one file adds it to the ones already restored.
LEMMA RestoreStep == ASSUME RotationInv, NEW p \in Procs, RestoreFile(p) PROVE RotationInv'
<1>1. proc[p].pc = "restore" /\ UNCHANGED <<db, journal, mode, gateway, fresh, stray, helper>>
  BY DEF RestoreFile, At, publication
<1>2. journal # NoJournal /\ State(p) = journal
  BY <1>1 DEF RotationInv, Agrees
<1>3. Target(p) \in Files /\ proc[p].k \in 1 .. 5
  BY OrderFacts DEF RotationInv, RotationTypeOK, Target
<1>4. DataOK'
  BY <1>1, <1>2, <1>3, WithinJournal DEF RotationInv, RestoreFile
<1>a. proc[p].k # 5 /\ HelpersOK'
  <2>1. proc[p].k # 5
    BY OrderFacts DEF RestoreFile, Target
  <2> QED BY <1>1, <2>1, Alone, Unwatched DEF RotationInv, HelpersOK, Unattended
<1>5. "unprove" \in Places /\ Caught(p) = "idle"
  BY <1>1 DEF Places, Undo, Cutover, Caught
<1>6. RotationTypeOK /\ OneRuns /\ Advance(p, "unprove") /\ file \in [Files -> Gens]
  BY DEF RotationInv, RestoreFile, RotationTypeOK
<1>7. db = OldRoles(journal) /\ \A i \in 1 .. (proc[p].k - 1) : Restored(i)
  BY <1>1 DEF RotationInv, Far, Reached
<1>8. \A i \in 1 .. proc[p].k : Restored(i)'
  <2>1. ASSUME NEW i \in 1 .. proc[p].k PROVE file'[Order[i]] = journal.snap[Order[i]] \/ Strayed(Order[i])
    <3>1. i \in 1 .. 5 /\ Order[i] \in Files
      BY <1>3, OrderFacts
    <3>2. CASE i = proc[p].k
      BY <1>2, <1>3, <1>6, <3>2 DEF RestoreFile, Target
    <3>3. CASE i # proc[p].k
      <4>1. Restored(i)
        BY <1>3, <1>7, <3>3
      <4> QED BY <1>2, <1>3, <1>6, <3>1, <4>1 DEF RestoreFile, Target, Restored
    <3> QED BY <3>2, <3>3
  <2> QED BY <1>1, <2>1 DEF Restored, Strayed
<1>9. ASSUME NEW to \in {"unprove", "restore", "idle"}, NEW k \in 1 .. 6, Moves(p, to, k),
             to = "unprove" => proc[p].k = 5,
             to = "restore" => k = proc[p].k + 1
      PROVE  RotationInv'
  <2>1. Agrees(p)'
    BY <1>1, <1>2, <1>9 DEF Agrees, Moves, State
  <2>2. db' = OldRoles(journal')
    BY <1>1, <1>7
  <2>3. to = "restore" => \A i \in 1 .. (k - 1) : Restored(i)'
    BY <1>3, <1>8, <1>9
  <2>4. to = "unprove" => \A i \in 1 .. 5 : Restored(i)'
    BY <1>8, <1>9
  <2>5. Far(p)'
    BY <1>9, <2>2, <2>3, <2>4 DEF Far, Reached, Moves
  <2> QED BY <1>4, <1>a, <1>9, <2>1, <2>5, Landing
<1>10. \/ proc[p].k = 5 /\ Moves(p, "unprove", 1)
       \/ proc[p].k < 5 /\ Moves(p, "restore", proc[p].k + 1)
       \/ Moves(p, "idle", 1)
  BY <1>1, <1>5, <1>6, AdvanceMoves
<1> QED BY <1>3, <1>9, <1>10

\* A new invocation finds every other one out.
LEMMA StartStep ==
    ASSUME RotationInv, NEW p \in Procs, NEW cmd \in Commands, Invoke(p, cmd)
    PROVE  RotationInv'
<1>1. \A q \in Procs : proc[q].pc = "idle"
  BY RotationAssumption DEF RotationInv, OneRuns, Invoke, LockFree
<1>2. proc \in [Procs -> Invocation] /\ UNCHANGED Data /\ helper' = helper
  BY DEF RotationInv, RotationTypeOK, Invocation, Invoke, Data, publication
<1>a. HelpersOK'
  <2>1. Unattended
    BY <1>1 DEF Unattended, RotationInv, HelpersOK, Helper, Serves
  <2> QED BY <1>2, <2>1, Unwatched DEF RotationInv, HelpersOK, Unattended
<1> DEFINE new == [pc |-> Entry[cmd], cmd |-> cmd, k |-> 1,
                   st |-> IF cmd = "apply" THEN NoJournal ELSE journal]
<1>3. Entry[cmd] \in {"preflight", "measure", "prove", "undo"} /\ (cmd # "apply" => Entry[cmd] # "preflight")
      /\ (cmd = "apply" => Entry[cmd] = "preflight")
  BY DEF Commands, Entry
<1>4. new \in Invocation
  <2>1. Entry[cmd] \in Places /\ 1 \in 1 .. Len(Order)
    BY <1>3, OrderFacts DEF Places, Cutover, Undo
  <2>2. NoJournal \in States /\ journal \in States
    BY DEF RotationInv, RotationTypeOK, States
  <2> QED BY <2>1, <2>2 DEF Invocation
<1>5. proc' = [proc EXCEPT ![p] = new] /\ lock' = p
  BY DEF Invoke
<1>6. proc' \in [Procs -> Invocation] /\ proc'[p] = new /\ \A q \in Procs \ {p} : proc'[q] = proc[q]
  BY <1>2, <1>4, <1>5
<1>7. DataOK'
  BY <1>2, SameData DEF RotationInv
<1>8. RotationTypeOK'
  BY <1>5, <1>6, <1>7, <1>a DEF DataOK, HelpersOK, Helper, RotationTypeOK, Invocation
<1>9. OneRuns'
  BY <1>1, <1>5, <1>6 DEF OneRuns
<1>10. (Agrees(p) /\ Far(p))'
  <2>1. proc'[p].pc = Entry[cmd] /\ proc'[p].st = IF cmd = "apply" THEN NoJournal ELSE journal
    BY <1>6
  <2>2. Agrees(p)'
    BY <1>2, <1>3, <2>1 DEF Agrees, State, Invoke, Data
  <2>3. Far(p)'
    BY <1>3, <2>1 DEF Far, Reached
  <2> QED BY <2>2, <2>3
<1>11. \A q \in Procs \ {p} : (Agrees(q) /\ Far(q))'
  BY <1>1, <1>6 DEF Agrees, Far, Reached
<1> QED BY <1>7, <1>8, <1>9, <1>10, <1>11, <1>a DEF RotationInv

\* What is in force when no journal exists.
LEMMA PrepareStep == ASSUME RotationInv, NEW p \in Procs, Prepare(p) PROVE RotationInv'
<1>1. /\ proc[p].pc = "prepare" /\ journal = NoJournal /\ fresh' = fresh + 1
      /\ gateway' = FALSE /\ UNCHANGED <<db, file, mode, journal, lock, stray, helper>>
  BY DEF Prepare, At, publication
<1>a. HelpersOK'
  BY <1>1, Alone, Unwatched DEF RotationInv, HelpersOK, Unattended
<1> DEFINE st == [new |-> fresh + 1, snap |-> file]
<1>2. fresh \in Nat /\ fresh + 1 \in Gens /\ 1 .. fresh \subseteq 1 .. fresh'
  BY <1>1, RotationAssumption DEF RotationInv, RotationTypeOK, Gens, Prepare
<1>3. st \in States
  BY <1>2 DEF RotationInv, RotationTypeOK, States
<1>4. proc \in [Procs -> Invocation] /\ proc[p] \in Invocation /\ "write" \in Places
  BY DEF RotationInv, RotationTypeOK, Invocation, Places
<1>5. [proc[p] EXCEPT !.pc = "write", !.st = st] \in Invocation
  BY <1>3, <1>4, InvocationUpdates
<1>6. /\ proc' \in [Procs -> Invocation]
      /\ \A q \in Procs \ {p} : proc'[q] = proc[q]
      /\ proc'[p].pc = "write" /\ proc'[p].st = st
  <2>1. proc' = [proc EXCEPT ![p] = [proc[p] EXCEPT !.pc = "write", !.st = st]]
    BY <1>4 DEF Prepare
  <2> QED BY <1>4, <1>5, <2>1 DEF Invocation
<1>7. PICK g \in Gens \ {Absent} :
            /\ \A r \in DOMAIN db : db[r] = g
            /\ \A f \in Files : file[f] \in (IF f = "gateway" THEN {Absent, g} ELSE {g}) \/ Strayed(f)
  BY <1>1 DEF RotationInv, DataOK, NoMixWithoutJournal
<1>b. \A f \in Files : file[f] \in IF f = "gateway" THEN {Absent, g} ELSE {g}
  BY <1>7, OrderFacts DEF Prepare, Consistent, Strayed
<1>8. db["brain"] = g /\ db["codex_ro"] = g /\ g \in 1 .. fresh /\ g # fresh + 1
  <2>1. db["brain"] = g /\ db["codex_ro"] = g
    BY <1>7 DEF RotationInv, RotationTypeOK
  <2>2. g \in 1 .. fresh
    BY <2>1 DEF RotationInv, DataOK, Drawn
  <2> QED BY <1>2, <2>1, <2>2
<1>9. db = OldRoles(st) /\ Uniform(OldRoles(st), st.snap, g)
  <2>1. file["brain"] = g /\ file["red_codex"] = g
    BY <1>b, OrderFacts
  <2>2. OldRoles(st)["brain"] = g /\ OldRoles(st)["codex_ro"] = g
    BY <2>1 DEF OldRoles
  <2>3. db = OldRoles(st)
    BY <1>8, <2>1 DEF OldRoles, RotationInv, RotationTypeOK
  <2> QED BY <1>b, <2>2, <2>3 DEF Uniform
<1>10. DataOK'
  <2>1. Drawn'
    BY <1>1, <1>2 DEF RotationInv, DataOK, Drawn
  <2>2. NoMixWithoutJournal' /\ JournalSound' /\ JournalCoversAll'
    BY <1>1 DEF RotationInv, DataOK, NoMixWithoutJournal, JournalSound, JournalCoversAll, Strayed
  <2> QED BY <1>1, <1>2, <2>1, <2>2 DEF RotationInv, DataOK
<1>11. (Agrees(p) /\ Far(p))'
  <2>1. st.new \in 1 .. fresh' /\ g \in 1 .. fresh' /\ g # st.new
    BY <1>1, <1>2, <1>8
  <2>2. st.new \in 1 .. fresh' /\ \E h \in 1 .. fresh' : h # st.new /\ Uniform(OldRoles(st), st.snap, h)
    BY <1>9, <2>1
  <2>3. State(p)' = st
    BY <1>6 DEF State
  <2>4. Sound(State(p))'
    BY <2>2, <2>3 DEF Sound
  <2> HIDE DEF st
  <2>5. State(p)'.snap = file'
    BY <1>1, <2>3 DEF st
  <2>6. Agrees(p)'
    BY <1>1, <1>6, <1>9, <2>3, <2>4, <2>5 DEF Agrees
  <2> QED BY <1>6, <2>6 DEF Far, Reached
<1>12. \A q \in Procs \ {p} : (Agrees(q) /\ Far(q))'
  <2>1. \A q \in Procs \ {p} : proc[q].pc = "idle"
    BY <1>1, OthersOut DEF RotationInv
  <2> QED BY <1>6, <2>1 DEF Agrees, Far, Reached
<1>13. OneRuns'
  BY <1>1, <1>6 DEF RotationInv, OneRuns
<1>14. RotationTypeOK'
  BY <1>1, <1>6, <1>10 DEF RotationInv, DataOK, RotationTypeOK, Invocation
<1> QED BY <1>a, <1>10, <1>11, <1>12, <1>13, <1>14 DEF RotationInv

\* The journal is written before anything it describes has changed.
LEMMA WriteStep == ASSUME RotationInv, NEW p \in Procs, WriteJournal(p) PROVE RotationInv'
<1>1. /\ proc[p].pc = "write" /\ journal' = State(p) /\ Continue(p, "measure")
      /\ UNCHANGED <<db, file, mode, gateway, fresh, stray, helper>>
  BY DEF WriteJournal, At, publication
<1>a. HelpersOK'
  BY <1>1, Alone, Unwatched DEF RotationInv, HelpersOK, Unattended
<1>2. /\ Sound(State(p)) /\ db = OldRoles(State(p)) /\ State(p) \in States
      /\ \A f \in Files : State(p).snap[f] = file[f] \/ Strayed(f)
  BY <1>1 DEF RotationInv, Agrees, RotationTypeOK, State
<1>3. State(p) # NoJournal
  BY <1>2 DEF Sound, NoJournal, Absent
<1>4. DataOK'
  <2>1. NoMixWithoutJournal' /\ JournalCoversAll'
    BY <1>1, <1>2, <1>3 DEF NoMixWithoutJournal, JournalCoversAll, Strayed
  <2>2. JournalSound' /\ Drawn'
    BY <1>1, <1>2 DEF RotationInv, DataOK, JournalSound, Sound, Drawn
  <2> QED BY <1>1, <1>2, <2>1, <2>2 DEF RotationInv, DataOK
<1>5. "measure" \in Places /\ Caught(p) = "idle"
  BY <1>1 DEF Places, Cutover, Caught
<1>6. Moves(p, "measure", 1) \/ Moves(p, "idle", 1)
  BY <1>1, <1>5, ContinueMoves DEF RotationInv
<1>7. (Agrees(p) /\ Far(p))'
  BY <1>1, <1>3, <1>6 DEF Agrees, Far, Reached, Moves, State
<1> QED BY <1>a, <1>4, <1>6, <1>7, Landing

\* The journal is removed only when roles and files all agree, on the old
\* generation or on the new one.
LEMMA RemoveStep == ASSUME RotationInv, NEW p \in Procs, RemoveJournal(p) PROVE RotationInv'
<1>1. /\ proc[p].pc = "remove" /\ journal' = NoJournal /\ Goto(p, "idle")
      /\ UNCHANGED <<db, file, mode, gateway, fresh, stray, helper>>
  BY DEF RemoveJournal, At, publication
<1>a. HelpersOK'
  BY <1>1, Alone, Unwatched DEF RotationInv, HelpersOK, Unattended
<1>2. journal # NoJournal /\ Sound(journal)
  BY <1>1 DEF RotationInv, Agrees, DataOK, JournalSound
<1>3. \E g \in 1 .. fresh : /\ db["brain"] = g /\ db["codex_ro"] = g
                            /\ \A f \in Files : file[f] = g \/ (f = "gateway" /\ file[f] = Absent) \/ Strayed(f)
  <2>1. CASE db = OldRoles(journal) /\ \A i \in 1 .. 5 : Restored(i)
    <3>1. \A f \in Files : file[f] = journal.snap[f] \/ Strayed(f)
      <4>1. Restored(1) /\ Restored(2) /\ Restored(3) /\ Restored(4) /\ Restored(5)
        BY <2>1
      <4> QED BY <4>1, OrderFacts DEF Restored
    <3>2. PICK g \in 1 .. fresh : Uniform(OldRoles(journal), journal.snap, g)
      BY <1>2 DEF Sound
    <3> QED BY <2>1, <3>1, <3>2 DEF Uniform
  <2>2. CASE db = NewRoles(journal) /\ \A f \in Files : file[f] = journal.new \/ Strayed(f)
    <3>1. journal.new \in 1 .. fresh /\ db["brain"] = journal.new /\ db["codex_ro"] = journal.new
      BY <1>2, <2>2 DEF NewRoles, Sound
    <3> QED BY <2>2, <3>1
  <2> QED BY <1>1, <2>1, <2>2 DEF RotationInv, Far, Reached
<1>4. NoMixWithoutJournal'
  <2>1. PICK g \in 1 .. fresh : /\ db["brain"] = g /\ db["codex_ro"] = g
                               /\ \A f \in Files : file[f] = g \/ (f = "gateway" /\ file[f] = Absent) \/ Strayed(f)
    BY <1>3
  <2>2. g \in Gens \ {Absent}
    BY RotationAssumption DEF RotationInv, RotationTypeOK, Gens, Absent
  <2>3. \A r \in DOMAIN db : db[r] = g
    BY <2>1 DEF RotationInv, RotationTypeOK
  <2>4. \A f \in Files : file[f] \in (IF f = "gateway" THEN {Absent, g} ELSE {g}) \/ Strayed(f)
    BY <2>1
  <2> QED BY <1>1, <2>2, <2>3, <2>4 DEF NoMixWithoutJournal, Strayed
<1>5. DataOK'
  BY <1>1, <1>4 DEF RotationInv, DataOK, Drawn, JournalSound, JournalCoversAll, States
<1>6. Moves(p, "idle", 1)
  <2>1. "idle" \in Places
    BY DEF Places
  <2> QED BY <1>1, <2>1, GotoMoves DEF RotationInv
<1>7. (Agrees(p) /\ Far(p))'
  BY <1>6 DEF Agrees, Far, Reached, Moves
<1> QED BY <1>a, <1>5, <1>6, <1>7, Landing

\* A step of the gateway or of a helper that replaces nothing disturbs only
\* what is said of the helpers.
LEMMA AsideStep ==
    ASSUME RotationInv, UNCHANGED <<db, file, mode, journal, fresh, stray, lock, proc>>,
           gateway' \in BOOLEAN, HelpersOK'
    PROVE  RotationInv'
<1>1. DataOK'
  BY DEF RotationInv, DataOK, Drawn, JournalSound, Sound, NoMixWithoutJournal, JournalCoversAll, Strayed
<1>2. RotationTypeOK' /\ OneRuns'
  BY <1>1 DEF RotationInv, DataOK, RotationTypeOK, OneRuns, HelpersOK, Helper
<1>3. \A p \in Procs : (Agrees(p) /\ Far(p))'
  BY DEF RotationInv, Agrees, State, Sound, Far, Reached, Restored, Strayed
<1> QED BY <1>1, <1>2, <1>3 DEF RotationInv

\* Starting the consumers again changes what the gateway answers to, nothing
\* the other invariants speak of.
LEMMA RecreateStep == ASSUME RotationInv, Recreate PROVE RotationInv'
<1>1. UNCHANGED <<db, file, mode, journal, fresh, lock, proc, helper, stray>> /\ gateway' \in BOOLEAN
  BY DEF Recreate, publication
<1>2. HelpersOK'
  BY <1>1 DEF RotationInv, HelpersOK, Serves, Payload, At, State
<1> QED BY <1>1, <1>2, AsideStep

\* A publication begins: only this invocation runs and it waits for no other
\* helper, so that whatever the new stage changes belongs to nobody.
LEMMA PublishStep == ASSUME RotationInv, NEW p \in Procs, Publish(p) PROVE RotationInv'
<1>1. /\ proc[p].pc \in {"install", "restore"} /\ Target(p) = "shrik" /\ ~Waiting(p)
      /\ UNCHANGED <<db, file, mode, journal, gateway, fresh, lock, proc, stray>>
  BY DEF Publish, At
<1>2. PICK h \in Helpers : helper' = [Restaged(Payload(p)) EXCEPT ![h] = [at |-> "begun", by |-> p, gen |-> Payload(p)]]
  BY DEF Publish
<1>3. Unattended
  BY <1>1, Alone
<1>4. State(p) = journal /\ journal # NoJournal
  BY <1>1 DEF RotationInv, Agrees
<1>5. Payload(p) \in Gens
  <2>1. journal.new \in Gens /\ journal.snap["shrik"] \in Gens
    BY <1>4, JournalFacts, OrderFacts DEF RotationInv
  <2> QED BY <1>4, <2>1 DEF Payload
<1>6. proc[p].k = 5
  <2>1. proc[p].k \in 1 .. 5
    BY OrderFacts DEF RotationInv, RotationTypeOK
  <2> QED BY <1>1, <2>1, OrderFacts DEF Target
<1> DEFINE new == [at |-> "begun", by |-> p, gen |-> Payload(p)]
<1>7. new \in Helper /\ new.by = p /\ new.at = "begun" /\ new.gen = Payload(p)
  BY <1>5 DEF Helper
<1>8. /\ helper' \in [Helpers -> Helper] /\ helper'[h] = new
      /\ \A i \in Helpers \ {h} : helper'[i].by = Nobody
  <2>1. /\ Restaged(Payload(p)) \in [Helpers -> Helper]
        /\ \A i \in Helpers : Restaged(Payload(p))[i].by = helper[i].by
    BY <1>5, HelperUpdates DEF RotationInv
  <2> HIDE DEF new
  <2>2. helper' = [Restaged(Payload(p)) EXCEPT ![h] = new]
    BY <1>2 DEF new
  <2> QED BY <1>3, <1>7, <2>1, <2>2 DEF Unattended
<1>9. Serves(h, p)'
  <2>1. Payload(p)' = Payload(p)
    BY <1>1 DEF Payload, At, State
  <2> QED BY <1>1, <1>6, <1>7, <1>8, <2>1 DEF Serves
<1>10. HelpersOK'
  <2>1. ASSUME NEW i \in Helpers, helper'[i].by # Nobody PROVE i = h /\ helper'[i].by = p
    BY <1>7, <1>8, <2>1
  <2> QED BY <1>8, <1>9, <2>1 DEF HelpersOK
<1>11. gateway' \in BOOLEAN
  BY <1>1 DEF RotationInv, RotationTypeOK
<1> QED BY <1>1, <1>10, <1>11, AsideStep

\* A result is for whoever waits.
LEMMA ResultFits ==
    ASSUME RotationInv, NEW h \in Helpers, NEW how \in {"ok", "failed"}
    PROVE  /\ Result(h, how) \in Helper /\ Result(h, how).by = helper[h].by
           /\ helper[h].by # Nobody => Result(h, how).at = how
<1>1. helper[h] \in Helper
  BY DEF RotationInv, HelpersOK
<1>2. NoHelper \in Helper /\ NoHelper.by = Nobody
  <2>1. 0 \in Gens BY RotationAssumption DEF Gens
  <2> QED BY <2>1, HelperUpdates DEF RotationInv
<1>3. [helper[h] EXCEPT !.at = how] \in Helper
  BY <1>1 DEF Helper
<1> QED BY <1>1, <1>2, <1>3 DEF Result, Helper

\* A helper reads its stage, or fails before it replaced the file.
LEMMA HelperStep == ASSUME RotationInv, NEW h \in Helpers, ReadStage(h) \/ HelperFails(h) PROVE RotationInv'
<1>1. UNCHANGED <<db, file, mode, journal, gateway, fresh, lock, proc, stray>>
  BY DEF ReadStage, HelperFails
<1>2. \A p : Payload(p)' = Payload(p)
  BY <1>1 DEF Payload, At, State
<1>3. helper \in [Helpers -> Helper] /\ helper[h] \in Helper
  BY DEF RotationInv, HelpersOK
<1>4. PICK new \in Helper :
          /\ helper' = [helper EXCEPT ![h] = new] /\ new.by = helper[h].by
          /\ \/ helper[h].at = "begun" /\ helper[h].gen # Absent /\ new.at = "ready" /\ new.gen = helper[h].gen
             \/ helper[h].by # Nobody => new.at = "failed"
  <2>1. CASE ReadStage(h)
    <3>1. [helper[h] EXCEPT !.at = "ready"] \in Helper
      BY <1>3 DEF Helper
    <3> QED BY <1>3, <2>1, <3>1 DEF ReadStage, Helper
  <2>2. CASE HelperFails(h)
    BY <2>2, ResultFits DEF HelperFails
  <2> QED BY <2>1, <2>2
<1>5. /\ helper' \in [Helpers -> Helper] /\ helper'[h] = new
      /\ \A i \in Helpers \ {h} : helper'[i] = helper[i]
      /\ \A i \in Helpers : helper'[i].by = helper[i].by
  BY <1>3, <1>4
<1>6. ASSUME NEW i \in Helpers, helper'[i].by # Nobody PROVE Serves(i, helper[i].by)'
  <2> DEFINE q == helper[i].by
  <2>1. Serves(i, q)
    BY <1>5, <1>6 DEF RotationInv, HelpersOK
  <2>2. CASE i = h
    BY <1>1, <1>2, <1>4, <1>5, <1>6, <2>1, <2>2 DEF Serves
  <2>3. CASE i # h
    BY <1>1, <1>2, <1>5, <2>1, <2>3 DEF Serves
  <2> QED BY <2>2, <2>3
<1>7. HelpersOK'
  BY <1>5, <1>6 DEF RotationInv, HelpersOK
<1>8. gateway' \in BOOLEAN
  BY <1>1 DEF RotationInv, RotationTypeOK
<1> QED BY <1>1, <1>7, <1>8, AsideStep

\* Whoever replaces root's file: an invocation that waits gets what its
\* journal holds, and otherwise the file has strayed.
LEMMA ReplaceStep == ASSUME RotationInv, NEW h \in Helpers, ReplaceTarget(h) PROVE RotationInv'
<1>1. /\ helper[h].at = "ready" /\ file' = [file EXCEPT !["shrik"] = helper[h].gen]
      /\ stray' = (helper[h].by = Nobody)
      /\ UNCHANGED <<db, mode, journal, gateway, fresh, lock, proc>>
  BY DEF ReplaceTarget
<1>2. /\ helper \in [Helpers -> Helper] /\ helper[h] \in Helper /\ helper[h].gen \in Gens
      /\ file \in [Files -> Gens] /\ "shrik" \in Files
  BY OrderFacts DEF RotationInv, HelpersOK, Helper, RotationTypeOK
<1>3. /\ file' \in [Files -> Gens] /\ file'["shrik"] = helper[h].gen
      /\ \A f \in Files \ {"shrik"} : file'[f] = file[f] /\ ~Strayed(f) /\ ~Strayed(f)'
      /\ stray' \in BOOLEAN
  BY <1>1, <1>2 DEF Strayed
<1>4. \A p : Payload(p)' = Payload(p)
  BY <1>1 DEF Payload, At, State
<1>5. ASSUME helper[h].by # Nobody
      PROVE  /\ helper[h].by \in Procs /\ helper[h].gen = Payload(helper[h].by)
             /\ \A q \in Procs : proc[q].pc \in {"idle", "install", "restore"} /\ (proc[q].pc = "restore" => proc[q].k = 5)
             /\ journal # NoJournal /\ helper[h].gen \in {journal.snap["shrik"], journal.new}
  <2> DEFINE p == helper[h].by
  <2>1. p \in Procs /\ Serves(h, p)
    BY <1>2, <1>5 DEF Helper, RotationInv, HelpersOK
  <2>2. helper[h].gen = Payload(p) /\ proc[p].pc \in {"install", "restore"} /\ proc[p].k = 5
    BY <1>1, <2>1 DEF Serves
  <2>3. journal # NoJournal /\ State(p) = journal
    BY <2>1, <2>2 DEF RotationInv, Agrees
  <2>4. \A q \in Procs \ {p} : proc[q].pc = "idle"
    BY <2>1, <2>2, OthersOut DEF RotationInv
  <2> QED BY <2>1, <2>2, <2>3, <2>4 DEF Payload
<1>6. DataOK'
  <2>1. JournalSound' /\ Drawn'
    BY <1>1 DEF RotationInv, DataOK, JournalSound, Sound, Drawn
  <2>2. NoMixWithoutJournal'
    <3>1. CASE helper[h].by # Nobody
      BY <1>1, <1>5, <3>1 DEF NoMixWithoutJournal
    <3>2. CASE helper[h].by = Nobody
      <4>1. SUFFICES ASSUME journal = NoJournal PROVE NoMixWithoutJournal'
        BY <1>1 DEF NoMixWithoutJournal
      <4>2. PICK g \in Gens \ {Absent} :
                /\ \A r \in DOMAIN db : db[r] = g
                /\ \A f \in Files : file[f] \in (IF f = "gateway" THEN {Absent, g} ELSE {g}) \/ Strayed(f)
        BY <4>1 DEF RotationInv, DataOK, NoMixWithoutJournal
      <4>3. ASSUME NEW f \in Files
            PROVE  file'[f] \in (IF f = "gateway" THEN {Absent, g} ELSE {g}) \/ Strayed(f)'
        <5>1. CASE f = "shrik" BY <1>1, <3>2, <5>1 DEF Strayed
        <5>2. CASE f # "shrik" BY <1>3, <4>2, <5>2
        <5> QED BY <5>1, <5>2
      <4> QED BY <1>1, <4>2, <4>3 DEF NoMixWithoutJournal
    <3> QED BY <3>1, <3>2
  <2>3. JournalCoversAll'
    <3>1. SUFFICES ASSUME journal # NoJournal PROVE JournalCoversAll'
      BY <1>1 DEF JournalCoversAll
    <3>2. db \in {OldRoles(journal), NewRoles(journal)}
      BY <3>1 DEF RotationInv, DataOK, JournalCoversAll
    <3>3. ASSUME NEW f \in Files PROVE file'[f] \in {journal.snap[f], journal.new} \/ Strayed(f)'
      <4>1. CASE f = "shrik" BY <1>1, <1>3, <1>5, <4>1 DEF Strayed
      <4>2. CASE f # "shrik" BY <1>3, <3>1, <4>2 DEF RotationInv, DataOK, JournalCoversAll
      <4> QED BY <4>1, <4>2
    <3> QED BY <1>1, <3>2, <3>3 DEF JournalCoversAll
  <2> QED BY <1>1, <1>3, <2>1, <2>2, <2>3 DEF RotationInv, DataOK
<1>7. \A p \in Procs : (Agrees(p) /\ Far(p))'
  <2>1. ASSUME NEW p \in Procs PROVE Agrees(p)' /\ Far(p)'
    <3>1. CASE helper[h].by # Nobody
      <4>1. Agrees(p)'
        BY <1>1, <1>5, <3>1 DEF RotationInv, Agrees, State
      <4>2. \A i \in 1 .. 4 : Restored(i) => Restored(i)'
        BY <1>1, <1>3, OrderFacts DEF Restored
      <4>3. Far(p)'
        BY <1>1, <1>5, <3>1, <4>2 DEF RotationInv, Far, Reached
      <4> QED BY <4>1, <4>3
    <3>2. CASE helper[h].by = Nobody
      <4>1. Strayed("shrik")'
        BY <1>1, <3>2 DEF Strayed
      <4>2. Agrees(p)'
        <5>1. proc[p].pc = "write" => \A f \in Files : State(p).snap[f] = file'[f] \/ Strayed(f)'
          BY <1>3, <4>1 DEF RotationInv, Agrees
        <5> QED BY <1>1, <5>1 DEF RotationInv, Agrees, State, Sound
      <4>3. \A i \in 1 .. 5 : Restored(i) => Restored(i)'
        <5>1. \A i \in 1 .. 5 : i \in 1 .. 4 \/ i = 5
          OBVIOUS
        <5>2. \A i \in 1 .. 4 : Restored(i) => Restored(i)'
          BY <1>1, <1>3, OrderFacts DEF Restored
        <5>3. Restored(5)'
          BY <4>1, OrderFacts DEF Restored
        <5> QED BY <5>1, <5>2, <5>3
      <4>4. (\A f \in Files : file[f] = journal.new \/ Strayed(f))
              => \A f \in Files : file'[f] = journal.new \/ Strayed(f)'
        BY <1>3, <4>1
      <4>5. proc[p].k \in 1 .. 5
        BY OrderFacts DEF RotationInv, RotationTypeOK
      <4>6. Far(p)'
        <5>1. proc[p].pc = "restore" => db = OldRoles(journal) /\ \A i \in 1 .. (proc[p].k - 1) : Restored(i)'
          BY <4>3, <4>5 DEF RotationInv, Far, Reached
        <5>2. proc[p].pc = "unprove" => db = OldRoles(journal) /\ \A i \in 1 .. 5 : Restored(i)'
          BY <4>3 DEF RotationInv, Far, Reached
        <5>3. proc[p].pc \in {"probe", "compare"} => db = NewRoles(journal)
          BY DEF RotationInv, Far, Reached
        <5>4. proc[p].pc = "remove" =>
                 \/ db = OldRoles(journal) /\ \A i \in 1 .. 5 : Restored(i)'
                 \/ db = NewRoles(journal) /\ \A f \in Files : file'[f] = journal.new \/ Strayed(f)'
          BY <4>3, <4>4 DEF RotationInv, Far, Reached
        <5> QED BY <1>1, <5>1, <5>2, <5>3, <5>4 DEF Far, Reached
      <4> QED BY <4>2, <4>6
    <3> QED BY <3>1, <3>2
  <2> QED BY <2>1
<1>8. HelpersOK'
  <2>0. Absent \in Gens
    BY RotationAssumption DEF Gens, Absent
  <2>1. PICK hs \in [Helpers -> Helper], how \in {"ok", "failed"} :
            /\ helper' = [hs EXCEPT ![h] = Result(h, how)]
            /\ \A i \in Helpers : /\ hs[i].by = helper[i].by /\ hs[i].at = helper[i].at
                                  /\ hs[i].gen = helper[i].gen \/ (helper[i].at = "begun" /\ hs[i].gen = Absent)
    <3>1. /\ Restaged(Absent) \in [Helpers -> Helper]
          /\ \A i \in Helpers : /\ Restaged(Absent)[i].by = helper[i].by /\ Restaged(Absent)[i].at = helper[i].at
                                /\ \/ Restaged(Absent)[i].gen = helper[i].gen
                                   \/ helper[i].at = "begun" /\ Restaged(Absent)[i].gen = Absent
      BY <2>0, HelperUpdates DEF RotationInv
    <3>2. \/ helper' = [Restaged(Absent) EXCEPT ![h] = Result(h, "ok")]
          \/ helper' = [helper EXCEPT ![h] = Result(h, "failed")]
      BY DEF ReplaceTarget
    <3> QED BY <1>2, <3>1, <3>2
  <2>2. Result(h, how) \in Helper /\ Result(h, how).by = helper[h].by /\ (helper[h].by # Nobody => Result(h, how).at = how)
    BY ResultFits
  <2>3. /\ helper' \in [Helpers -> Helper] /\ helper'[h] = Result(h, how)
        /\ \A i \in Helpers \ {h} : helper'[i] = hs[i]
        /\ \A i \in Helpers : helper'[i].by = helper[i].by
    BY <2>1, <2>2
  <2>4. ASSUME NEW i \in Helpers, helper'[i].by # Nobody PROVE Serves(i, helper[i].by)'
    <3> DEFINE q == helper[i].by
    <3>1. Serves(i, q) /\ q # Nobody /\ helper'[i].by = q
      BY <2>3, <2>4 DEF RotationInv, HelpersOK
    <3>2. CASE i = h
      <4>1. helper[h].gen = Payload(q) /\ helper'[h].at = how
        BY <1>5, <2>2, <2>3, <3>1, <3>2
      <4> QED BY <1>1, <1>3, <1>4, <3>1, <3>2, <4>1 DEF Serves
    <3>3. CASE i # h
      <4>1. helper[i].at = "ok" => stray'
        <5>1. ASSUME helper[h].by # Nobody PROVE FALSE
          <6>1. helper[h].by \in Procs /\ q \in Procs /\ Serves(h, helper[h].by)
            BY <1>2, <3>1, <5>1 DEF RotationInv, HelpersOK, Helper
          <6>2. helper[h].by = q
            BY <3>1, <6>1 DEF Serves, RotationInv, OneRuns
          <6> QED BY <3>1, <3>3, <6>2 DEF RotationInv, HelpersOK
        <5> QED BY <1>1, <5>1
      <4>2. helper'[i].by = helper[i].by /\ helper'[i].at = helper[i].at
            /\ (helper'[i].gen = helper[i].gen \/ (helper[i].at = "begun" /\ helper'[i].gen = Absent))
        BY <2>1, <2>3, <3>3
      <4> QED BY <1>1, <1>4, <3>1, <4>1, <4>2 DEF Serves
    <3> QED BY <3>2, <3>3
  <2> QED BY <2>3, <2>4 DEF RotationInv, HelpersOK
<1>9. RotationTypeOK' /\ OneRuns'
  BY <1>1, <1>6, <1>8 DEF RotationInv, DataOK, RotationTypeOK, OneRuns, HelpersOK, Helper
<1> QED BY <1>6, <1>7, <1>8, <1>9 DEF RotationInv

\* The invocation takes the result: a success leaves the file restored, or
\* strayed.
LEMMA PublishedStep == ASSUME RotationInv, NEW p \in Procs, Published(p) PROVE RotationInv'
<1>1. PICK h \in Helpers :
          /\ helper[h].by = p /\ helper[h].at \in {"ok", "failed"}
          /\ helper' = [Restaged(Absent) EXCEPT ![h] = NoHelper]
          /\ IF helper[h].at = "ok"
             THEN Advance(p, IF At(p, "install") THEN "prove" ELSE "unprove")
             ELSE Goto(p, Caught(p))
          /\ UNCHANGED Data
  BY DEF Published, Data
<1>2. p # Nobody /\ Serves(h, p) /\ proc[p].pc \in {"install", "restore"} /\ proc[p].k = 5
  BY <1>1, RotationAssumption DEF RotationInv, HelpersOK, Serves
<1>3. HelpersOK'
  <2>0. Absent \in Gens
    BY RotationAssumption DEF Gens, Absent
  <2>1. /\ Restaged(Absent) \in [Helpers -> Helper] /\ NoHelper \in Helper /\ NoHelper.by = Nobody
        /\ \A i \in Helpers : Restaged(Absent)[i].by = helper[i].by
    BY <2>0, HelperUpdates DEF RotationInv
  <2>2. helper' \in [Helpers -> Helper]
    BY <1>1, <2>1
  <2>3. ASSUME NEW i \in Helpers, helper'[i].by # Nobody PROVE FALSE
    <3>1. i # h /\ helper'[i].by = helper[i].by
      BY <1>1, <2>1, <2>3
    <3> DEFINE q == helper[i].by
    <3>2. q \in Procs /\ Serves(i, q)
      BY <2>3, <3>1 DEF RotationInv, HelpersOK, Helper
    <3>3. q = p
      BY <1>2, <3>2 DEF Serves, RotationInv, OneRuns
    <3> QED BY <1>1, <1>2, <3>1, <3>3 DEF RotationInv, HelpersOK
  <2> QED BY <2>2, <2>3, Unwatched DEF Unattended
<1>4. State(p) = journal /\ proc[p].pc \notin Early
  BY <1>2 DEF RotationInv, Agrees, Early
<1>5. CASE helper[h].at = "failed"
  <2>1. Moves(p, Caught(p), 1)
    BY <1>1, <1>2, <1>5, GotoMoves, CaughtPlace DEF RotationInv
  <2> QED BY <1>1, <1>3, <2>1, Quiet, CaughtFits
<1>6. CASE helper[h].at = "ok"
  <2> DEFINE to == IF At(p, "install") THEN "prove" ELSE "unprove"
  <2>1. to \in Places /\ to # "write"
    BY DEF Places, Cutover, Undo
  <2>2. Moves(p, to, 1) \/ Moves(p, Caught(p), 1)
    BY <1>1, <1>2, <1>6, <2>1, AdvanceMoves DEF RotationInv
  <2>3. Reached(to, 1)
    <3>1. CASE At(p, "install")
      BY <3>1 DEF Reached
    <3>2. CASE ~At(p, "install")
      <4>1. proc[p].pc = "restore"
        BY <1>2, <3>2 DEF At
      <4>2. db = OldRoles(journal) /\ \A i \in 1 .. 4 : Restored(i)
        BY <1>2, <4>1 DEF RotationInv, Far, Reached
      <4>3. Restored(5)
        BY <1>2, <1>4, <1>6, <3>2, OrderFacts DEF Serves, Payload, Restored, Strayed
      <4>4. \A i \in 1 .. 5 : i \in 1 .. 4 \/ i = 5
        OBVIOUS
      <4> QED BY <3>2, <4>2, <4>3, <4>4 DEF Reached
    <3> QED BY <3>1, <3>2
  <2> HIDE DEF to
  <2> QED BY <1>1, <1>3, <1>4, <2>1, <2>2, <2>3, Quiet, CaughtFits
<1> QED BY <1>1, <1>5, <1>6

-----------------------------------------------------------------------------
(* The theorems.                                                           *)

\* A deployment starts with one generation everywhere and no journal.
LEMMA RotationInitInv == ASSUME RotationInit PROVE RotationInv
<1>1. 1 \in Gens /\ 0 \in Gens /\ 1 .. 1 = {1}
  BY RotationAssumption DEF Gens
<1>2. NotRunning \in Invocation /\ NotRunning.pc = "idle"
  <2>1. "idle" \in Places /\ "apply" \in Commands /\ NoJournal \in States /\ 1 \in 1 .. Len(Order)
    BY OrderFacts DEF Places, Commands, States
  <2> QED BY <2>1 DEF NotRunning, Invocation
<1>3. db \in [{"brain", "codex_ro"} -> Gens] /\ \A r \in DOMAIN db : db[r] = 1
  BY <1>1 DEF RotationInit
<1>4. /\ file \in [Files -> Gens] /\ gateway \in BOOLEAN /\ stray \in BOOLEAN
      /\ \A f \in Files : file[f] \in IF f = "gateway" THEN {Absent, 1} ELSE {1}
  <2>1. PICK g \in {Absent, 1} : file = [[f \in Files |-> 1] EXCEPT !["gateway"] = g]
    BY DEF RotationInit
  <2>2. g \in Gens
    BY <1>1 DEF Absent
  <2>3. file \in [Files -> Gens] /\ \A f \in Files : file[f] = IF f = "gateway" THEN g ELSE 1
    BY <1>1, <2>1, <2>2, OrderFacts
  <2>4. gateway \in BOOLEAN /\ stray \in BOOLEAN
    BY DEF RotationInit
  <2> QED BY <2>3, <2>4
<1>5. proc \in [Procs -> Invocation] /\ \A p \in Procs : proc[p].pc = "idle"
  BY <1>2 DEF RotationInit
<1>6. journal = NoJournal /\ journal \in States /\ fresh = 1 /\ fresh \in Gens
  BY <1>1 DEF RotationInit, States
<1>7. NoMixWithoutJournal
  BY <1>1, <1>3, <1>4 DEF NoMixWithoutJournal, Absent
<1>8. DataOK
  BY <1>1, <1>3, <1>4, <1>6, <1>7 DEF DataOK, Drawn, JournalSound, JournalCoversAll, RotationInit
<1>a. helper \in [Helpers -> Helper] /\ Unattended
  <2>1. NoHelper \in Helper /\ NoHelper.by = Nobody
    BY <1>1 DEF NoHelper, Helper, Absent
  <2> QED BY <2>1 DEF RotationInit, Unattended
<1>b. HelpersOK
  BY <1>a DEF HelpersOK, Unattended
<1>9. RotationTypeOK
  BY <1>5, <1>8, <1>a DEF DataOK, RotationTypeOK, Invocation, Helper, RotationInit
<1> QED BY <1>5, <1>8, <1>9, <1>b DEF RotationInv, OneRuns, Agrees, Far, Reached

\* Every step of every invocation keeps the invariant.
LEMMA RotationNextInv == ASSUME RotationInv, [RotationNext]_rotationVars PROVE RotationInv'
<1>1. CASE UNCHANGED rotationVars
  <2>1. HelpersOK' /\ gateway' \in BOOLEAN
    BY <1>1 DEF rotationVars, publication, RotationInv, RotationTypeOK, HelpersOK, Serves, Payload, At, State
  <2> QED BY <1>1, <2>1, AsideStep DEF rotationVars, publication
<1>2. CASE Recreate
  BY <1>2, RecreateStep
<1>3. ASSUME NEW p \in Procs, NEW cmd \in Commands, Invoke(p, cmd) PROVE RotationInv'
  BY <1>3, StartStep
<1>4. ASSUME NEW p \in Procs,
             \/ Preflight(p) \/ Measure(p) \/ ProveNew(p) \/ MeasureUndo(p)
             \/ ProveOld(p) \/ ProveGateway(p) \/ ProveInstalled(p)
      PROVE  RotationInv'
  BY <1>4, LookingStep
<1>5. ASSUME NEW p \in Procs, Prepare(p) \/ WriteJournal(p) \/ RemoveJournal(p) PROVE RotationInv'
  BY <1>5, PrepareStep, WriteStep, RemoveStep
<1>6. ASSUME NEW p \in Procs, Rotate(p) \/ Unrotate(p) \/ InstallFile(p) \/ RestoreFile(p) PROVE RotationInv'
  BY <1>6, RotateStep, InstallStep, RestoreStep
<1>7. ASSUME NEW p \in Procs, Raise(p) \/ GiveUp(p) \/ Crash(p) PROVE RotationInv'
  BY <1>7, RaiseStep
<1>8. ASSUME NEW p \in Procs, Publish(p) \/ Published(p) PROVE RotationInv'
  BY <1>8, PublishStep, PublishedStep
<1>9. ASSUME NEW h \in Helpers, ReadStage(h) \/ ReplaceTarget(h) \/ HelperFails(h) PROVE RotationInv'
  BY <1>9, HelperStep, ReplaceStep
<1> QED BY <1>1, <1>2, <1>3, <1>4, <1>5, <1>6, <1>7, <1>8, <1>9 DEF RotationNext

\* The invariant holds however invocations overlap, fail and are killed, and
\* however late the helpers they leave behind replace root's file.
THEOREM RotationInvariantHolds == RotationSpec => []RotationInv
BY RotationInitInv, RotationNextInv, PTL DEF RotationSpec

\* Secrets, journal and invocations keep their shapes.
THEOREM RotationTypeCorrect == RotationSpec => []RotationTypeOK
<1>1. RotationInv => RotationTypeOK
  BY DEF RotationInv
<1> QED BY <1>1, RotationInvariantHolds, PTL

\* However many invocations overlap, whatever call raises before or after
\* its effect, wherever the script is killed and however late a helper it
\* started replaces the file: when no journal exists (_remove_journal,
\* _prepare_state), both roles and all files hold one generation, root's file
\* unless a helper nobody waited for any more wrote it last.
THEOREM NoMixTheorem == RotationSpec => []NoMixWithoutJournal
<1>1. RotationInv => NoMixWithoutJournal
  BY DEF RotationInv, DataOK
<1> QED BY <1>1, RotationInvariantHolds, PTL

\* While a journal exists it covers both roles and every file, so that
\* --resume and --rollback can tell where they are (_credential_generation);
\* the exception is again root's file after a helper nobody waited for.
THEOREM CoversTheorem == RotationSpec => []JournalCoversAll
<1>1. RotationInv => JournalCoversAll
  BY DEF RotationInv, DataOK
<1> QED BY <1>1, RotationInvariantHolds, PTL
=============================================================================
