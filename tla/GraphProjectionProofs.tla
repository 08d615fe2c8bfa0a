----------------------- MODULE GraphProjectionProofs -----------------------
(***************************************************************************)
(* Proofs about GraphProjection, for any number of aggregates, workers and *)
(* recovery processes (several may share one recovery id) and any bounds.  *)
(***************************************************************************)
EXTENDS GraphProjection, TLAPS

-----------------------------------------------------------------------------
(* Record updates keep their types.                                        *)

\* Every update that a statement makes to an outbox row yields a row.
LEMMA RowUpdates == ASSUME NEW row \in Row PROVE
    /\ \A n \in Nat : [NoRow EXCEPT !.st = "pending", !.ev = n] \in Row
    /\ \A n \in Nat : [NoRow EXCEPT !.ev = n] \in Row
    /\ \A w \in Workers, g \in Nat, n \in Nat :
          [row EXCEPT !.owner = w, !.gen = g, !.ver = n, !.live = TRUE] \in Row
    /\ \A s \in {"delivered", "superseded"} :
          [row EXCEPT !.st = s, !.live = FALSE, !.owner = None] \in Row
    /\ \A n \in Nat, s \in {row.st, "exhausted"} :
          [row EXCEPT !.tries = n, !.live = FALSE, !.owner = None, !.ready = FALSE, !.st = s] \in Row
    /\ [row EXCEPT !.live = FALSE] \in Row
    /\ [row EXCEPT !.ready = TRUE] \in Row
    /\ [row EXCEPT !.st = "pending", !.owner = None, !.gen = 0,
                   !.live = FALSE, !.tries = 0, !.ready = TRUE] \in Row
<1>1. NoRow \in Row BY DEF Row, NoRow
<1>2. \A n \in Nat : [NoRow EXCEPT !.st = "pending", !.ev = n] \in Row
  BY <1>1 DEF Row
<1>3. \A n \in Nat : [NoRow EXCEPT !.ev = n] \in Row
  BY <1>1 DEF Row
<1>4. \A w \in Workers, g \in Nat, n \in Nat :
          [row EXCEPT !.owner = w, !.gen = g, !.ver = n, !.live = TRUE] \in Row
  BY DEF Row
<1>5. \A s \in {"delivered", "superseded"} :
          [row EXCEPT !.st = s, !.live = FALSE, !.owner = None] \in Row
  BY DEF Row
<1>6. \A n \in Nat, s \in {row.st, "exhausted"} :
          [row EXCEPT !.tries = n, !.live = FALSE, !.owner = None, !.ready = FALSE, !.st = s] \in Row
  BY DEF Row
<1>7. [row EXCEPT !.live = FALSE] \in Row BY DEF Row
<1>8. [row EXCEPT !.ready = TRUE] \in Row BY DEF Row
<1>9. [row EXCEPT !.st = "pending", !.owner = None, !.gen = 0,
                   !.live = FALSE, !.tries = 0, !.ready = TRUE] \in Row BY DEF Row
<1> QED BY <1>2, <1>3, <1>4, <1>5, <1>6, <1>7, <1>8, <1>9

\* Every update that a statement makes to the lease row yields a lease row.
LEMMA LeaseUpdates == ASSUME NEW l \in Lease PROVE
    /\ \A o \in Owners, g \in Nat :
          [l EXCEPT !.owner = o, !.live = TRUE, !.armed = FALSE, !.gen = g] \in Lease
    /\ \A g \in Nat : [l EXCEPT !.gen = g] \in Lease
    /\ [l EXCEPT !.armed = TRUE] \in Lease
    /\ [l EXCEPT !.owner = None, !.live = FALSE] \in Lease
    /\ \A b \in BOOLEAN : [l EXCEPT !.live = b] \in Lease
    /\ \A i \in RecoveryIds, g \in Nat :
          [l EXCEPT !.owner = i, !.gen = g, !.live = TRUE, !.armed = FALSE,
                    !.rec = i, !.phase = "prepared"] \in Lease
    /\ [l EXCEPT !.phase = "neo_ready", !.armed = TRUE] \in Lease
    /\ [l EXCEPT !.lastDone = l.rec, !.rec = None, !.phase = "idle",
                 !.owner = None, !.live = FALSE] \in Lease
<1>1. \A o \in Owners, g \in Nat :
          [l EXCEPT !.owner = o, !.live = TRUE, !.armed = FALSE, !.gen = g] \in Lease
  BY DEF Lease
<1>2. \A g \in Nat : [l EXCEPT !.gen = g] \in Lease BY DEF Lease
<1>3. [l EXCEPT !.armed = TRUE] \in Lease BY DEF Lease
<1>4. [l EXCEPT !.owner = None, !.live = FALSE] \in Lease BY DEF Lease, Owners
<1>5. \A b \in BOOLEAN : [l EXCEPT !.live = b] \in Lease BY DEF Lease
<1>6. \A i \in RecoveryIds, g \in Nat :
          [l EXCEPT !.owner = i, !.gen = g, !.live = TRUE, !.armed = FALSE,
                    !.rec = i, !.phase = "prepared"] \in Lease
  BY DEF Lease, Owners, Phases
<1>7. [l EXCEPT !.phase = "neo_ready", !.armed = TRUE] \in Lease BY DEF Lease, Phases
<1>8. [l EXCEPT !.lastDone = l.rec, !.rec = None, !.phase = "idle",
                 !.owner = None, !.live = FALSE] \in Lease BY DEF Lease, Owners, Phases
<1> QED BY <1>1, <1>2, <1>3, <1>4, <1>5, <1>6, <1>7, <1>8

\* The requeue of every current revision yields an outbox.
LEMMA RequeuedRows == ASSUME TypeOK PROVE Requeued \in [Aggregates -> [Revs -> Row]]
<1>1. \A x \in Aggregates, r \in Revs : outbox[x][r] \in Row
  BY DEF TypeOK
<1>2. \A x \in Aggregates, r \in Revs : Inserted(outbox[x][r]) \in Row
  <2> TAKE x \in Aggregates, r \in Revs
  <2>1. outbox[x][r].ev + 1 \in Nat
    BY <1>1 DEF Row
  <2> QED BY <2>1, <1>1, RowUpdates DEF Inserted
<1>3. \A x \in Aggregates, r \in Revs :
        [outbox[x][r] EXCEPT !.st = "pending", !.owner = None, !.gen = 0,
                             !.live = FALSE, !.tries = 0, !.ready = TRUE] \in Row
  BY <1>1, RowUpdates
<1> QED BY <1>1, <1>2, <1>3 DEF Requeued

\* A step keeps the types; ClaimsSound says that a claim in hand is one.
LEMMA TypeNext == TypeOK /\ ClaimsSound /\ [Next]_vars => TypeOK'
<1> SUFFICES ASSUME TypeOK, ClaimsSound, [Next]_vars PROVE TypeOK'
  OBVIOUS
<1>a. lease \in Lease
  BY DEF TypeOK
<1>b. lease.gen \in Nat
  BY <1>a DEF Lease
<1>c. outbox \in [Aggregates -> [Revs -> Row]]
  BY DEF TypeOK
<1>d. \A x \in Aggregates, r \in Revs : outbox[x][r] \in Row
  BY <1>c
<1>e. fence \in Fence
  BY DEF TypeOK
<1>1. ASSUME NEW a \in Aggregates, Stage(a) PROVE TypeOK'
  <2>1. outbox' \in [Aggregates -> [Revs -> Row]]
    <3>1. pgRev[a] + 1 \in Revs
      BY <1>1, ConstantsAssumption DEF TypeOK, Revs, Stage
    <3>2. outbox[a][pgRev[a] + 1].ev + 1 \in Nat
      BY <1>d, <3>1 DEF Row
    <3>3. Inserted(outbox[a][pgRev[a] + 1]) \in Row
      BY <1>d, <3>1, <3>2, RowUpdates DEF Inserted
    <3> QED BY <1>1, <1>c, <3>1, <3>3 DEF Stage
  <2>2. pgRev' \in [Aggregates -> 0..MaxRev]
    BY <1>1, ConstantsAssumption DEF Stage, TypeOK
  <2> QED BY <1>1, <2>1, <2>2 DEF TypeOK, Stage, pgVars, neoVars, workerVars, recVars,
     budget
<1>2. ASSUME NEW a \in Aggregates, Restage(a) PROVE TypeOK'
  <2>1. outbox' \in [Aggregates -> [Revs -> Row]]
    <3>1. pgRev[a] \in Revs
      BY <1>2, ConstantsAssumption DEF TypeOK, Revs, Restage
    <3>2. outbox[a][pgRev[a]].ev + 1 \in Nat
      BY <1>d, <3>1 DEF Row
    <3>3. Inserted(outbox[a][pgRev[a]]) \in Row
      BY <1>d, <3>1, <3>2, RowUpdates DEF Inserted
    <3> QED BY <1>2, <1>c, <3>1, <3>3 DEF Restage
  <2> QED BY <1>2, <2>1 DEF TypeOK, Restage, pgVars, neoVars, workerVars, recVars, budget
<1>3. ASSUME NEW a \in Aggregates, NEW r \in Revs, Purge(a, r) PROVE TypeOK'
  <2>1. outbox' \in [Aggregates -> [Revs -> Row]]
    <3>1. outbox[a][r].ev \in Nat
      BY <1>d DEF Row
    <3> QED BY <1>3, <1>c, <1>d, <3>1, RowUpdates DEF Purge
  <2>2. upkeep' \in 0..MaxUpkeep
    BY <1>3, ConstantsAssumption DEF Purge, TypeOK
  <2> QED BY <1>3, <2>1, <2>2 DEF TypeOK, Purge, pgVars, neoVars, workerVars, recVars,
     budget
<1>4. ASSUME NEW a \in Aggregates, NEW r \in Revs, ClaimExpires(a, r) PROVE TypeOK'
  <2>1. outbox' \in [Aggregates -> [Revs -> Row]]
    <3>1. [outbox[a][r] EXCEPT !.live = FALSE] \in Row
      BY <1>d, RowUpdates
    <3> QED BY <1>4, <1>c, <3>1 DEF ClaimExpires
  <2>2. faults' \in 0..MaxFaults
    BY <1>4, ConstantsAssumption DEF ClaimExpires, Fault, TypeOK
  <2> QED BY <1>4, <2>1, <2>2 DEF TypeOK, ClaimExpires, Fault, pgVars, neoVars, workerVars,
     recVars, budget
<1>5. ASSUME NEW a \in Aggregates, NEW r \in Revs, BackoffElapses(a, r) PROVE TypeOK'
  <2>1. outbox' \in [Aggregates -> [Revs -> Row]]
    <3>1. [outbox[a][r] EXCEPT !.ready = TRUE] \in Row
      BY <1>d, RowUpdates
    <3> QED BY <1>5, <1>c, <3>1 DEF BackoffElapses
  <2> QED BY <1>5, <2>1 DEF TypeOK, BackoffElapses, pgVars, neoVars, workerVars, recVars,
     budget
<1>6. ASSUME NEW w \in Workers, AcquireLeadership(w) PROVE TypeOK'
  <2>1. lease' \in Lease
    <3>1. lease.gen + 1 \in Nat /\ w \in Owners
      BY <1>b DEF Owners
    <3>2. CASE lease.owner = w /\ lease.live
      BY <1>6, <3>2, <1>a DEF AcquireLeadership, AcquiredLease
    <3>3. CASE ~(lease.owner = w /\ lease.live) /\ lease.armed
      BY <1>6, <3>1, <3>3, <1>a, LeaseUpdates DEF AcquireLeadership, AcquiredLease
    <3>4. CASE ~(lease.owner = w /\ lease.live) /\ ~lease.armed
      BY <1>6, <3>1, <3>4, <1>a, <1>b, LeaseUpdates DEF AcquireLeadership, AcquiredLease
    <3> QED BY <3>2, <3>3, <3>4
  <2>2. lead' \in [Workers -> [gen : Nat, armed : BOOLEAN]]
    <3>1. lease'.gen \in Nat /\ lease'.armed \in BOOLEAN
      BY <2>1 DEF Lease
    <3> QED BY <1>6, <3>1 DEF TypeOK, AcquireLeadership
  <2>3. pc' \in [Workers -> WorkerPcs]
    BY <1>6 DEF AcquireLeadership, AcquiredLease, MayAcquire, Goto, TypeOK, WorkerPcs
  <2> QED BY <1>6, <2>1, <2>2, <2>3 DEF TypeOK, AcquireLeadership, Goto, pgVars, neoVars,
     workerVars, recVars, budget
<1>7. ASSUME NEW w \in Workers, AcquireRefused(w) PROVE TypeOK'
  <2>1. lead' \in [Workers -> [gen : Nat, armed : BOOLEAN]]
    BY <1>7 DEF AcquireRefused, TypeOK, NoLead, Lease
  <2> QED BY <1>7, <2>1 DEF TypeOK, AcquireRefused, pgVars, neoVars, workerVars, recVars,
     budget
<1>8. ASSUME NEW w \in Workers, ActivateGeneration(w) PROVE TypeOK'
  <2>1. fence' \in Fence
    <3>1. lead[w].gen \in Int /\ w \in Owners
      BY DEF TypeOK, Owners
    <3>2. \A g \in Int, o \in Owners : [fence EXCEPT !.gen = g, !.owner = o] \in Fence
      BY <1>e DEF Fence
    <3> QED BY <1>8, <3>1, <3>2, <1>e DEF ActivateGeneration
  <2>2. pc' \in [Workers -> WorkerPcs]
    BY <1>8 DEF ActivateGeneration, Goto, TypeOK, WorkerPcs
  <2> QED BY <1>8, <2>1, <2>2 DEF TypeOK, ActivateGeneration, Goto, pgVars, neoVars,
     workerVars, recVars, budget
<1>9. ASSUME NEW w \in Workers, HasCursorEvidence(w) PROVE TypeOK'
  <2>1. pc' \in [Workers -> WorkerPcs]
    BY <1>9 DEF HasCursorEvidence, Goto, TypeOK, WorkerPcs
  <2> QED BY <1>9, <2>1 DEF TypeOK, HasCursorEvidence, Goto, pgVars, neoVars, workerVars,
     recVars, budget
<1>10. ASSUME NEW w \in Workers, AdvanceConfirmedGeneration(w) PROVE TypeOK'
  <2>1. lease' \in Lease
    <3>1. lease.gen + 1 \in Nat
      BY <1>b
    <3> QED BY <1>10, <3>1, <1>a, LeaseUpdates DEF AdvanceConfirmedGeneration
  <2>2. lead' \in [Workers -> [gen : Nat, armed : BOOLEAN]]
    <3>1. lease.gen + 1 \in Nat
      BY <1>b
    <3>2. [gen |-> lease.gen + 1, armed |-> FALSE] \in [gen : Nat, armed : BOOLEAN]
      BY <3>1
    <3> QED BY <1>10, <3>2 DEF TypeOK, AdvanceConfirmedGeneration
  <2>3. pc' \in [Workers -> WorkerPcs]
    BY <1>10 DEF AdvanceConfirmedGeneration, Goto, TypeOK, WorkerPcs
  <2> QED BY <1>10, <2>1, <2>2, <2>3 DEF TypeOK, AdvanceConfirmedGeneration, Goto, pgVars,
     neoVars, workerVars, recVars, budget
<1>11. ASSUME NEW w \in Workers, ReactivateGeneration(w) PROVE TypeOK'
  <2>1. fence' \in Fence
    <3>1. lead[w].gen \in Int /\ w \in Owners
      BY DEF TypeOK, Owners
    <3>2. \A g \in Int, o \in Owners : [fence EXCEPT !.gen = g, !.owner = o] \in Fence
      BY <1>e DEF Fence
    <3> QED BY <1>11, <3>1, <3>2, <1>e DEF ReactivateGeneration
  <2>2. pc' \in [Workers -> WorkerPcs]
    BY <1>11 DEF ReactivateGeneration, Goto, TypeOK, WorkerPcs
  <2> QED BY <1>11, <2>1, <2>2 DEF TypeOK, ReactivateGeneration, Goto, pgVars, neoVars,
     workerVars, recVars, budget
<1>12. ASSUME NEW w \in Workers, ArmLeadership(w) PROVE TypeOK'
  <2>1. lease' \in Lease
    BY <1>12, <1>a, <1>b, LeaseUpdates DEF ArmLeadership, Goto
  <2>2. pc' \in [Workers -> WorkerPcs]
    BY <1>12 DEF ArmLeadership, Goto, TypeOK, WorkerPcs
  <2> QED BY <1>12, <2>1, <2>2 DEF TypeOK, ArmLeadership, Goto, pgVars, neoVars, workerVars,
     recVars, budget
<1>13. ASSUME NEW w \in Workers, ClaimPending(w) PROVE TypeOK'
  <2>1. outbox' \in [Aggregates -> [Revs -> Row]]
    <3>1. lead[w].gen \in Nat
      BY DEF TypeOK
    <3>2. \A x \in Aggregates, r \in Revs : outbox[x][r].ver + 1 \in Nat
      BY <1>d DEF Row
    <3>3. \A x \in Aggregates, r \in Revs :
            [outbox[x][r] EXCEPT !.owner = w, !.gen = lead[w].gen,
                                 !.ver = @ + 1, !.live = TRUE] \in Row
      BY <3>1, <3>2, <1>d, RowUpdates
    <3>4. CASE ~ArmedLeader(w)
      BY <1>13, <3>4, <1>c DEF ClaimPending
    <3>5. CASE ArmedLeader(w)
      <4>1. PICK S \in Batches(w) :
              outbox' = [x \in Aggregates |-> [r \in Revs |->
                  IF <<x, r>> \in S
                  THEN [outbox[x][r] EXCEPT !.owner = w, !.gen = lead[w].gen,
                                            !.ver = @ + 1, !.live = TRUE]
                  ELSE outbox[x][r]]]
        BY <1>13, <3>5 DEF ClaimPending
      <4> QED BY <4>1, <3>3, <1>d
    <3> QED BY <3>4, <3>5
  <2>2. batch' \in [Workers -> SUBSET Claim]
    <3>1. CASE ~ArmedLeader(w)
      BY <1>13, <3>1 DEF TypeOK, ClaimPending
    <3>2. CASE ArmedLeader(w)
      <4>1. PICK S \in Batches(w) :
              batch' = [batch EXCEPT ![w] = {ClaimOf(s[1], s[2]) : s \in S}]
        BY <1>13, <3>2 DEF ClaimPending
      <4>2. \A x \in Aggregates, r \in Revs : ClaimOf(x, r) \in Claim
        <5> TAKE x \in Aggregates, r \in Revs
        <5>1. outbox[x][r].ev \in Nat /\ outbox[x][r].ver + 1 \in Nat
          BY <1>d DEF Row
        <5>2. pgRev[x] \in Nat
          BY DEF TypeOK
        <5> QED BY <5>1, <5>2 DEF ClaimOf, Claim
      <4>3. \A s \in S : s[1] \in Aggregates /\ s[2] \in Revs
        BY DEF Batches, Candidates
      <4> QED BY <4>1, <4>2, <4>3 DEF TypeOK
    <3> QED BY <3>1, <3>2
  <2>3. pc' \in [Workers -> WorkerPcs]
    BY <1>13 DEF ClaimPending, Goto, TypeOK, WorkerPcs
  <2> QED BY <1>13, <2>1, <2>2, <2>3 DEF TypeOK, ClaimPending, Goto, pgVars, neoVars,
     workerVars, recVars, budget
<1>14. ASSUME NEW w \in Workers, RenewClaim(w) PROVE TypeOK'
  <2>1. batch' \in [Workers -> SUBSET Claim]
    BY <1>14 DEF RenewClaim, Goto, TypeOK
  <2>2. cur' \in [Workers -> Claim \cup {None}]
    BY <1>14 DEF RenewClaim, Goto, TypeOK
  <2>3. pc' \in [Workers -> WorkerPcs]
    BY <1>14 DEF RenewClaim, Goto, TypeOK, WorkerPcs
  <2> QED BY <1>14, <2>1, <2>2, <2>3 DEF TypeOK, RenewClaim, Goto, pgVars, neoVars,
     workerVars, recVars, budget
<1>15. ASSUME NEW w \in Workers, Apply(w) PROVE TypeOK'
  <2>1. graph' \in [Aggregates -> Nat]
    <3>1. CASE UNCHANGED graph
      BY <3>1 DEF TypeOK
    <3>2. CASE graph' = [graph EXCEPT ![cur[w].agg] = cur[w].snap] /\ cur[w] \in Claim
      BY <3>2 DEF TypeOK, Claim
    <3>3. cur[w] \in Claim
      BY <1>15 DEF ClaimsSound, Apply
    <3> QED BY <1>15, <3>1, <3>2, <3>3 DEF Apply, Project
  <2>2. cursor' \in [Aggregates -> Cursor]
    <3>1. cur[w] \in Claim
      BY <1>15 DEF ClaimsSound, Apply
    <3>2. lead[w].gen \in Nat
      BY DEF TypeOK
    <3>3. [rev |-> cur[w].rev, gen |-> lead[w].gen, ver |-> cur[w].ver, ev |-> cur[w].ev]
            \in Cursor
      BY <3>1, <3>2, ConstantsAssumption DEF Claim, Cursor, Revs
    <3>4. cur[w].agg \in Aggregates
      BY <3>1 DEF Claim
    <3> QED BY <1>15, <3>3, <3>4 DEF TypeOK, Apply, Project
  <2>3. outcome' \in [Workers -> {"none", "ok", "fail", "conflict"}]
    BY <1>15 DEF Apply, Goto, Project, TypeOK
  <2>4. pc' \in [Workers -> WorkerPcs]
    BY <1>15 DEF Apply, Goto, Project, TypeOK, WorkerPcs
  <2>5. batch' \in [Workers -> SUBSET Claim]
    BY <1>15 DEF Apply, Goto, Project, TypeOK
  <2> QED BY <1>15, <2>1, <2>2, <2>3, <2>4, <2>5 DEF TypeOK, Apply, Goto, pgVars, neoVars,
     workerVars, recVars, budget
<1>16. ASSUME NEW w \in Workers, MarkDelivered(w) PROVE TypeOK'
  <2>1. outbox' \in [Aggregates -> [Revs -> Row]]
    <3>1. \A x \in Aggregates, r \in Revs, s \in {"delivered", "superseded"} :
            [outbox[x][r] EXCEPT !.st = s, !.live = FALSE, !.owner = None] \in Row
      BY <1>d, RowUpdates
    <3>2. cur[w].agg \in Aggregates
      BY <1>16 DEF ClaimsSound, MarkDelivered, Claim
    <3>3. Delivered(w, cur[w]) \in [Aggregates -> [Revs -> Row]]
      BY <3>1, <3>2, <1>c, <1>d DEF Delivered
    <3> QED BY <1>16, <3>3, <1>c DEF MarkDelivered
  <2>2. pc' \in [Workers -> WorkerPcs]
    BY <1>16 DEF MarkDelivered, Goto, Delivered, Continue, GiveUp, TypeOK, WorkerPcs
  <2>3. batch' \in [Workers -> SUBSET Claim]
    BY <1>16 DEF MarkDelivered, Goto, Delivered, Continue, GiveUp, TypeOK
  <2>4. cur' \in [Workers -> Claim \cup {None}]
    BY <1>16 DEF MarkDelivered, Goto, Delivered, Continue, GiveUp, TypeOK
  <2>5. outcome' \in [Workers -> {"none", "ok", "fail", "conflict"}]
    BY <1>16 DEF MarkDelivered, Goto, Delivered, Continue, GiveUp, TypeOK
  <2> QED BY <1>16, <2>1, <2>2, <2>3, <2>4, <2>5 DEF TypeOK, MarkDelivered, Goto, Continue,
     GiveUp, pgVars, neoVars, workerVars, recVars, budget
<1>17. ASSUME NEW w \in Workers, MarkFailed(w) PROVE TypeOK'
  <2>1. outbox' \in [Aggregates -> [Revs -> Row]]
    <3>1. cur[w].agg \in Aggregates /\ cur[w].rev \in Revs
      BY <1>17 DEF ClaimsSound, MarkFailed, Claim
    <3>2. Failed(outbox[cur[w].agg][cur[w].rev]) \in Row
      <4> DEFINE row == outbox[cur[w].agg][cur[w].rev]
      <4>1. row \in Row
        BY <3>1, <1>d
      <4>2. row.tries + 1 \in Nat
        BY <4>1 DEF Row
      <4> HIDE DEF row
      <4>3. \A st \in {row.st, "exhausted"} :
              [row EXCEPT !.tries = row.tries + 1, !.live = FALSE, !.owner = None,
                          !.ready = FALSE, !.st = st] \in Row
        BY <4>1, <4>2, RowUpdates
      <4>4. (IF row.tries + 1 >= MaxAttempts THEN "exhausted" ELSE row.st)
              \in {row.st, "exhausted"}
        OBVIOUS
      <4> QED BY <4>3, <4>4 DEF row, Failed
    <3> QED BY <1>17, <3>1, <3>2, <1>c DEF MarkFailed
  <2>2. pc' \in [Workers -> WorkerPcs]
    BY <1>17 DEF MarkFailed, Goto, Continue, GiveUp, TypeOK, WorkerPcs
  <2>3. batch' \in [Workers -> SUBSET Claim]
    BY <1>17 DEF MarkFailed, Goto, Continue, GiveUp, TypeOK
  <2>4. cur' \in [Workers -> Claim \cup {None}]
    BY <1>17 DEF MarkFailed, Goto, Continue, GiveUp, TypeOK
  <2>5. outcome' \in [Workers -> {"none", "ok", "fail", "conflict"}]
    BY <1>17 DEF MarkFailed, Goto, Continue, GiveUp, TypeOK
  <2> QED BY <1>17, <2>1, <2>2, <2>3, <2>4, <2>5 DEF TypeOK, MarkFailed, Goto, Continue,
     GiveUp, pgVars, neoVars, workerVars, recVars, budget
<1>18. ASSUME NEW w \in Workers, ReleaseLeadership(w) PROVE TypeOK'
  <2>1. lease' \in Lease
    BY <1>18, <1>a, <1>b, LeaseUpdates DEF ReleaseLeadership, Goto, ReleasedLease
  <2>2. lead' \in [Workers -> [gen : Nat, armed : BOOLEAN]]
    BY <1>18 DEF ReleaseLeadership, Goto, ReleasedLease, TypeOK, NoLead, Lease
  <2>3. cur' \in [Workers -> Claim \cup {None}]
    BY <1>18 DEF ReleaseLeadership, Goto, ReleasedLease, TypeOK
  <2>4. pc' \in [Workers -> WorkerPcs]
    BY <1>18 DEF ReleaseLeadership, Goto, ReleasedLease, TypeOK, WorkerPcs
  <2> QED BY <1>18, <2>1, <2>2, <2>3, <2>4 DEF TypeOK, ReleaseLeadership, Goto, pgVars,
     neoVars, workerVars, recVars, budget
<1>19. ASSUME NEW w \in Workers, StopRelease(w) PROVE TypeOK'
  <2>1. lease' \in Lease
    BY <1>19, <1>a, <1>b, LeaseUpdates DEF StopRelease, Goto, ReleasedLease
  <2>2. lead' \in [Workers -> [gen : Nat, armed : BOOLEAN]]
    BY <1>19 DEF StopRelease, Goto, ReleasedLease, TypeOK, NoLead, Lease
  <2>3. pc' \in [Workers -> WorkerPcs]
    BY <1>19 DEF StopRelease, Goto, ReleasedLease, TypeOK, WorkerPcs
  <2> QED BY <1>19, <2>1, <2>2, <2>3 DEF TypeOK, StopRelease, Goto, pgVars, neoVars,
     workerVars, recVars, budget
<1>20. ASSUME NEW w \in Workers, ApplyFails(w) PROVE TypeOK'
  <2>1. graph' \in [Aggregates -> Nat]
    <3>1. CASE UNCHANGED graph
      BY <3>1 DEF TypeOK
    <3>2. CASE graph' = [graph EXCEPT ![cur[w].agg] = cur[w].snap] /\ cur[w] \in Claim
      BY <3>2 DEF TypeOK, Claim
    <3>3. cur[w] \in Claim
      BY <1>20 DEF ClaimsSound, ApplyFails
    <3> QED BY <1>20, <3>1, <3>2, <3>3 DEF ApplyFails, Project
  <2>2. cursor' \in [Aggregates -> Cursor]
    <3>1. cur[w] \in Claim
      BY <1>20 DEF ClaimsSound, ApplyFails
    <3>2. lead[w].gen \in Nat
      BY DEF TypeOK
    <3>3. [rev |-> cur[w].rev, gen |-> lead[w].gen, ver |-> cur[w].ver, ev |-> cur[w].ev]
            \in Cursor
      BY <3>1, <3>2, ConstantsAssumption DEF Claim, Cursor, Revs
    <3>4. cur[w].agg \in Aggregates
      BY <3>1 DEF Claim
    <3> QED BY <1>20, <3>3, <3>4 DEF TypeOK, ApplyFails, Project
  <2>3. outcome' \in [Workers -> {"none", "ok", "fail", "conflict"}]
    BY <1>20 DEF ApplyFails, Goto, Project, TypeOK
  <2>4. pc' \in [Workers -> WorkerPcs]
    BY <1>20 DEF ApplyFails, Goto, Project, TypeOK, WorkerPcs
  <2>5. faults' \in 0..MaxFaults
    BY <1>20, ConstantsAssumption DEF ApplyFails, Goto, Project, TypeOK
  <2> QED BY <1>20, <2>1, <2>2, <2>3, <2>4, <2>5 DEF TypeOK, ApplyFails, Goto, pgVars,
     neoVars, workerVars, recVars, budget
<1>21. ASSUME NEW w \in Workers, Abort(w) PROVE TypeOK'
  <2>1. pc' \in [Workers -> WorkerPcs]
    BY <1>21 DEF Abort, Goto, Drop, Fault, TypeOK, WorkerPcs
  <2>2. batch' \in [Workers -> SUBSET Claim]
    BY <1>21 DEF Abort, Goto, Drop, Fault, TypeOK
  <2>3. cur' \in [Workers -> Claim \cup {None}]
    BY <1>21 DEF Abort, Goto, Drop, Fault, TypeOK
  <2>4. outcome' \in [Workers -> {"none", "ok", "fail", "conflict"}]
    BY <1>21 DEF Abort, Goto, Drop, Fault, TypeOK
  <2>5. faults' \in 0..MaxFaults
    BY <1>21, ConstantsAssumption DEF Abort, Goto, Drop, Fault, TypeOK
  <2> QED BY <1>21, <2>1, <2>2, <2>3, <2>4, <2>5 DEF TypeOK, Abort, Goto, Drop, Fault,
     pgVars, neoVars, workerVars, recVars, budget
<1>22. ASSUME NEW w \in Workers, Crash(w) PROVE TypeOK'
  <2>1. pc' \in [Workers -> WorkerPcs]
    BY <1>22 DEF Crash, Goto, Drop, Fault, TypeOK, WorkerPcs
  <2>2. batch' \in [Workers -> SUBSET Claim]
    BY <1>22 DEF Crash, Goto, Drop, Fault, TypeOK
  <2>3. cur' \in [Workers -> Claim \cup {None}]
    BY <1>22 DEF Crash, Goto, Drop, Fault, TypeOK
  <2>4. outcome' \in [Workers -> {"none", "ok", "fail", "conflict"}]
    BY <1>22 DEF Crash, Goto, Drop, Fault, TypeOK
  <2>5. faults' \in 0..MaxFaults
    BY <1>22, ConstantsAssumption DEF Crash, Goto, Drop, Fault, TypeOK
  <2> QED BY <1>22, <2>1, <2>2, <2>3, <2>4, <2>5 DEF TypeOK, Crash, Goto, Drop, Fault,
     pgVars, neoVars, workerVars, recVars, budget
<1>23. ASSUME NEW w \in Workers, Stop(w) PROVE TypeOK'
  <2>1. pc' \in [Workers -> WorkerPcs]
    BY <1>23 DEF Stop, Goto, Drop, Fault, TypeOK, WorkerPcs
  <2>2. batch' \in [Workers -> SUBSET Claim]
    BY <1>23 DEF Stop, Goto, Drop, Fault, TypeOK
  <2>3. cur' \in [Workers -> Claim \cup {None}]
    BY <1>23 DEF Stop, Goto, Drop, Fault, TypeOK
  <2>4. outcome' \in [Workers -> {"none", "ok", "fail", "conflict"}]
    BY <1>23 DEF Stop, Goto, Drop, Fault, TypeOK
  <2>5. faults' \in 0..MaxFaults
    BY <1>23, ConstantsAssumption DEF Stop, Goto, Drop, Fault, TypeOK
  <2> QED BY <1>23, <2>1, <2>2, <2>3, <2>4, <2>5 DEF TypeOK, Stop, Goto, Drop, Fault,
     pgVars, neoVars, workerVars, recVars, budget
<1>24. ASSUME LeaseExpires PROVE TypeOK'
  <2>1. lease' \in Lease
    BY <1>24, <1>a, <1>b, LeaseUpdates DEF LeaseExpires, Fault
  <2>2. faults' \in 0..MaxFaults
    BY <1>24, ConstantsAssumption DEF LeaseExpires, Fault, TypeOK
  <2> QED BY <1>24, <2>1, <2>2 DEF TypeOK, LeaseExpires, Fault, pgVars, neoVars, workerVars,
     recVars, budget
<1>25. ASSUME NEW p \in Recoverers, PrepareRecovery(p) PROVE TypeOK'
  <2>1. lease' \in Lease
    <3>1. lease.gen + 1 \in Nat /\ RecoveryOf[p] \in RecoveryIds
      BY <1>b, ConstantsAssumption
    <3>2. [lease EXCEPT !.live = TRUE] \in Lease
      BY <1>a, LeaseUpdates
    <3>3. [lease EXCEPT !.owner = RecoveryOf[p], !.gen = @ + 1, !.live = TRUE,
                        !.armed = FALSE, !.rec = RecoveryOf[p], !.phase = "prepared"] \in Lease
      BY <1>a, <3>1, LeaseUpdates
    <3> QED BY <1>25, <3>2, <3>3, <1>a DEF PrepareRecovery, StartedLease
  <2>2. outbox' \in [Aggregates -> [Revs -> Row]]
    BY <1>25, <1>c, RequeuedRows DEF PrepareRecovery
  <2>3. rstate' \in [Recoverers -> [gen : Nat, phase : Phases]]
    <3>1. lease.gen \in Nat /\ lease.gen + 1 \in Nat /\ lease.phase \in Phases
      BY <1>a, <1>b DEF Lease
    <3>2. "prepared" \in Phases
      BY DEF Phases
    <3> QED BY <1>25, <3>1, <3>2 DEF TypeOK, PrepareRecovery
  <2>4. rpc' \in [Recoverers -> RecoverPcs]
    BY <1>25 DEF PrepareRecovery, RGoto, TypeOK, RecoverPcs
  <2> QED BY <1>25, <2>1, <2>2, <2>3, <2>4 DEF TypeOK, PrepareRecovery, RGoto, pgVars,
     neoVars, workerVars, budget
<1>26. ASSUME NEW p \in Recoverers, ResetForRecovery(p) PROVE TypeOK'
  <2>1. graph' \in [Aggregates -> Nat]
    BY <1>26 DEF TypeOK, ResetForRecovery, neoVars
  <2>2. cursor' \in [Aggregates -> Cursor]
    <3>1. NoCursor \in Cursor
      BY DEF NoCursor, Cursor
    <3> QED BY <1>26, <3>1 DEF TypeOK, ResetForRecovery, neoVars
  <2>3. fence' \in Fence
    <3>1. rstate[p].gen \in Int /\ RecoveryOf[p] \in RecoveryIds
      BY ConstantsAssumption DEF TypeOK
    <3>2. [gen |-> rstate[p].gen, owner |-> RecoveryOf[p], rec |-> RecoveryOf[p]] \in Fence
      BY <3>1 DEF Fence, Owners
    <3> QED BY <1>26, <3>2, <1>e DEF ResetForRecovery, neoVars
  <2>4. rpc' \in [Recoverers -> RecoverPcs]
    BY <1>26 DEF ResetForRecovery, RGoto, TypeOK, RecoverPcs
  <2> QED BY <1>26, <2>1, <2>2, <2>3, <2>4 DEF TypeOK, ResetForRecovery, RGoto, pgVars,
     workerVars, recVars, budget
<1>27. ASSUME NEW p \in Recoverers, MarkNeoReady(p) PROVE TypeOK'
  <2>1. lease' \in Lease
    BY <1>27, <1>a, <1>b, LeaseUpdates DEF MarkNeoReady, RGoto
  <2>2. rstate' \in [Recoverers -> [gen : Nat, phase : Phases]]
    <3>1. "neo_ready" \in Phases
      BY DEF Phases
    <3> QED BY <1>27, <3>1 DEF TypeOK, MarkNeoReady
  <2>3. rpc' \in [Recoverers -> RecoverPcs]
    BY <1>27 DEF MarkNeoReady, RGoto, TypeOK, RecoverPcs
  <2> QED BY <1>27, <2>1, <2>2, <2>3 DEF TypeOK, MarkNeoReady, RGoto, pgVars, neoVars,
     workerVars, budget
<1>28. ASSUME NEW p \in Recoverers, FinalizeNeo(p) PROVE TypeOK'
  <2>1. fence' \in Fence
    <3>1. [fence EXCEPT !.rec = None] \in Fence
      BY <1>e DEF Fence
    <3> QED BY <1>28, <3>1, <1>e DEF FinalizeNeo
  <2>2. rpc' \in [Recoverers -> RecoverPcs]
    BY <1>28 DEF FinalizeNeo, RGoto, TypeOK, RecoverPcs
  <2> QED BY <1>28, <2>1, <2>2 DEF TypeOK, FinalizeNeo, RGoto, pgVars, neoVars, workerVars,
     recVars, budget
<1>29. ASSUME NEW p \in Recoverers, FinalizePg(p) PROVE TypeOK'
  <2>1. lease' \in Lease
    BY <1>29, <1>a, <1>b, LeaseUpdates DEF FinalizePg, RGoto
  <2>2. rpc' \in [Recoverers -> RecoverPcs]
    BY <1>29 DEF FinalizePg, RGoto, TypeOK, RecoverPcs
  <2> QED BY <1>29, <2>1, <2>2 DEF TypeOK, FinalizePg, RGoto, pgVars, neoVars, workerVars,
     recVars, budget
<1>30. ASSUME NEW p \in Recoverers, RecoveryCrash(p) PROVE TypeOK'
  <2>1. rpc' \in [Recoverers -> RecoverPcs]
    BY <1>30 DEF RecoveryCrash, RGoto, Fault, TypeOK, RecoverPcs
  <2>2. faults' \in 0..MaxFaults
    BY <1>30, ConstantsAssumption DEF RecoveryCrash, RGoto, Fault, TypeOK
  <2> QED BY <1>30, <2>1, <2>2 DEF TypeOK, RecoveryCrash, RGoto, Fault, pgVars, neoVars,
     workerVars, recVars, budget
<1>31. ASSUME RequeueFullProjection PROVE TypeOK'
  <2>1. outbox' \in [Aggregates -> [Revs -> Row]]
    BY <1>31, RequeuedRows DEF RequeueFullProjection
  <2>2. upkeep' \in 0..MaxUpkeep
    BY <1>31, ConstantsAssumption DEF RequeueFullProjection, TypeOK
  <2> QED BY <1>31, <2>1, <2>2 DEF TypeOK, RequeueFullProjection, neoVars, workerVars,
     recVars
<1>32. CASE UNCHANGED vars
  BY <1>32 DEF TypeOK, vars, pgVars, neoVars, workerVars, recVars, budget
<1> QED
  BY <1>1, <1>2, <1>3, <1>4, <1>5, <1>6, <1>7, <1>8, <1>9, <1>10, <1>11, <1>12, <1>13,
     <1>14, <1>15, <1>16, <1>17, <1>18, <1>19, <1>20, <1>21, <1>22, <1>23, <1>24, <1>25,
     <1>26, <1>27, <1>28, <1>29, <1>30, <1>31, <1>32
  DEF Next, WorkerStep, RecoveryStep
-----------------------------------------------------------------------------
(* What each step does to the fields that the invariant speaks of.  Most   *)
(* steps leave the lease row, the fence, the leaderships and the recovery  *)
(* states alone; the others are described one by one.                      *)

Data == <<outbox, pgRev, cursor, graph, batch, cur, outcome>>
Others(w) == \A v \in Workers : v # w => lead'[v] = lead[v] /\ pc'[v] = pc[v]
Quiet == /\ UNCHANGED <<lease, fence, lead, rstate>>
         /\ \A v \in Workers : /\ Working(v)' => Working(v)
                               /\ Fenced(v)' => Fenced(v)

\* acquire_leadership: the generation is kept or, when armed, superseded.
LEMMA AcquireEffect ==
  ASSUME TypeOK, NEW w \in Workers, AcquireLeadership(w)
  PROVE  /\ lease.rec = None /\ lease'.rec = None /\ lease'.owner = w
         /\ lead'[w].gen = lease'.gen /\ pc'[w] = "activate"
         /\ Others(w) /\ UNCHANGED <<fence, rstate, Data>>
         /\ \/ lease' = lease /\ lease.owner = w
            \/ lease.armed /\ lease'.gen = lease.gen + 1
            \/ ~lease.armed /\ ~lease'.armed /\ lease'.gen = lease.gen
<1>a. lease \in Lease
  BY DEF TypeOK
<1>1. lead'[w].gen = lease'.gen
  BY DEF AcquireLeadership, TypeOK
<1>2. Others(w) /\ UNCHANGED <<fence, rstate, Data>>
  BY DEF AcquireLeadership, TypeOK, Goto, Others, Data, neoVars, recVars
<1>3. pc'[w] = "activate"
  BY DEF AcquireLeadership, TypeOK, Goto
<1>4. CASE lease.owner = w /\ lease.live
  BY <1>1, <1>2, <1>3, <1>4 DEF AcquireLeadership, AcquiredLease, MayAcquire
<1>5. CASE ~(lease.owner = w /\ lease.live)
  <2>1. lease' = [lease EXCEPT !.owner = w, !.live = TRUE, !.armed = FALSE,
                               !.gen = IF lease.armed THEN @ + 1 ELSE @]
    BY <1>5 DEF AcquireLeadership, AcquiredLease
  <2>2. /\ lease'.rec = lease.rec /\ lease'.owner = w /\ lease'.armed = FALSE
        /\ lease'.gen = IF lease.armed THEN lease.gen + 1 ELSE lease.gen
    BY <2>1, <1>a DEF Lease
  <2>3. lease.armed \in BOOLEAN
    BY <1>a DEF Lease
  <2> QED BY <1>1, <1>2, <1>3, <2>2, <2>3 DEF AcquireLeadership, MayAcquire
<1> QED BY <1>4, <1>5

\* acquire_leadership returning None only forgets the leadership.
LEMMA RefusedEffect ==
  ASSUME TypeOK, NEW w \in Workers, AcquireRefused(w)
  PROVE  /\ UNCHANGED <<lease, fence, rstate, pc, Data>> /\ Others(w)
         /\ lead'[w].gen = 0 /\ pc[w] = "idle"
  BY DEF AcquireRefused, TypeOK, NoLead, Others, Data, pgVars, neoVars, recVars

\* advance_confirmed_generation: refused, or one generation further.
LEMMA AdvanceEffect ==
  ASSUME TypeOK, NEW w \in Workers, AdvanceConfirmedGeneration(w)
  PROVE  /\ pc'[w] \in {"reactivate", "release"} /\ pc[w] = "advance"
         /\ Others(w) /\ UNCHANGED <<fence, rstate, Data>>
         /\ \/ lease' = lease /\ lead' = lead
            \/ /\ lease.rec = None /\ lease'.rec = None /\ lease.owner = w
               /\ lease'.owner = lease.owner /\ ~lease.armed /\ ~lease'.armed
               /\ lease'.gen = lease.gen + 1 /\ lead'[w].gen = lease.gen + 1
<1>a. lease \in Lease
  BY DEF TypeOK
<1>1. /\ pc'[w] \in {"reactivate", "release"} /\ pc[w] = "advance"
      /\ Others(w) /\ UNCHANGED <<fence, rstate, Data>>
  BY DEF AdvanceConfirmedGeneration, Goto, TypeOK, Others, Data, neoVars, recVars
<1>2. CASE ~MayAdvance(w)
  BY <1>1, <1>2 DEF AdvanceConfirmedGeneration
<1>3. CASE MayAdvance(w)
  <2>1. lease' = [lease EXCEPT !.gen = @ + 1]
    BY <1>3 DEF AdvanceConfirmedGeneration
  <2>2. /\ lease'.rec = lease.rec /\ lease'.owner = lease.owner
        /\ lease'.armed = lease.armed /\ lease'.gen = lease.gen + 1
    BY <2>1, <1>a DEF Lease
  <2>3. lead'[w].gen = lease.gen + 1
    BY <1>3 DEF AdvanceConfirmedGeneration, TypeOK
  <2> QED BY <1>1, <1>3, <2>2, <2>3 DEF MayAdvance, Leader
<1> QED BY <1>2, <1>3

\* release_leadership keeps the generation and its arm state.
LEMMA ReleaseEffect ==
  ASSUME TypeOK, NEW w \in Workers, ReleaseLeadership(w) \/ StopRelease(w)
  PROVE  /\ lease'.gen = lease.gen /\ lease'.rec = lease.rec
         /\ lease'.armed = lease.armed /\ lease'.owner \in {lease.owner, None}
         /\ Others(w) /\ lead'[w].gen = 0 /\ pc'[w] \in {"idle", "dead"}
         /\ UNCHANGED <<fence, rstate, outbox, pgRev, cursor, graph, batch, outcome>>
<1>a. lease \in Lease
  BY DEF TypeOK
<1>1. \/ lease' = lease
      \/ lease' = [lease EXCEPT !.owner = None, !.live = FALSE]
  BY DEF ReleaseLeadership, StopRelease, ReleasedLease
<1>2. /\ lease'.gen = lease.gen /\ lease'.rec = lease.rec
      /\ lease'.armed = lease.armed /\ lease'.owner \in {lease.owner, None}
  BY <1>1, <1>a DEF Lease
<1>3. /\ Others(w) /\ lead'[w].gen = 0 /\ pc'[w] \in {"idle", "dead"}
      /\ UNCHANGED <<fence, rstate, outbox, pgRev, cursor, graph, batch, outcome>>
  BY DEF ReleaseLeadership, StopRelease, Goto, NoLead, TypeOK, Others, neoVars, recVars
<1> QED BY <1>2, <1>3

\* leased_until passing changes neither owner nor generation.
LEMMA ExpireEffect ==
  ASSUME TypeOK, LeaseExpires
  PROVE  /\ lease'.gen = lease.gen /\ lease'.rec = lease.rec
         /\ lease'.armed = lease.armed /\ lease'.owner = lease.owner
         /\ UNCHANGED <<fence, lead, pc, rstate, Data>>
<1>a. lease \in Lease
  BY DEF TypeOK
<1>1. lease' = [lease EXCEPT !.live = FALSE]
  BY DEF LeaseExpires
<1>2. /\ lease'.gen = lease.gen /\ lease'.rec = lease.rec
      /\ lease'.armed = lease.armed /\ lease'.owner = lease.owner
  BY <1>1, <1>a DEF Lease
<1> QED BY <1>2 DEF LeaseExpires, Data, neoVars, workerVars, recVars

\* arm_leadership arms the generation of the live owner, or nothing.
LEMMA ArmEffect ==
  ASSUME TypeOK, NEW w \in Workers, ArmLeadership(w)
  PROVE  /\ lease'.gen = lease.gen /\ lease'.rec = lease.rec /\ lease'.owner = lease.owner
         /\ lease'.armed = lease.armed \/ (lease.rec = None /\ lease.owner = w)
         /\ Others(w) /\ pc[w] = "arm" /\ pc'[w] \in {"claim", "release"}
         /\ UNCHANGED <<fence, lead, rstate, Data>>
<1>a. lease \in Lease
  BY DEF TypeOK
<1>1. \/ lease' = lease
      \/ lease' = [lease EXCEPT !.armed = TRUE] /\ Leader(w)
  BY DEF ArmLeadership
<1>2. /\ lease'.gen = lease.gen /\ lease'.rec = lease.rec /\ lease'.owner = lease.owner
      /\ lease'.armed = lease.armed \/ (lease.rec = None /\ lease.owner = w)
  BY <1>1, <1>a DEF Lease, Leader
<1>3. /\ Others(w) /\ pc[w] = "arm" /\ pc'[w] \in {"claim", "release"}
      /\ UNCHANGED <<fence, lead, rstate, Data>>
  BY DEF ArmLeadership, Goto, TypeOK, Others, Data, neoVars, recVars
<1> QED BY <1>2, <1>3

\* activate_generation: the fence moves by at most one, to w's generation.
LEMMA ActivateEffect ==
  ASSUME TypeOK, NEW w \in Workers, ActivateGeneration(w) \/ ReactivateGeneration(w)
  PROVE  /\ pc[w] \in {"activate", "reactivate"} /\ Others(w)
         /\ UNCHANGED <<lease, lead, rstate, Data>>
         /\ \/ fence' = fence /\ pc'[w] \in {"evidence", "release"}
            \/ /\ fence'.gen = lead[w].gen /\ fence'.owner = w
               /\ fence.rec = None /\ fence'.rec = None
               /\ \/ fence.gen = lead[w].gen - 1
                  \/ fence.gen = lead[w].gen /\ fence.owner \in {None, w}
<1>a. fence \in Fence
  BY DEF TypeOK
<1>1. /\ pc[w] \in {"activate", "reactivate"} /\ Others(w)
      /\ UNCHANGED <<lease, lead, rstate, Data>>
  BY DEF ActivateGeneration, ReactivateGeneration, Goto, TypeOK, Others, Data, pgVars,
     recVars
<1>2. \/ fence' = fence /\ pc'[w] \in {"evidence", "release"}
      \/ /\ fence' = [fence EXCEPT !.gen = lead[w].gen, !.owner = w]
         /\ FenceAccepts(w, FALSE) \/ FenceAccepts(w, TRUE)
  BY DEF ActivateGeneration, ReactivateGeneration, Goto, TypeOK
<1> QED BY <1>1, <1>2, <1>a DEF Fence, FenceAccepts

\* prepare_projection_recovery: completed, resumed, or a generation of its own.
LEMMA PrepareEffect ==
  ASSUME TypeOK, NEW p \in Recoverers, PrepareRecovery(p)
  PROVE  /\ \A s \in Recoverers : s # p => rstate'[s] = rstate[s]
         /\ UNCHANGED <<fence, lead, pc, pgRev, cursor, graph, batch, cur, outcome>>
         /\ \/ UNCHANGED <<lease, outbox, rstate>>
            \/ /\ lease.rec # None /\ lease'.rec = lease.rec
               /\ lease'.owner = lease.owner /\ lease'.gen = lease.gen
               /\ lease'.armed = lease.armed
               /\ rstate'[p].gen = lease.gen /\ UNCHANGED outbox
            \/ /\ lease.rec = None /\ lease'.rec # None
               /\ lease'.gen = lease.gen + 1 /\ rstate'[p].gen = lease.gen + 1
               /\ outbox' = Requeued
<1>a. lease \in Lease
  BY DEF TypeOK
<1>b. RecoveryOf[p] # None
  BY ConstantsAssumption
<1>1. /\ \A s \in Recoverers : s # p => rstate'[s] = rstate[s]
      /\ UNCHANGED <<fence, lead, pc, pgRev, cursor, graph, batch, cur, outcome>>
  BY DEF PrepareRecovery, TypeOK, neoVars, workerVars
<1>2. CASE /\ lease.rec = RecoveryOf[p] /\ UNCHANGED outbox
           /\ lease' = [lease EXCEPT !.live = TRUE]
           /\ rstate' = [rstate EXCEPT ![p] = [gen |-> lease.gen, phase |-> lease.phase]]
  <2>1. /\ lease'.rec = lease.rec /\ lease'.owner = lease.owner
        /\ lease'.gen = lease.gen /\ lease'.armed = lease.armed
    BY <1>2, <1>a DEF Lease
  <2>2. rstate'[p].gen = lease.gen
    BY <1>2 DEF TypeOK
  <2> QED BY <1>1, <1>2, <1>b, <2>1, <2>2
<1>3. CASE UNCHANGED <<lease, outbox, rstate>>
  BY <1>1, <1>3
<1>4. CASE /\ lease.rec = None /\ outbox' = Requeued
           /\ lease' = StartedLease(RecoveryOf[p])
           /\ rstate' = [rstate EXCEPT ![p] = [gen |-> lease.gen + 1, phase |-> "prepared"]]
  <2>1. lease'.rec = RecoveryOf[p] /\ lease'.gen = lease.gen + 1
    BY <1>4, <1>a DEF Lease, StartedLease
  <2>2. rstate'[p].gen = lease.gen + 1
    BY <1>4 DEF TypeOK
  <2> QED BY <1>1, <1>4, <1>b, <2>1, <2>2
<1> QED BY <1>2, <1>3, <1>4 DEF PrepareRecovery

\* mark_recovery_neo_ready changes the phase of a running recovery.
LEMMA NeoReadyEffect ==
  ASSUME TypeOK, NEW p \in Recoverers, MarkNeoReady(p)
  PROVE  /\ lease'.gen = lease.gen /\ lease'.rec = lease.rec
         /\ lease' = lease \/ lease.rec # None
         /\ \A s \in Recoverers : rstate'[s].gen = rstate[s].gen
         /\ UNCHANGED <<fence, lead, pc, Data>>
<1>a. lease \in Lease
  BY DEF TypeOK
<1>1. \/ lease' = lease
      \/ lease' = [lease EXCEPT !.phase = "neo_ready", !.armed = TRUE] /\ HoldsRecovery(p)
  BY DEF MarkNeoReady
<1>2. /\ \A s \in Recoverers : rstate'[s].gen = rstate[s].gen
      /\ UNCHANGED <<fence, lead, pc, Data>>
  BY DEF MarkNeoReady, TypeOK, Data, neoVars, workerVars
<1>3. HoldsRecovery(p) => lease.rec # None
  BY ConstantsAssumption DEF HoldsRecovery
<1> QED BY <1>1, <1>2, <1>3, <1>a DEF Lease

\* finalize_projection_recovery leaves an armed generation without an owner.
LEMMA FinalizePgEffect ==
  ASSUME TypeOK, NEW p \in Recoverers, FinalizePg(p)
  PROVE  /\ UNCHANGED <<fence, lead, pc, rstate, Data>>
         /\ \/ lease' = lease
            \/ /\ lease.rec # None /\ lease'.rec = None /\ lease'.owner = None
               /\ lease'.armed /\ lease'.gen = lease.gen
<1>a. lease \in Lease
  BY DEF TypeOK
<1>1. \/ lease' = lease
      \/ /\ lease' = [lease EXCEPT !.lastDone = lease.rec, !.rec = None,
                                   !.phase = "idle", !.owner = None, !.live = FALSE]
         /\ HoldsRecovery(p) /\ lease.armed
  BY DEF FinalizePg
<1>2. UNCHANGED <<fence, lead, pc, rstate, Data>>
  BY DEF FinalizePg, Data, neoVars, workerVars
<1>3. HoldsRecovery(p) => lease.rec # None
  BY ConstantsAssumption DEF HoldsRecovery
<1> QED BY <1>1, <1>2, <1>3, <1>a DEF Lease

\* reset_for_recovery never lowers the fence.
LEMMA ResetEffect ==
  ASSUME TypeOK, NEW p \in Recoverers, ResetForRecovery(p)
  PROVE  /\ UNCHANGED <<lease, lead, rstate, pc, outbox, pgRev, batch, cur, outcome>>
         /\ \/ UNCHANGED <<fence, cursor, graph>>
            \/ /\ fence.gen <= rstate[p].gen
               /\ fence'.gen = rstate[p].gen /\ fence'.owner = RecoveryOf[p]
               /\ fence'.rec = RecoveryOf[p]
               /\ fence.gen = rstate[p].gen =>
                     fence.rec = RecoveryOf[p] \/ fence.owner = RecoveryOf[p]
               /\ \A a \in Aggregates : graph'[a] = 0 /\ cursor'[a].rev = -1
<1>a. rstate[p].gen \in Nat /\ fence.gen \in Int
  BY DEF TypeOK, Fence
<1>b. UNCHANGED <<lease, lead, rstate, pc, outbox, pgRev, batch, cur, outcome>>
  BY DEF ResetForRecovery, pgVars, workerVars
<1>1. CASE ~ResetAccepted(p)
  BY <1>1, <1>b DEF ResetForRecovery, neoVars
<1>2. CASE ResetAccepted(p)
  <2>1. fence' = [gen |-> rstate[p].gen, owner |-> RecoveryOf[p], rec |-> RecoveryOf[p]]
    BY <1>2 DEF ResetForRecovery
  <2>2. \A a \in Aggregates : graph'[a] = 0 /\ cursor'[a].rev = -1
    BY <1>2 DEF ResetForRecovery, NoCursor
  <2>3. fence = NoFence => fence.gen = -1
    BY DEF NoFence
  <2>4. /\ fence.gen <= rstate[p].gen
        /\ fence.gen = rstate[p].gen =>
              fence.rec = RecoveryOf[p] \/ fence.owner = RecoveryOf[p]
    BY <1>2, <1>a, <2>3 DEF ResetAccepted
  <2> QED BY <2>1, <2>2, <2>4, <1>b
<1> QED BY <1>1, <1>2

\* finalize_recovery removes the marker and moves nothing else.
LEMMA FinalizeNeoEffect ==
  ASSUME TypeOK, NEW p \in Recoverers, FinalizeNeo(p)
  PROVE  /\ fence'.gen = fence.gen /\ fence'.owner = fence.owner
         /\ fence'.rec \in {fence.rec, None}
         /\ UNCHANGED <<lease, lead, rstate, pc, Data>>
<1>a. fence \in Fence
  BY DEF TypeOK
<1>1. UNCHANGED <<lease, lead, rstate, pc, Data>>
  BY DEF FinalizeNeo, Data, pgVars, workerVars
<1> QED BY <1>a, <1>1 DEF FinalizeNeo, Fence

\* The steps of the control plane, and the quiet rest.
LEMMA ControlSteps ==
  ASSUME TypeOK, [Next]_vars
  PROVE  \/ Quiet
         \/ \E w \in Workers :
               \/ AcquireLeadership(w) \/ AcquireRefused(w)
               \/ ActivateGeneration(w) \/ ReactivateGeneration(w)
               \/ AdvanceConfirmedGeneration(w) \/ ArmLeadership(w)
               \/ ReleaseLeadership(w) \/ StopRelease(w)
         \/ LeaseExpires
         \/ \E p \in Recoverers : RecoveryStep(p)
<1>1. ASSUME NEW a \in Aggregates, Stage(a) PROVE Quiet
  BY <1>1 DEF Quiet, Working, Fenced, TypeOK, Stage, pgVars, neoVars, workerVars, recVars
<1>2. ASSUME NEW a \in Aggregates, Restage(a) PROVE Quiet
  BY <1>2 DEF Quiet, Working, Fenced, TypeOK, Restage, pgVars, neoVars, workerVars, recVars
<1>3. ASSUME NEW a \in Aggregates, NEW r \in Revs, Purge(a, r) PROVE Quiet
  BY <1>3 DEF Quiet, Working, Fenced, TypeOK, Purge, pgVars, neoVars, workerVars, recVars
<1>4. ASSUME NEW a \in Aggregates, NEW r \in Revs, ClaimExpires(a, r) PROVE Quiet
  BY <1>4 DEF Quiet, Working, Fenced, TypeOK, ClaimExpires, pgVars, neoVars, workerVars,
     recVars
<1>5. ASSUME NEW a \in Aggregates, NEW r \in Revs, BackoffElapses(a, r) PROVE Quiet
  BY <1>5 DEF Quiet, Working, Fenced, TypeOK, BackoffElapses, pgVars, neoVars, workerVars,
     recVars
<1>6. ASSUME NEW w \in Workers, HasCursorEvidence(w) PROVE Quiet
  BY <1>6 DEF Quiet, Working, Fenced, TypeOK, HasCursorEvidence, Goto, pgVars, neoVars,
     workerVars, recVars
<1>7. ASSUME NEW w \in Workers, ClaimPending(w) PROVE Quiet
  BY <1>7 DEF Quiet, Working, Fenced, TypeOK, ClaimPending, Goto, pgVars, neoVars,
     workerVars, recVars
<1>8. ASSUME NEW w \in Workers, RenewClaim(w) PROVE Quiet
  BY <1>8 DEF Quiet, Working, Fenced, TypeOK, RenewClaim, Goto, pgVars, neoVars, workerVars,
     recVars
<1>9. ASSUME NEW w \in Workers, Apply(w) PROVE Quiet
  BY <1>9 DEF Quiet, Working, Fenced, TypeOK, Apply, Goto, pgVars, neoVars, workerVars,
     recVars
<1>10. ASSUME NEW w \in Workers, MarkDelivered(w) PROVE Quiet
  BY <1>10 DEF Quiet, Working, Fenced, TypeOK, MarkDelivered, Goto, Continue, GiveUp,
     pgVars, neoVars, workerVars, recVars
<1>11. ASSUME NEW w \in Workers, MarkFailed(w) PROVE Quiet
  BY <1>11 DEF Quiet, Working, Fenced, TypeOK, MarkFailed, Goto, Continue, GiveUp, pgVars,
     neoVars, workerVars, recVars
<1>12. ASSUME NEW w \in Workers, ApplyFails(w) PROVE Quiet
  BY <1>12 DEF Quiet, Working, Fenced, TypeOK, ApplyFails, Goto, pgVars, neoVars,
     workerVars, recVars
<1>13. ASSUME NEW w \in Workers, Abort(w) PROVE Quiet
  BY <1>13 DEF Quiet, Working, Fenced, TypeOK, Abort, Goto, Drop, pgVars, neoVars,
     workerVars, recVars
<1>14. ASSUME NEW w \in Workers, Crash(w) PROVE Quiet
  BY <1>14 DEF Quiet, Working, Fenced, TypeOK, Crash, Goto, Drop, pgVars, neoVars,
     workerVars, recVars
<1>15. ASSUME NEW w \in Workers, Stop(w) PROVE Quiet
  BY <1>15 DEF Quiet, Working, Fenced, TypeOK, Stop, Goto, Drop, pgVars, neoVars,
     workerVars, recVars
<1>16. ASSUME NEW p \in Recoverers, RecoveryCrash(p) PROVE Quiet
  BY <1>16 DEF Quiet, Working, Fenced, TypeOK, RecoveryCrash, RGoto, pgVars, neoVars,
     workerVars, recVars
<1>17. ASSUME RequeueFullProjection PROVE Quiet
  BY <1>17 DEF Quiet, Working, Fenced, RequeueFullProjection, neoVars, workerVars, recVars
<1>18. CASE UNCHANGED vars
  BY <1>18 DEF Quiet, Working, Fenced, vars, pgVars, neoVars, workerVars, recVars
<1> QED
  BY <1>1, <1>2, <1>3, <1>4, <1>5, <1>6, <1>7, <1>8, <1>9, <1>10, <1>11, <1>12, <1>13,
     <1>14, <1>15, <1>16, <1>17, <1>18 DEF Next, WorkerStep

-----------------------------------------------------------------------------
(* The control part of the invariant: generations, fence and owners.       *)

\* No fence, leadership or recovery runs ahead of the lease row.
LEMMA GenerationNext == ASSUME IInv, [Next]_vars PROVE GenerationsBounded'
<1>a. TypeOK /\ GenerationsBounded
  BY DEF IInv
<1>t. /\ lease.gen \in Nat /\ fence.gen \in Int
      /\ \A v \in Workers : lead[v].gen \in Nat
      /\ \A s \in Recoverers : rstate[s].gen \in Nat
  BY <1>a DEF TypeOK, Lease, Fence
<1>1. CASE Quiet
  BY <1>a, <1>t, <1>1 DEF GenerationsBounded, Quiet
<1>2. ASSUME NEW w \in Workers, AcquireLeadership(w) PROVE GenerationsBounded'
  BY <1>a, <1>t, <1>2, AcquireEffect DEF GenerationsBounded, Others
<1>3. ASSUME NEW w \in Workers, AcquireRefused(w) PROVE GenerationsBounded'
  BY <1>a, <1>t, <1>3, RefusedEffect DEF GenerationsBounded, Others
<1>4. ASSUME NEW w \in Workers, ActivateGeneration(w) PROVE GenerationsBounded'
  BY <1>a, <1>t, <1>4, ActivateEffect DEF GenerationsBounded, Others
<1>5. ASSUME NEW w \in Workers, ReactivateGeneration(w) PROVE GenerationsBounded'
  BY <1>a, <1>t, <1>5, ActivateEffect DEF GenerationsBounded, Others
<1>6. ASSUME NEW w \in Workers, AdvanceConfirmedGeneration(w) PROVE GenerationsBounded'
  BY <1>a, <1>t, <1>6, AdvanceEffect DEF GenerationsBounded, Others
<1>7. ASSUME NEW w \in Workers, ArmLeadership(w) PROVE GenerationsBounded'
  BY <1>a, <1>t, <1>7, ArmEffect DEF GenerationsBounded, Others
<1>8. ASSUME NEW w \in Workers, ReleaseLeadership(w) PROVE GenerationsBounded'
  BY <1>a, <1>t, <1>8, ReleaseEffect DEF GenerationsBounded, Others
<1>9. ASSUME NEW w \in Workers, StopRelease(w) PROVE GenerationsBounded'
  BY <1>a, <1>t, <1>9, ReleaseEffect DEF GenerationsBounded, Others
<1>10. ASSUME LeaseExpires PROVE GenerationsBounded'
  BY <1>a, <1>t, <1>10, ExpireEffect DEF GenerationsBounded, Others
<1>11. ASSUME NEW p \in Recoverers, PrepareRecovery(p) PROVE GenerationsBounded'
  BY <1>a, <1>t, <1>11, PrepareEffect DEF GenerationsBounded, Others
<1>12. ASSUME NEW p \in Recoverers, ResetForRecovery(p) PROVE GenerationsBounded'
  BY <1>a, <1>t, <1>12, ResetEffect DEF GenerationsBounded, Others
<1>13. ASSUME NEW p \in Recoverers, MarkNeoReady(p) PROVE GenerationsBounded'
  BY <1>a, <1>t, <1>13, NeoReadyEffect DEF GenerationsBounded, Others
<1>14. ASSUME NEW p \in Recoverers, FinalizeNeo(p) PROVE GenerationsBounded'
  BY <1>a, <1>t, <1>14, FinalizeNeoEffect DEF GenerationsBounded, Others
<1>15. ASSUME NEW p \in Recoverers, FinalizePg(p) PROVE GenerationsBounded'
  BY <1>a, <1>t, <1>15, FinalizePgEffect DEF GenerationsBounded, Others
<1> QED
  BY <1>a, ControlSteps, <1>1, <1>2, <1>3, <1>4, <1>5, <1>6, <1>7, <1>8, <1>9, <1>10, <1>11,
     <1>12, <1>13, <1>14, <1>15 DEF RecoveryStep

\* The fence always has an owner, and a recovery marker names it.
LEMMA FenceOwnedNext == ASSUME IInv, [Next]_vars PROVE FenceOwned'
<1>a. TypeOK /\ FenceOwned
  BY DEF IInv
<1>t. /\ lease.gen \in Nat /\ fence.gen \in Int
      /\ \A v \in Workers : lead[v].gen \in Nat
      /\ \A s \in Recoverers : rstate[s].gen \in Nat
  BY <1>a DEF TypeOK, Lease, Fence
<1>1. CASE Quiet
  BY <1>a, <1>t, <1>1, ConstantsAssumption DEF FenceOwned, Quiet
<1>2. ASSUME NEW w \in Workers, AcquireLeadership(w) PROVE FenceOwned'
  BY <1>a, <1>t, <1>2, AcquireEffect, ConstantsAssumption DEF FenceOwned
<1>3. ASSUME NEW w \in Workers, AcquireRefused(w) PROVE FenceOwned'
  BY <1>a, <1>t, <1>3, RefusedEffect, ConstantsAssumption DEF FenceOwned
<1>4. ASSUME NEW w \in Workers, ActivateGeneration(w) PROVE FenceOwned'
  BY <1>a, <1>t, <1>4, ActivateEffect, ConstantsAssumption DEF FenceOwned
<1>5. ASSUME NEW w \in Workers, ReactivateGeneration(w) PROVE FenceOwned'
  BY <1>a, <1>t, <1>5, ActivateEffect, ConstantsAssumption DEF FenceOwned
<1>6. ASSUME NEW w \in Workers, AdvanceConfirmedGeneration(w) PROVE FenceOwned'
  BY <1>a, <1>t, <1>6, AdvanceEffect, ConstantsAssumption DEF FenceOwned
<1>7. ASSUME NEW w \in Workers, ArmLeadership(w) PROVE FenceOwned'
  BY <1>a, <1>t, <1>7, ArmEffect, ConstantsAssumption DEF FenceOwned
<1>8. ASSUME NEW w \in Workers, ReleaseLeadership(w) PROVE FenceOwned'
  BY <1>a, <1>t, <1>8, ReleaseEffect, ConstantsAssumption DEF FenceOwned
<1>9. ASSUME NEW w \in Workers, StopRelease(w) PROVE FenceOwned'
  BY <1>a, <1>t, <1>9, ReleaseEffect, ConstantsAssumption DEF FenceOwned
<1>10. ASSUME LeaseExpires PROVE FenceOwned'
  BY <1>a, <1>t, <1>10, ExpireEffect, ConstantsAssumption DEF FenceOwned
<1>11. ASSUME NEW p \in Recoverers, PrepareRecovery(p) PROVE FenceOwned'
  BY <1>a, <1>t, <1>11, PrepareEffect, ConstantsAssumption DEF FenceOwned
<1>12. ASSUME NEW p \in Recoverers, ResetForRecovery(p) PROVE FenceOwned'
  BY <1>a, <1>t, <1>12, ResetEffect, ConstantsAssumption DEF FenceOwned
<1>13. ASSUME NEW p \in Recoverers, MarkNeoReady(p) PROVE FenceOwned'
  BY <1>a, <1>t, <1>13, NeoReadyEffect, ConstantsAssumption DEF FenceOwned
<1>14. ASSUME NEW p \in Recoverers, FinalizeNeo(p) PROVE FenceOwned'
  BY <1>a, <1>t, <1>14, FinalizeNeoEffect, ConstantsAssumption DEF FenceOwned
<1>15. ASSUME NEW p \in Recoverers, FinalizePg(p) PROVE FenceOwned'
  BY <1>a, <1>t, <1>15, FinalizePgEffect, ConstantsAssumption DEF FenceOwned
<1> QED
  BY <1>a, ControlSteps, <1>1, <1>2, <1>3, <1>4, <1>5, <1>6, <1>7, <1>8, <1>9, <1>10, <1>11,
     <1>12, <1>13, <1>14, <1>15 DEF RecoveryStep

\* A recovery's generation is never a projector's.
LEMMA RecoveryApartNext == ASSUME IInv, [Next]_vars PROVE RecoveryApart'
<1>a. TypeOK /\ GenerationsBounded /\ RecoveryApart
  BY DEF IInv
<1>t. /\ lease.gen \in Nat /\ fence.gen \in Int
      /\ \A v \in Workers : lead[v].gen \in Nat
      /\ \A s \in Recoverers : rstate[s].gen \in Nat
  BY <1>a DEF TypeOK, Lease, Fence
<1>1. CASE Quiet
  BY <1>a, <1>t, <1>1, ConstantsAssumption DEF GenerationsBounded, RecoveryApart, Quiet
<1>2. ASSUME NEW w \in Workers, AcquireLeadership(w) PROVE RecoveryApart'
  BY <1>a, <1>t, <1>2, AcquireEffect, ConstantsAssumption DEF GenerationsBounded,
     RecoveryApart, Others, Working
<1>3. ASSUME NEW w \in Workers, AcquireRefused(w) PROVE RecoveryApart'
  BY <1>a, <1>t, <1>3, RefusedEffect, ConstantsAssumption DEF GenerationsBounded,
     RecoveryApart, Others, Working
<1>4. ASSUME NEW w \in Workers, ActivateGeneration(w) PROVE RecoveryApart'
  BY <1>a, <1>t, <1>4, ActivateEffect, ConstantsAssumption DEF GenerationsBounded,
     RecoveryApart, Others, Working
<1>5. ASSUME NEW w \in Workers, ReactivateGeneration(w) PROVE RecoveryApart'
  BY <1>a, <1>t, <1>5, ActivateEffect, ConstantsAssumption DEF GenerationsBounded,
     RecoveryApart, Others, Working
<1>6. ASSUME NEW w \in Workers, AdvanceConfirmedGeneration(w) PROVE RecoveryApart'
  BY <1>a, <1>t, <1>6, AdvanceEffect, ConstantsAssumption DEF GenerationsBounded,
     RecoveryApart, Others, Working
<1>7. ASSUME NEW w \in Workers, ArmLeadership(w) PROVE RecoveryApart'
  BY <1>a, <1>t, <1>7, ArmEffect, ConstantsAssumption DEF GenerationsBounded, RecoveryApart,
     Others, Working
<1>8. ASSUME NEW w \in Workers, ReleaseLeadership(w) PROVE RecoveryApart'
  BY <1>a, <1>t, <1>8, ReleaseEffect, ConstantsAssumption DEF GenerationsBounded,
     RecoveryApart, Others, Working
<1>9. ASSUME NEW w \in Workers, StopRelease(w) PROVE RecoveryApart'
  BY <1>a, <1>t, <1>9, ReleaseEffect, ConstantsAssumption DEF GenerationsBounded,
     RecoveryApart, Others, Working
<1>10. ASSUME LeaseExpires PROVE RecoveryApart'
  BY <1>a, <1>t, <1>10, ExpireEffect, ConstantsAssumption DEF GenerationsBounded,
     RecoveryApart, Others, Working
<1>11. ASSUME NEW p \in Recoverers, PrepareRecovery(p) PROVE RecoveryApart'
  BY <1>a, <1>t, <1>11, PrepareEffect, ConstantsAssumption DEF GenerationsBounded,
     RecoveryApart, Others, Working
<1>12. ASSUME NEW p \in Recoverers, ResetForRecovery(p) PROVE RecoveryApart'
  BY <1>a, <1>t, <1>12, ResetEffect, ConstantsAssumption DEF GenerationsBounded,
     RecoveryApart, Others, Working
<1>13. ASSUME NEW p \in Recoverers, MarkNeoReady(p) PROVE RecoveryApart'
  BY <1>a, <1>t, <1>13, NeoReadyEffect, ConstantsAssumption DEF GenerationsBounded,
     RecoveryApart, Others, Working
<1>14. ASSUME NEW p \in Recoverers, FinalizeNeo(p) PROVE RecoveryApart'
  BY <1>a, <1>t, <1>14, FinalizeNeoEffect, ConstantsAssumption DEF GenerationsBounded,
     RecoveryApart, Others, Working
<1>15. ASSUME NEW p \in Recoverers, FinalizePg(p) PROVE RecoveryApart'
  BY <1>a, <1>t, <1>15, FinalizePgEffect, ConstantsAssumption DEF GenerationsBounded,
     RecoveryApart, Others, Working
<1> QED
  BY <1>a, ControlSteps, <1>1, <1>2, <1>3, <1>4, <1>5, <1>6, <1>7, <1>8, <1>9, <1>10, <1>11,
     <1>12, <1>13, <1>14, <1>15 DEF RecoveryStep

\* Past the fence, a generation belongs to one worker.
LEMMA FencedNext == ASSUME IInv, [Next]_vars PROVE (FencedOwn /\ OneWorkerPerGeneration)'
<1>a. TypeOK /\ GenerationsBounded /\ RecoveryApart /\ FenceOwned /\ FencedOwn /\ OneWorkerPerGeneration
  BY DEF IInv
<1>t. /\ lease.gen \in Nat /\ fence.gen \in Int
      /\ \A v \in Workers : lead[v].gen \in Nat
      /\ \A s \in Recoverers : rstate[s].gen \in Nat
  BY <1>a DEF TypeOK, Lease, Fence
<1>1. CASE Quiet
  BY <1>a, <1>t, <1>1 DEF GenerationsBounded, RecoveryApart, FenceOwned, FencedOwn,
     OneWorkerPerGeneration, Quiet
<1>2. ASSUME NEW w \in Workers, AcquireLeadership(w) PROVE (FencedOwn /\ OneWorkerPerGeneration)'
  BY <1>a, <1>t, <1>2, AcquireEffect DEF GenerationsBounded, RecoveryApart, FenceOwned,
     FencedOwn, OneWorkerPerGeneration, Others, Working, Fenced
<1>3. ASSUME NEW w \in Workers, AcquireRefused(w) PROVE (FencedOwn /\ OneWorkerPerGeneration)'
  BY <1>a, <1>t, <1>3, RefusedEffect DEF GenerationsBounded, RecoveryApart, FenceOwned,
     FencedOwn, OneWorkerPerGeneration, Others, Working, Fenced
<1>4. ASSUME NEW w \in Workers, ActivateGeneration(w) PROVE (FencedOwn /\ OneWorkerPerGeneration)'
  BY <1>a, <1>t, <1>4, ActivateEffect DEF GenerationsBounded, RecoveryApart, FenceOwned,
     FencedOwn, OneWorkerPerGeneration, Others, Working, Fenced
<1>5. ASSUME NEW w \in Workers, ReactivateGeneration(w) PROVE (FencedOwn /\ OneWorkerPerGeneration)'
  BY <1>a, <1>t, <1>5, ActivateEffect DEF GenerationsBounded, RecoveryApart, FenceOwned,
     FencedOwn, OneWorkerPerGeneration, Others, Working, Fenced
<1>6. ASSUME NEW w \in Workers, AdvanceConfirmedGeneration(w) PROVE (FencedOwn /\ OneWorkerPerGeneration)'
  BY <1>a, <1>t, <1>6, AdvanceEffect DEF GenerationsBounded, RecoveryApart, FenceOwned,
     FencedOwn, OneWorkerPerGeneration, Others, Working, Fenced
<1>7. ASSUME NEW w \in Workers, ArmLeadership(w) PROVE (FencedOwn /\ OneWorkerPerGeneration)'
  BY <1>a, <1>t, <1>7, ArmEffect DEF GenerationsBounded, RecoveryApart, FenceOwned,
     FencedOwn, OneWorkerPerGeneration, Others, Working, Fenced
<1>8. ASSUME NEW w \in Workers, ReleaseLeadership(w) PROVE (FencedOwn /\ OneWorkerPerGeneration)'
  BY <1>a, <1>t, <1>8, ReleaseEffect DEF GenerationsBounded, RecoveryApart, FenceOwned,
     FencedOwn, OneWorkerPerGeneration, Others, Working, Fenced
<1>9. ASSUME NEW w \in Workers, StopRelease(w) PROVE (FencedOwn /\ OneWorkerPerGeneration)'
  BY <1>a, <1>t, <1>9, ReleaseEffect DEF GenerationsBounded, RecoveryApart, FenceOwned,
     FencedOwn, OneWorkerPerGeneration, Others, Working, Fenced
<1>10. ASSUME LeaseExpires PROVE (FencedOwn /\ OneWorkerPerGeneration)'
  BY <1>a, <1>t, <1>10, ExpireEffect DEF GenerationsBounded, RecoveryApart, FenceOwned,
     FencedOwn, OneWorkerPerGeneration, Others, Working, Fenced
<1>11. ASSUME NEW p \in Recoverers, PrepareRecovery(p) PROVE (FencedOwn /\ OneWorkerPerGeneration)'
  BY <1>a, <1>t, <1>11, PrepareEffect DEF GenerationsBounded, RecoveryApart, FenceOwned,
     FencedOwn, OneWorkerPerGeneration, Others, Working, Fenced
<1>12. ASSUME NEW p \in Recoverers, ResetForRecovery(p) PROVE (FencedOwn /\ OneWorkerPerGeneration)'
  BY <1>a, <1>t, <1>12, ResetEffect DEF GenerationsBounded, RecoveryApart, FenceOwned,
     FencedOwn, OneWorkerPerGeneration, Others, Working, Fenced
<1>13. ASSUME NEW p \in Recoverers, MarkNeoReady(p) PROVE (FencedOwn /\ OneWorkerPerGeneration)'
  BY <1>a, <1>t, <1>13, NeoReadyEffect DEF GenerationsBounded, RecoveryApart, FenceOwned,
     FencedOwn, OneWorkerPerGeneration, Others, Working, Fenced
<1>14. ASSUME NEW p \in Recoverers, FinalizeNeo(p) PROVE (FencedOwn /\ OneWorkerPerGeneration)'
  BY <1>a, <1>t, <1>14, FinalizeNeoEffect DEF GenerationsBounded, RecoveryApart, FenceOwned,
     FencedOwn, OneWorkerPerGeneration, Others, Working, Fenced
<1>15. ASSUME NEW p \in Recoverers, FinalizePg(p) PROVE (FencedOwn /\ OneWorkerPerGeneration)'
  BY <1>a, <1>t, <1>15, FinalizePgEffect DEF GenerationsBounded, RecoveryApart, FenceOwned,
     FencedOwn, OneWorkerPerGeneration, Others, Working, Fenced
<1> QED
  BY <1>a, ControlSteps, <1>1, <1>2, <1>3, <1>4, <1>5, <1>6, <1>7, <1>8, <1>9, <1>10, <1>11,
     <1>12, <1>13, <1>14, <1>15 DEF RecoveryStep

FenceStep == /\ fence'.gen >= fence.gen
             /\ fence'.gen = fence.gen => fence'.owner = fence.owner

\* The fence only advances, and keeps its owner within a generation.
LEMMA FenceNext == ASSUME IInv, [Next]_vars PROVE FenceStep
<1>a. TypeOK /\ FenceOwned
  BY DEF IInv
<1>t. /\ lease.gen \in Nat /\ fence.gen \in Int
      /\ \A v \in Workers : lead[v].gen \in Nat
      /\ \A s \in Recoverers : rstate[s].gen \in Nat
  BY <1>a DEF TypeOK, Lease, Fence
<1>1. CASE Quiet
  BY <1>a, <1>t, <1>1, ConstantsAssumption DEF FenceOwned, FenceStep, Quiet
<1>2. ASSUME NEW w \in Workers, AcquireLeadership(w) PROVE FenceStep
  BY <1>a, <1>t, <1>2, AcquireEffect, ConstantsAssumption DEF FenceOwned, FenceStep
<1>3. ASSUME NEW w \in Workers, AcquireRefused(w) PROVE FenceStep
  BY <1>a, <1>t, <1>3, RefusedEffect, ConstantsAssumption DEF FenceOwned, FenceStep
<1>4. ASSUME NEW w \in Workers, ActivateGeneration(w) PROVE FenceStep
  BY <1>a, <1>t, <1>4, ActivateEffect, ConstantsAssumption DEF FenceOwned, FenceStep
<1>5. ASSUME NEW w \in Workers, ReactivateGeneration(w) PROVE FenceStep
  BY <1>a, <1>t, <1>5, ActivateEffect, ConstantsAssumption DEF FenceOwned, FenceStep
<1>6. ASSUME NEW w \in Workers, AdvanceConfirmedGeneration(w) PROVE FenceStep
  BY <1>a, <1>t, <1>6, AdvanceEffect, ConstantsAssumption DEF FenceOwned, FenceStep
<1>7. ASSUME NEW w \in Workers, ArmLeadership(w) PROVE FenceStep
  BY <1>a, <1>t, <1>7, ArmEffect, ConstantsAssumption DEF FenceOwned, FenceStep
<1>8. ASSUME NEW w \in Workers, ReleaseLeadership(w) PROVE FenceStep
  BY <1>a, <1>t, <1>8, ReleaseEffect, ConstantsAssumption DEF FenceOwned, FenceStep
<1>9. ASSUME NEW w \in Workers, StopRelease(w) PROVE FenceStep
  BY <1>a, <1>t, <1>9, ReleaseEffect, ConstantsAssumption DEF FenceOwned, FenceStep
<1>10. ASSUME LeaseExpires PROVE FenceStep
  BY <1>a, <1>t, <1>10, ExpireEffect, ConstantsAssumption DEF FenceOwned, FenceStep
<1>11. ASSUME NEW p \in Recoverers, PrepareRecovery(p) PROVE FenceStep
  BY <1>a, <1>t, <1>11, PrepareEffect, ConstantsAssumption DEF FenceOwned, FenceStep
<1>12. ASSUME NEW p \in Recoverers, ResetForRecovery(p) PROVE FenceStep
  BY <1>a, <1>t, <1>12, ResetEffect, ConstantsAssumption DEF FenceOwned, FenceStep
<1>13. ASSUME NEW p \in Recoverers, MarkNeoReady(p) PROVE FenceStep
  BY <1>a, <1>t, <1>13, NeoReadyEffect, ConstantsAssumption DEF FenceOwned, FenceStep
<1>14. ASSUME NEW p \in Recoverers, FinalizeNeo(p) PROVE FenceStep
  BY <1>a, <1>t, <1>14, FinalizeNeoEffect, ConstantsAssumption DEF FenceOwned, FenceStep
<1>15. ASSUME NEW p \in Recoverers, FinalizePg(p) PROVE FenceStep
  BY <1>a, <1>t, <1>15, FinalizePgEffect, ConstantsAssumption DEF FenceOwned, FenceStep
<1> QED
  BY <1>a, ControlSteps, <1>1, <1>2, <1>3, <1>4, <1>5, <1>6, <1>7, <1>8, <1>9, <1>10, <1>11,
     <1>12, <1>13, <1>14, <1>15 DEF RecoveryStep

\* A reset is under way, or the fence would still accept one.
Exposed == lease.rec # None \/ \E p \in Recoverers : fence.gen <= rstate[p].gen

\* Only the start of a recovery, which requeues everything, exposes the graph to a reset.
LEMMA InterlockNext == ASSUME IInv, [Next]_vars PROVE (Exposed' => Exposed) \/ (outbox' = Requeued /\ UNCHANGED pgRev)
<1>a. TypeOK /\ GenerationsBounded
  BY DEF IInv
<1>t. /\ lease.gen \in Nat /\ fence.gen \in Int
      /\ \A v \in Workers : lead[v].gen \in Nat
      /\ \A s \in Recoverers : rstate[s].gen \in Nat
  BY <1>a DEF TypeOK, Lease, Fence
<1>1. CASE Quiet
  BY <1>a, <1>t, <1>1, FenceNext DEF GenerationsBounded, Exposed, FenceStep, Quiet
<1>2. ASSUME NEW w \in Workers, AcquireLeadership(w) PROVE (Exposed' => Exposed) \/ (outbox' = Requeued /\ UNCHANGED pgRev)
  BY <1>a, <1>t, <1>2, AcquireEffect, FenceNext DEF GenerationsBounded, Exposed, FenceStep
<1>3. ASSUME NEW w \in Workers, AcquireRefused(w) PROVE (Exposed' => Exposed) \/ (outbox' = Requeued /\ UNCHANGED pgRev)
  BY <1>a, <1>t, <1>3, RefusedEffect, FenceNext DEF GenerationsBounded, Exposed, FenceStep
<1>4. ASSUME NEW w \in Workers, ActivateGeneration(w) PROVE (Exposed' => Exposed) \/ (outbox' = Requeued /\ UNCHANGED pgRev)
  BY <1>a, <1>t, <1>4, ActivateEffect, FenceNext DEF GenerationsBounded, Exposed, FenceStep
<1>5. ASSUME NEW w \in Workers, ReactivateGeneration(w) PROVE (Exposed' => Exposed) \/ (outbox' = Requeued /\ UNCHANGED pgRev)
  BY <1>a, <1>t, <1>5, ActivateEffect, FenceNext DEF GenerationsBounded, Exposed, FenceStep
<1>6. ASSUME NEW w \in Workers, AdvanceConfirmedGeneration(w) PROVE (Exposed' => Exposed) \/ (outbox' = Requeued /\ UNCHANGED pgRev)
  BY <1>a, <1>t, <1>6, AdvanceEffect, FenceNext DEF GenerationsBounded, Exposed, FenceStep
<1>7. ASSUME NEW w \in Workers, ArmLeadership(w) PROVE (Exposed' => Exposed) \/ (outbox' = Requeued /\ UNCHANGED pgRev)
  BY <1>a, <1>t, <1>7, ArmEffect, FenceNext DEF GenerationsBounded, Exposed, FenceStep
<1>8. ASSUME NEW w \in Workers, ReleaseLeadership(w) PROVE (Exposed' => Exposed) \/ (outbox' = Requeued /\ UNCHANGED pgRev)
  BY <1>a, <1>t, <1>8, ReleaseEffect, FenceNext DEF GenerationsBounded, Exposed, FenceStep
<1>9. ASSUME NEW w \in Workers, StopRelease(w) PROVE (Exposed' => Exposed) \/ (outbox' = Requeued /\ UNCHANGED pgRev)
  BY <1>a, <1>t, <1>9, ReleaseEffect, FenceNext DEF GenerationsBounded, Exposed, FenceStep
<1>10. ASSUME LeaseExpires PROVE (Exposed' => Exposed) \/ (outbox' = Requeued /\ UNCHANGED pgRev)
  BY <1>a, <1>t, <1>10, ExpireEffect, FenceNext DEF GenerationsBounded, Exposed, FenceStep
<1>11. ASSUME NEW p \in Recoverers, PrepareRecovery(p) PROVE (Exposed' => Exposed) \/ (outbox' = Requeued /\ UNCHANGED pgRev)
  BY <1>a, <1>t, <1>11, PrepareEffect, FenceNext DEF GenerationsBounded, Exposed, FenceStep
<1>12. ASSUME NEW p \in Recoverers, ResetForRecovery(p) PROVE (Exposed' => Exposed) \/ (outbox' = Requeued /\ UNCHANGED pgRev)
  BY <1>a, <1>t, <1>12, ResetEffect, FenceNext DEF GenerationsBounded, Exposed, FenceStep
<1>13. ASSUME NEW p \in Recoverers, MarkNeoReady(p) PROVE (Exposed' => Exposed) \/ (outbox' = Requeued /\ UNCHANGED pgRev)
  BY <1>a, <1>t, <1>13, NeoReadyEffect, FenceNext DEF GenerationsBounded, Exposed, FenceStep
<1>14. ASSUME NEW p \in Recoverers, FinalizeNeo(p) PROVE (Exposed' => Exposed) \/ (outbox' = Requeued /\ UNCHANGED pgRev)
  BY <1>a, <1>t, <1>14, FinalizeNeoEffect, FenceNext DEF GenerationsBounded, Exposed,
     FenceStep
<1>15. ASSUME NEW p \in Recoverers, FinalizePg(p) PROVE (Exposed' => Exposed) \/ (outbox' = Requeued /\ UNCHANGED pgRev)
  BY <1>a, <1>t, <1>15, FinalizePgEffect, FenceNext DEF GenerationsBounded, Exposed,
     FenceStep
<1> QED
  BY <1>a, ControlSteps, <1>1, <1>2, <1>3, <1>4, <1>5, <1>6, <1>7, <1>8, <1>9, <1>10, <1>11,
     <1>12, <1>13, <1>14, <1>15 DEF RecoveryStep

-----------------------------------------------------------------------------
(* The data part of the invariant: outbox rows, claims, cursors, contents. *)

\* What every step but a delivery does to the outbox: revisions grow, rows
\* belong to revisions that exist, and no current revision becomes settled.
Unsettling ==
    /\ \A a \in Aggregates : pgRev'[a] >= pgRev[a]
    /\ RowsExist'
    /\ \A a \in Aggregates : (pgRev'[a] > 0 /\ ~Waiting(a)') =>
          pgRev'[a] = pgRev[a] /\ ~Waiting(a)

Delivery(w) == MarkDelivered(w) /\ ArmedLeader(w) /\ Holds(w, cur[w])

\* Inserting a row, for a new revision or again, only adds waiting work.
LEMMA StageEffect ==
  ASSUME TypeOK, RowsExist, NEW a \in Aggregates, Stage(a) \/ Restage(a)
  PROVE  Unsettling
<1>1. \A n \in Nat : [NoRow EXCEPT !.st = "pending", !.ev = n].st = "pending"
  BY DEF NoRow
<1>2. Inserted(outbox[a][pgRev[a]]).st = "pending" /\ Inserted(outbox[a][pgRev[a] + 1]).st = "pending"
  BY DEF Inserted, NoRow
<1>3. pgRev[a] \in 0..MaxRev /\ MaxRev \in Nat
  BY ConstantsAssumption DEF TypeOK
<1>4. CASE Stage(a)
  <2>1. pgRev[a] + 1 \in Revs
    BY <1>3, <1>4 DEF Stage, Revs
  <2>2. /\ \A b \in Aggregates : pgRev'[b] = IF b = a THEN pgRev[a] + 1 ELSE pgRev[b]
        /\ \A b \in Aggregates, r \in Revs : b # a \/ r # pgRev[a] + 1 => outbox'[b][r] = outbox[b][r]
        /\ outbox'[a][pgRev[a] + 1].st = "pending"
    BY <1>2, <1>4, <2>1 DEF Stage, TypeOK
  <2>3. \A b \in Aggregates : pgRev[b] \in Nat /\ (pgRev[b] > 0 => pgRev[b] \in Revs)
    BY ConstantsAssumption DEF TypeOK, Revs
  <2>4. \A r \in Revs : r \in Nat
    BY DEF Revs
  <2> QED BY <2>2, <2>3, <2>4 DEF Unsettling, RowsExist, Waiting
<1>5. CASE Restage(a)
  <2>1. pgRev[a] \in Revs
    BY <1>3, <1>5 DEF Restage, Revs
  <2>2. /\ pgRev' = pgRev
        /\ \A b \in Aggregates, r \in Revs : b # a \/ r # pgRev[a] => outbox'[b][r] = outbox[b][r]
        /\ outbox'[a][pgRev[a]].st = "pending"
    BY <1>2, <1>5, <2>1 DEF Restage, TypeOK
  <2>3. \A b \in Aggregates : pgRev[b] \in Nat /\ (pgRev[b] > 0 => pgRev[b] \in Revs)
    BY ConstantsAssumption DEF TypeOK, Revs
  <2> QED BY <2>2, <2>3 DEF Unsettling, RowsExist, Waiting
<1> QED BY <1>4, <1>5

\* Steps that leave every row's status alone, or only let rows fail or go.
LEMMA RowEffect ==
  ASSUME TypeOK, RowsExist, UNCHANGED pgRev,
         \A a \in Aggregates, r \in Revs :
            \/ outbox'[a][r].st = outbox[a][r].st
            \/ outbox'[a][r].st = "exhausted" /\ outbox[a][r].st \in {"pending", "exhausted"}
            \/ outbox'[a][r].st = "absent" /\ outbox[a][r].st \in {"delivered", "superseded"}
            \/ outbox'[a][r].st = "pending" /\ r = pgRev[a]
  PROVE  Unsettling
<1>1. \A b \in Aggregates : pgRev[b] \in Nat /\ (pgRev[b] > 0 => pgRev[b] \in Revs)
  BY ConstantsAssumption DEF TypeOK, Revs
<1>2. RowsExist'
  BY <1>1 DEF RowsExist
<1> QED BY <1>1, <1>2 DEF Unsettling, Waiting

\* Retention removes settled rows; time touches no status.
LEMMA PurgeEffect ==
  ASSUME TypeOK, RowsExist, NEW a \in Aggregates, NEW r \in Revs,
         Purge(a, r) \/ ClaimExpires(a, r) \/ BackoffElapses(a, r)
  PROVE  Unsettling
<1>1. outbox[a][r] \in Row
  BY DEF TypeOK
<1>2. \/ outbox' = [outbox EXCEPT ![a][r] = [NoRow EXCEPT !.ev = outbox[a][r].ev]]
         /\ outbox[a][r].st \in {"delivered", "superseded"}
      \/ outbox' = [outbox EXCEPT ![a][r].live = FALSE]
      \/ outbox' = [outbox EXCEPT ![a][r].ready = TRUE]
  BY DEF Purge, ClaimExpires, BackoffElapses
<1>3. [NoRow EXCEPT !.ev = outbox[a][r].ev].st = "absent"
  BY DEF NoRow
<1>4. \A b \in Aggregates, q \in Revs : b # a \/ q # r => outbox'[b][q] = outbox[b][q]
  BY <1>2 DEF TypeOK
<1>5. \/ outbox'[a][r].st = outbox[a][r].st
      \/ outbox'[a][r].st = "absent" /\ outbox[a][r].st \in {"delivered", "superseded"}
  <2>1. CASE /\ outbox' = [outbox EXCEPT ![a][r] = [NoRow EXCEPT !.ev = outbox[a][r].ev]]
             /\ outbox[a][r].st \in {"delivered", "superseded"}
    BY <1>3, <2>1 DEF TypeOK
  <2>2. CASE outbox' = [outbox EXCEPT ![a][r].live = FALSE]
    <3>1. outbox'[a][r] = [outbox[a][r] EXCEPT !.live = FALSE]
      BY <2>2 DEF TypeOK
    <3> QED BY <1>1, <3>1 DEF Row
  <2>3. CASE outbox' = [outbox EXCEPT ![a][r].ready = TRUE]
    <3>1. outbox'[a][r] = [outbox[a][r] EXCEPT !.ready = TRUE]
      BY <2>3 DEF TypeOK
    <3> QED BY <1>1, <3>1 DEF Row
  <2> QED BY <1>2, <2>1, <2>2, <2>3
<1>6. UNCHANGED pgRev
  BY DEF Purge, ClaimExpires, BackoffElapses
<1> QED BY <1>4, <1>5, <1>6, RowEffect

\* claim_pending leases rows and keeps their status.
LEMMA ClaimEffect ==
  ASSUME TypeOK, RowsExist, NEW w \in Workers, ClaimPending(w)
  PROVE  Unsettling
<1>1. CASE UNCHANGED <<outbox, pgRev>>
  BY <1>1, RowEffect
<1>2. CASE ArmedLeader(w)
  <2>1. PICK S \in Batches(w) : outbox' = [a \in Aggregates |-> [r \in Revs |->
                      IF <<a, r>> \in S
                      THEN [outbox[a][r] EXCEPT !.owner = w, !.gen = lead[w].gen,
                                                !.ver = @ + 1, !.live = TRUE]
                      ELSE outbox[a][r]]]
    BY <1>2 DEF ClaimPending
  <2>2. \A a \in Aggregates, r \in Revs : outbox[a][r] \in Row
    BY DEF TypeOK
  <2>3. \A row \in Row : \A n : [row EXCEPT !.owner = w, !.gen = lead[w].gen,
                                        !.ver = n, !.live = TRUE].st = row.st
    BY DEF Row
  <2>4. \A a \in Aggregates, r \in Revs : outbox'[a][r].st = outbox[a][r].st
    BY <2>1, <2>2, <2>3
  <2>5. UNCHANGED pgRev
    BY DEF ClaimPending
  <2> QED BY <2>4, <2>5, RowEffect
<1> QED BY <1>1, <1>2 DEF ClaimPending

\* mark_failed keeps a row waiting, at worst as exhausted.
LEMMA FailEffect ==
  ASSUME TypeOK, ClaimsSound, RowsExist, NEW w \in Workers, MarkFailed(w)
  PROVE  Unsettling
<1>1. CASE UNCHANGED <<outbox, pgRev>>
  BY <1>1, RowEffect
<1>2. CASE ArmedLeader(w) /\ Holds(w, cur[w])
  <2>1. cur[w] \in Claim /\ pc[w] = "mark"
    BY DEF MarkFailed, ClaimsSound
  <2> DEFINE a == cur[w].agg
             r == cur[w].rev
  <2>2. a \in Aggregates /\ r \in Revs
    BY <2>1 DEF Claim
  <2>3. outbox[a][r] \in Row
    BY <2>2 DEF TypeOK
  <2>4. outbox[a][r].st \in {"pending", "exhausted"}
    BY <1>2 DEF Holds
  <2>5. outbox' = [outbox EXCEPT ![a][r] = Failed(outbox[a][r])]
    BY <1>2 DEF MarkFailed
  <2>6. \A b \in Aggregates, q \in Revs : b # a \/ q # r => outbox'[b][q] = outbox[b][q]
    BY <2>2, <2>5 DEF TypeOK
  <2>7. Failed(outbox[a][r]).st \in {outbox[a][r].st, "exhausted"}
    BY <2>3 DEF Failed, Row
  <2>8. outbox'[a][r] = Failed(outbox[a][r])
    BY <2>2, <2>5 DEF TypeOK
  <2>9. UNCHANGED pgRev
    BY DEF MarkFailed
  <2> HIDE DEF a, r
  <2> QED BY <2>4, <2>6, <2>7, <2>8, <2>9, RowEffect
<1> QED BY <1>1, <1>2 DEF MarkFailed

\* The requeue of a recovery leaves every current revision waiting.
LEMMA RequeueEffect ==
  ASSUME TypeOK, RowsExist, UNCHANGED pgRev, outbox' = Requeued
  PROVE  /\ Unsettling
         /\ \A a \in Aggregates : pgRev[a] > 0 => Waiting(a)'
<1>1. \A row \in Row : [row EXCEPT !.st = "pending", !.owner = None, !.gen = 0,
                             !.live = FALSE, !.tries = 0, !.ready = TRUE].st = "pending"
  BY DEF Row
<1>2. \A row : Inserted(row).st = "pending"
  BY DEF Inserted, NoRow
<1>3. \A a \in Aggregates, r \in Revs : outbox[a][r] \in Row
  BY DEF TypeOK
<1>4. \A a \in Aggregates, r \in Revs :
        IF r = pgRev[a] THEN outbox'[a][r].st = "pending" ELSE outbox'[a][r] = outbox[a][r]
  BY <1>1, <1>2, <1>3 DEF Requeued
<1>5. \A a \in Aggregates : pgRev[a] > 0 => pgRev[a] \in Revs
  BY ConstantsAssumption DEF TypeOK, Revs
<1> QED BY <1>4, <1>5, RowEffect DEF Waiting

\* A delivery is the only step that settles a current revision.
LEMMA OutboxSteps ==
  ASSUME TypeOK, RowsExist, ClaimsSound, [Next]_vars
  PROVE  Unsettling \/ \E w \in Workers : Delivery(w)
<1>1. ASSUME UNCHANGED <<outbox, pgRev>> PROVE Unsettling
  BY <1>1, RowEffect
<1>2. ASSUME NEW p \in Recoverers, PrepareRecovery(p) PROVE Unsettling
  BY <1>1, <1>2, PrepareEffect, RequeueEffect
<1>3. ASSUME NEW w \in Workers, MarkDelivered(w) PROVE Delivery(w) \/ Unsettling
  BY <1>1, <1>3 DEF Delivery, MarkDelivered
<1>4. ASSUME NEW w \in Workers, WorkerStep(w)
      PROVE UNCHANGED <<outbox, pgRev>> \/ ClaimPending(w) \/ MarkDelivered(w) \/ MarkFailed(w)
  BY <1>4 DEF WorkerStep, AcquireLeadership, AcquireRefused, ActivateGeneration,
     HasCursorEvidence, AdvanceConfirmedGeneration, ReactivateGeneration, ArmLeadership,
     RenewClaim, Apply, ReleaseLeadership, StopRelease, pgVars
<1>5. ASSUME NEW w \in Workers, ApplyFails(w) \/ Abort(w) \/ Crash(w) \/ Stop(w)
      PROVE UNCHANGED <<outbox, pgRev>>
  BY <1>5 DEF ApplyFails, Abort, Crash, Stop, pgVars
<1>6. ASSUME NEW p \in Recoverers, RecoveryStep(p) \/ RecoveryCrash(p)
      PROVE UNCHANGED <<outbox, pgRev>> \/ PrepareRecovery(p)
  BY <1>6 DEF RecoveryStep, RecoveryCrash, ResetForRecovery, MarkNeoReady, FinalizeNeo,
     FinalizePg, pgVars
<1>7. LeaseExpires => UNCHANGED <<outbox, pgRev>>
  BY DEF LeaseExpires
<1>8. UNCHANGED vars => UNCHANGED <<outbox, pgRev>>
  BY DEF vars, pgVars
<1>9. ASSUME RequeueFullProjection PROVE Unsettling
  BY <1>9, RequeueEffect DEF RequeueFullProjection
<1> QED
  BY <1>1, <1>2, <1>3, <1>4, <1>5, <1>6, <1>7, <1>8, <1>9,
     StageEffect, PurgeEffect, ClaimEffect, FailEffect DEF Next

\* mark_delivered settles the claimed revision and older ones, nothing else.
LEMMA DeliveryEffect ==
  ASSUME TypeOK, RowsExist, ClaimsSound, NEW w \in Workers, Delivery(w)
  PROVE  /\ UNCHANGED <<pgRev, lease, fence, cursor, graph, lead, rstate>>
         /\ RowsExist'
         /\ pc[w] = "mark" /\ outcome[w] = "ok" /\ lease.rec = None /\ lease.gen = lead[w].gen
         /\ cur[w].agg \in Aggregates /\ cur[w].rev \in Revs
         /\ \A a \in Aggregates : (pgRev[a] > 0 /\ Waiting(a) /\ ~Waiting(a)') =>
               a = cur[w].agg /\ pgRev[a] = cur[w].rev
<1>1. /\ UNCHANGED <<pgRev, lease, fence, cursor, graph, lead, rstate>>
      /\ pc[w] = "mark" /\ outcome[w] = "ok" /\ lease.rec = None /\ lease.gen = lead[w].gen
  BY DEF Delivery, MarkDelivered, ArmedLeader, Leader, neoVars, recVars
<1>2. cur[w] \in Claim /\ SoundClaim(cur[w])
  BY <1>1 DEF ClaimsSound
<1> DEFINE c == cur[w]
<1>3. c.agg \in Aggregates /\ c.rev \in Revs /\ c.snap \in Nat
  BY <1>2 DEF Claim
<1>4. outbox' = Delivered(w, c)
  BY DEF Delivery, MarkDelivered
<1>5. \A a \in Aggregates : a # c.agg => outbox'[a] = outbox[a]
  BY <1>4 DEF Delivered, TypeOK
<1>6. outbox'[c.agg] = [r \in Revs |->
        IF r = c.rev
        THEN [outbox[c.agg][r] EXCEPT !.st = "delivered", !.live = FALSE, !.owner = None]
        ELSE IF r < c.rev /\ outbox[c.agg][r].st = "exhausted"
        THEN [outbox[c.agg][r] EXCEPT !.st = "superseded", !.live = FALSE, !.owner = None]
        ELSE outbox[c.agg][r]]
  BY <1>3, <1>4 DEF Delivered, TypeOK
<1>7. ASSUME NEW r \in Revs, r > c.rev PROVE outbox'[c.agg][r] = outbox[c.agg][r]
  <2>1. r # c.rev /\ ~(r < c.rev)
    BY <1>3, <1>7 DEF Revs
  <2> QED BY <1>6, <2>1
<1>8. c.rev <= pgRev[c.agg] /\ pgRev[c.agg] \in Nat /\ c.rev \in Nat
  BY <1>2, <1>3, ConstantsAssumption DEF SoundClaim, TypeOK, Revs
<1>9. \A a \in Aggregates : pgRev[a] > 0 => pgRev[a] \in Revs
  BY ConstantsAssumption DEF TypeOK, Revs
<1>10. \A r \in Revs : r \in Nat
  BY DEF Revs
<1> HIDE DEF c
<1>11. RowsExist'
  BY <1>1, <1>3, <1>5, <1>7, <1>8, <1>10 DEF RowsExist
<1>12. \A a \in Aggregates : (pgRev[a] > 0 /\ Waiting(a) /\ ~Waiting(a)') =>
               a = c.agg /\ pgRev[a] = c.rev
  BY <1>1, <1>3, <1>5, <1>7, <1>8, <1>9, <1>10 DEF Waiting
<1> QED BY <1>1, <1>3, <1>11, <1>12 DEF c

-----------------------------------------------------------------------------
(* Cursors and contents.                                                   *)

CursorsAdvance == \A a \in Aggregates : cursor'[a].rev >= cursor[a].rev

\* apply: the cursor never goes back and ends at the claim's revision or
\* beyond it, unless the claim conflicts with the cursor's history.
LEMMA ProjectEffect ==
  ASSUME TypeOK, ContentBounds, NEW w \in Workers,
         cur[w] \in Claim, SoundClaim(cur[w]), Project(w, cur[w]), UNCHANGED pgRev
  PROVE  /\ ContentBounds' /\ CursorsAdvance
         /\ Status(cur[w]) # "conflict" => cursor'[cur[w].agg].rev >= cur[w].rev
<1> DEFINE c == cur[w]
<1>1. c.agg \in Aggregates /\ c.rev \in Int /\ c.snap \in Nat
  BY DEF Claim, Revs
<1>2. \A a \in Aggregates : cursor[a].rev \in Int /\ graph[a] \in Nat /\ pgRev[a] \in Int
  BY DEF TypeOK, Cursor
<1>3. \A a \in Aggregates : a # c.agg => cursor'[a] = cursor[a] /\ graph'[a] = graph[a]
  BY <1>1 DEF Project, TypeOK
<1>4. CASE Status(c) = "applied"
  <2>1. c.rev > cursor[c.agg].rev
    BY <1>1, <1>2, <1>4 DEF Status
  <2>2. graph'[c.agg] = c.snap /\ cursor'[c.agg].rev = c.rev
    BY <1>1, <1>4 DEF Project, TypeOK
  <2> HIDE DEF c
  <2> QED BY <1>1, <1>2, <1>3, <2>1, <2>2 DEF ContentBounds, CursorsAdvance, SoundClaim, c
<1>5. CASE Status(c) = "already_current"
  <2>1. c.rev = cursor[c.agg].rev
    BY <1>1, <1>2, <1>5 DEF Status
  <2>2. graph'[c.agg] = graph[c.agg] /\ cursor'[c.agg].rev = c.rev
    BY <1>1, <1>5 DEF Project, TypeOK
  <2> QED BY <1>1, <1>2, <1>3, <2>1, <2>2 DEF ContentBounds, CursorsAdvance
<1>6. CASE Status(c) \notin {"applied", "already_current"}
  <2>1. UNCHANGED <<graph, cursor>>
    BY <1>6 DEF Project
  <2>2. Status(c) # "conflict" => cursor[c.agg].rev >= c.rev
    BY <1>1, <1>2, <1>6 DEF Status
  <2> QED BY <1>2, <2>1, <2>2 DEF ContentBounds, CursorsAdvance
<1> QED BY <1>4, <1>5, <1>6

\* Every step but the wipe of a recovery only moves the cursors forward.
LEMMA ContentNext ==
  ASSUME IInv, [Next]_vars
  PROVE  /\ ContentBounds'
         /\ CursorsAdvance \/ \E p \in Recoverers : ResetForRecovery(p)
<1>a. TypeOK /\ RowsExist /\ ClaimsSound /\ ContentBounds
  BY DEF IInv
<1>t. \A a \in Aggregates : cursor[a].rev \in Int /\ graph[a] \in Nat /\ pgRev[a] \in Nat
  BY <1>a, ConstantsAssumption DEF TypeOK, Cursor
<1>u. \A a \in Aggregates : pgRev'[a] >= pgRev[a] /\ pgRev'[a] \in Nat
  BY <1>a, <1>t, OutboxSteps, DeliveryEffect, TypeNext, ConstantsAssumption DEF Unsettling,
     TypeOK
<1>1. ASSUME UNCHANGED <<cursor, graph>> PROVE ContentBounds' /\ CursorsAdvance
  BY <1>a, <1>t, <1>u, <1>1 DEF ContentBounds, CursorsAdvance
<1>2. ASSUME NEW w \in Workers, Apply(w) \/ ApplyFails(w) PROVE ContentBounds' /\ CursorsAdvance
  <2>1. cur[w] \in Claim /\ SoundClaim(cur[w]) /\ UNCHANGED pgRev
    BY <1>a, <1>2 DEF ClaimsSound, Apply, ApplyFails, pgVars
  <2>2. Project(w, cur[w]) \/ UNCHANGED <<cursor, graph>>
    BY <1>2 DEF Apply, ApplyFails
  <2> QED BY <1>a, <1>1, <2>1, <2>2, ProjectEffect
<1>3. ASSUME NEW p \in Recoverers, ResetForRecovery(p) PROVE ContentBounds'
  BY <1>a, <1>t, <1>3, ResetEffect DEF ContentBounds
<1>4. ASSUME NEW w \in Workers, WorkerStep(w) PROVE UNCHANGED <<cursor, graph>> \/ Apply(w)
  BY <1>4 DEF WorkerStep, AcquireLeadership, AcquireRefused, ActivateGeneration,
     HasCursorEvidence, AdvanceConfirmedGeneration, ReactivateGeneration, ArmLeadership,
     ClaimPending, RenewClaim, MarkDelivered, MarkFailed, ReleaseLeadership, StopRelease, neoVars
<1>5. ASSUME NEW w \in Workers, Abort(w) \/ Crash(w) \/ Stop(w) PROVE UNCHANGED <<cursor, graph>>
  BY <1>5 DEF Abort, Crash, Stop, neoVars
<1>6. ASSUME NEW p \in Recoverers, RecoveryStep(p) \/ RecoveryCrash(p)
      PROVE UNCHANGED <<cursor, graph>> \/ ResetForRecovery(p)
  BY <1>6 DEF RecoveryStep, RecoveryCrash, PrepareRecovery, MarkNeoReady, FinalizeNeo,
     FinalizePg, neoVars
<1>7. ASSUME LeaseExpires \/ RequeueFullProjection \/ UNCHANGED vars PROVE UNCHANGED <<cursor, graph>>
  BY <1>7 DEF LeaseExpires, RequeueFullProjection, vars, neoVars
<1>8. ASSUME NEW a \in Aggregates, Stage(a) \/ Restage(a) PROVE UNCHANGED <<cursor, graph>>
  BY <1>8 DEF Stage, Restage, neoVars
<1>9. ASSUME NEW a \in Aggregates, NEW r \in Revs,
             Purge(a, r) \/ ClaimExpires(a, r) \/ BackoffElapses(a, r)
      PROVE UNCHANGED <<cursor, graph>>
  BY <1>9 DEF Purge, ClaimExpires, BackoffElapses, neoVars
<1> QED
  BY <1>1, <1>2, <1>3, <1>4, <1>5, <1>6, <1>7, <1>8, <1>9 DEF Next

\* A claim copies a revision that exists, and content at least as new.
LEMMA ClaimsSoundNext ==
  ASSUME IInv, [Next]_vars PROVE ClaimsSound'
<1>a. TypeOK /\ RowsExist /\ ClaimsSound /\ TypeOK'
  BY TypeNext DEF IInv
<1>u. \A a \in Aggregates : /\ pgRev'[a] >= pgRev[a]
                            /\ pgRev'[a] \in Nat /\ pgRev[a] \in Nat
  BY <1>a, OutboxSteps, DeliveryEffect, ConstantsAssumption DEF Unsettling, TypeOK
<1>s. ASSUME NEW c \in Claim, SoundClaim(c) PROVE SoundClaim(c)'
  <2>1. c.agg \in Aggregates /\ c.rev \in Int /\ c.snap \in Nat
    BY DEF Claim, Revs
  <2> QED BY <1>u, <1>s, <2>1 DEF SoundClaim
<1>b. \A w \in Workers : batch[w] \subseteq Claim /\ batch'[w] \subseteq Claim
  BY <1>a DEF TypeOK
<1>1. ASSUME \A v \in Workers : /\ batch'[v] \subseteq batch[v]
                                /\ pc'[v] \in {"apply", "mark"} =>
                                      /\ pc[v] \in {"apply", "mark"} /\ cur'[v] = cur[v]
      PROVE  ClaimsSound'
  BY <1>a, <1>b, <1>s, <1>1 DEF ClaimsSound
<1>2. ASSUME NEW w \in Workers, ClaimPending(w) PROVE ClaimsSound'
  <2>1. \A v \in Workers : v # w => batch'[v] = batch[v] /\ pc'[v] = pc[v] /\ cur'[v] = cur[v]
    BY <1>a, <1>2 DEF ClaimPending, Goto, TypeOK
  <2>2. pc'[w] \notin {"apply", "mark"}
    BY <1>a, <1>2 DEF ClaimPending, Goto, TypeOK
  <2>3. \A c \in batch'[w] : SoundClaim(c)'
    <3>1. CASE UNCHANGED batch
      BY <1>a, <1>b, <1>s, <3>1 DEF ClaimsSound
    <3>2. CASE ArmedLeader(w)
      <4>1. PICK S \in Batches(w) : batch'[w] = {ClaimOf(s[1], s[2]) : s \in S}
        BY <1>a, <1>2, <3>2 DEF ClaimPending, TypeOK
      <4>2. ASSUME NEW s \in S, NEW c, c = ClaimOf(s[1], s[2])
            PROVE  c.rev <= c.snap /\ c.snap <= pgRev'[c.agg]
        <5>1. /\ s[1] \in Aggregates /\ s[2] \in Revs
              /\ outbox[s[1]][s[2]].st = "pending"
          BY DEF Batches, Candidates, Claimable, Outstanding
        <5>2. s[2] <= pgRev[s[1]]
          BY <1>a, <5>1 DEF RowsExist
        <5>3. c.agg = s[1] /\ c.rev = s[2] /\ c.snap = pgRev[s[1]]
          BY <4>2 DEF ClaimOf
        <5> QED BY <1>u, <5>1, <5>2, <5>3
      <4> QED BY <4>1, <4>2 DEF SoundClaim
    <3> QED BY <1>2, <3>1, <3>2 DEF ClaimPending
  <2> QED BY <1>a, <1>b, <1>s, <2>1, <2>2, <2>3 DEF ClaimsSound
<1>3. ASSUME NEW w \in Workers, RenewClaim(w) PROVE ClaimsSound'
  <2>1. \A v \in Workers : v # w => batch'[v] = batch[v] /\ pc'[v] = pc[v] /\ cur'[v] = cur[v]
    BY <1>a, <1>3 DEF RenewClaim, Goto, TypeOK
  <2>2. batch'[w] \subseteq batch[w]
    BY <1>a, <1>3 DEF RenewClaim, TypeOK
  <2>3. pc'[w] \in {"apply", "mark"} => cur'[w] \in batch[w]
    BY <1>a, <1>3 DEF RenewClaim, Goto, TypeOK
  <2> QED BY <1>a, <1>b, <1>s, <2>1, <2>2, <2>3 DEF ClaimsSound
<1>4. ASSUME NEW w \in Workers, WorkerStep(w), ~ClaimPending(w), ~RenewClaim(w) PROVE ClaimsSound'
  <2>1. \A v \in Workers : v # w => batch'[v] = batch[v] /\ pc'[v] = pc[v] /\ cur'[v] = cur[v]
    <3>1. CASE AcquireLeadership(w) \/ AcquireRefused(w) \/ ActivateGeneration(w)
               \/ HasCursorEvidence(w) \/ AdvanceConfirmedGeneration(w)
               \/ ReactivateGeneration(w) \/ ArmLeadership(w)
      BY <1>a, <3>1 DEF AcquireLeadership, AcquireRefused, ActivateGeneration,
         HasCursorEvidence, AdvanceConfirmedGeneration, ReactivateGeneration, ArmLeadership, Goto, TypeOK
    <3>2. CASE Apply(w) \/ MarkDelivered(w) \/ MarkFailed(w)
      BY <1>a, <3>2 DEF Apply, MarkDelivered, MarkFailed, Continue, GiveUp, Goto, TypeOK
    <3>3. CASE ReleaseLeadership(w) \/ StopRelease(w)
      BY <1>a, <3>3 DEF ReleaseLeadership, StopRelease, Goto, TypeOK
    <3> QED BY <1>4, <3>1, <3>2, <3>3 DEF WorkerStep
  <2>2. /\ batch'[w] \subseteq batch[w]
        /\ pc'[w] \in {"apply", "mark"} => pc[w] \in {"apply", "mark"} /\ cur'[w] = cur[w]
    <3>1. CASE AcquireLeadership(w) \/ AcquireRefused(w) \/ ActivateGeneration(w)
               \/ HasCursorEvidence(w) \/ AdvanceConfirmedGeneration(w)
               \/ ReactivateGeneration(w) \/ ArmLeadership(w)
      BY <1>a, <3>1 DEF AcquireLeadership, AcquireRefused, ActivateGeneration,
         HasCursorEvidence, AdvanceConfirmedGeneration, ReactivateGeneration, ArmLeadership, Goto, TypeOK
    <3>2. CASE Apply(w)
      BY <1>a, <3>2 DEF Apply, Goto, TypeOK
    <3>3. CASE MarkDelivered(w) \/ MarkFailed(w)
      BY <1>a, <3>3 DEF MarkDelivered, MarkFailed, Continue, GiveUp, Goto, TypeOK
    <3>4. CASE ReleaseLeadership(w) \/ StopRelease(w)
      BY <1>a, <3>4 DEF ReleaseLeadership, StopRelease, Goto, TypeOK
    <3> QED BY <1>4, <3>1, <3>2, <3>3, <3>4 DEF WorkerStep
  <2> QED BY <1>1, <2>1, <2>2
<1>5. ASSUME NEW w \in Workers, ApplyFails(w) \/ Abort(w) \/ Crash(w) \/ Stop(w) PROVE ClaimsSound'
  <2>1. \A v \in Workers : v # w => batch'[v] = batch[v] /\ pc'[v] = pc[v] /\ cur'[v] = cur[v]
    BY <1>a, <1>5 DEF ApplyFails, Abort, Crash, Stop, Drop, Goto, TypeOK
  <2>2. /\ batch'[w] \subseteq batch[w]
        /\ pc'[w] \in {"apply", "mark"} => pc[w] \in {"apply", "mark"} /\ cur'[w] = cur[w]
    BY <1>a, <1>5 DEF ApplyFails, Abort, Crash, Stop, Drop, Goto, TypeOK
  <2> QED BY <1>1, <2>1, <2>2
<1>6. ASSUME UNCHANGED <<batch, pc, cur>> PROVE ClaimsSound'
  BY <1>1, <1>6
<1>7. ASSUME NEW p \in Recoverers, RecoveryStep(p) \/ RecoveryCrash(p) PROVE UNCHANGED <<batch, pc, cur>>
  BY <1>7 DEF RecoveryStep, RecoveryCrash, PrepareRecovery, ResetForRecovery, MarkNeoReady,
     FinalizeNeo, FinalizePg, workerVars
<1>8. ASSUME LeaseExpires \/ RequeueFullProjection \/ UNCHANGED vars PROVE UNCHANGED <<batch, pc, cur>>
  BY <1>8 DEF LeaseExpires, RequeueFullProjection, vars, workerVars
<1>9. ASSUME NEW a \in Aggregates, Stage(a) \/ Restage(a) PROVE UNCHANGED <<batch, pc, cur>>
  BY <1>9 DEF Stage, Restage, workerVars
<1>10. ASSUME NEW a \in Aggregates, NEW r \in Revs,
             Purge(a, r) \/ ClaimExpires(a, r) \/ BackoffElapses(a, r)
      PROVE UNCHANGED <<batch, pc, cur>>
  BY <1>10 DEF Purge, ClaimExpires, BackoffElapses, workerVars
<1> QED
  BY <1>2, <1>3, <1>4, <1>5, <1>6, <1>7, <1>8, <1>9, <1>10 DEF Next

\* An acknowledged write is in the graph, or a newer fence voids the claim.
LEMMA AckedNext ==
  ASSUME IInv, [Next]_vars PROVE AckedIsProjected'
<1>a. TypeOK /\ TypeOK' /\ ClaimsSound /\ ContentBounds /\ FencedOwn /\ RecoveryApart
      /\ AckedIsProjected
  BY TypeNext DEF IInv
<1>t. /\ fence.gen \in Int /\ fence'.gen \in Int
      /\ \A v \in Workers : lead[v].gen \in Nat
      /\ \A s \in Recoverers : rstate[s].gen \in Nat
      /\ \A a \in Aggregates : cursor[a].rev \in Int /\ cursor'[a].rev \in Int
  BY <1>a DEF TypeOK, Fence, Cursor
<1>c. \A v \in Workers : pc[v] = "mark" => cur[v].agg \in Aggregates /\ cur[v].rev \in Int
  BY <1>a DEF ClaimsSound, Claim, Revs
<1>f. fence'.gen >= fence.gen
  BY FenceNext DEF FenceStep
<1>1. ASSUME NEW p \in Recoverers, ResetForRecovery(p) PROVE AckedIsProjected'
  <2>1. UNCHANGED <<lead, pc, cur, outcome>>
    BY <1>a, <1>1, ResetEffect
  <2>2. UNCHANGED <<fence, cursor>> \/ (fence.gen <= rstate[p].gen /\ fence'.gen = rstate[p].gen)
    BY <1>a, <1>1, ResetEffect
  <2>3. ASSUME NEW v \in Workers, pc[v] = "mark", fence.gen <= rstate[p].gen,
               fence'.gen = rstate[p].gen
        PROVE  fence'.gen > lead[v].gen
    <3>1. fence.gen >= lead[v].gen
      BY <1>a, <1>t, <2>3 DEF FencedOwn, Fenced
    <3>2. lead[v].gen # rstate[p].gen
      BY <1>a, <2>3 DEF RecoveryApart, Working
    <3> QED BY <1>t, <2>3, <3>1, <3>2
  <2> QED BY <1>a, <2>1, <2>2, <2>3 DEF AckedIsProjected
<1>2. ASSUME CursorsAdvance,
             \A v \in Workers : pc'[v] = "mark" /\ outcome'[v] = "ok" =>
                 /\ pc[v] = "mark" /\ outcome[v] = "ok"
                 /\ cur'[v] = cur[v] /\ lead'[v] = lead[v]
      PROVE  AckedIsProjected'
  BY <1>a, <1>t, <1>c, <1>f, <1>2 DEF AckedIsProjected, CursorsAdvance
<1>3. ASSUME NEW w \in Workers, Apply(w) PROVE AckedIsProjected'
  <2>1. \A v \in Workers : v # w => pc'[v] = pc[v] /\ cur'[v] = cur[v] /\ outcome'[v] = outcome[v]
    BY <1>a, <1>3 DEF Apply, Goto, TypeOK
  <2>2. cur' = cur /\ lead' = lead /\ pc[w] = "apply" /\ UNCHANGED pgRev
    BY <1>3 DEF Apply, pgVars
  <2>3. cur[w] \in Claim /\ SoundClaim(cur[w])
    BY <1>a, <2>2 DEF ClaimsSound
  <2>4. CASE ~FenceAdmits(w)
    <3>1. pc'[w] = "release" /\ UNCHANGED cursor
      BY <1>a, <1>3, <2>4 DEF Apply, Goto, TypeOK
    <3>2. CursorsAdvance
      BY <1>t, <3>1 DEF CursorsAdvance
    <3> QED BY <1>2, <2>1, <2>2, <3>1, <3>2
  <2>5. CASE FenceAdmits(w)
    <3>1. Project(w, cur[w])
      BY <1>3, <2>5 DEF Apply
    <3>2. outcome'[w] = IF Status(cur[w]) = "conflict" THEN "conflict" ELSE "ok"
      BY <1>a, <1>3, <2>5 DEF Apply, TypeOK
    <3>3. /\ CursorsAdvance
          /\ Status(cur[w]) # "conflict" => cursor'[cur[w].agg].rev >= cur[w].rev
      BY <1>a, <2>2, <2>3, <3>1, ProjectEffect
    <3> QED BY <1>a, <1>t, <1>c, <1>f, <2>1, <2>2, <3>2, <3>3 DEF AckedIsProjected,
       CursorsAdvance
  <2> QED BY <2>4, <2>5
<1>4. ASSUME CursorsAdvance, ~(\E w \in Workers : Apply(w)),
             ~(\E p \in Recoverers : ResetForRecovery(p))
      PROVE  AckedIsProjected'
  <2> SUFFICES ASSUME NEW v \in Workers, pc'[v] = "mark", outcome'[v] = "ok"
               PROVE  /\ pc[v] = "mark" /\ outcome[v] = "ok"
                      /\ cur'[v] = cur[v] /\ lead'[v] = lead[v]
    BY <1>2, <1>4
  <2>1. CASE UNCHANGED <<pc, lead, cur, outcome>>
    BY <2>1
  <2>2. ASSUME NEW w \in Workers, WorkerStep(w)
        PROVE  /\ pc[v] = "mark" /\ outcome[v] = "ok"
               /\ cur'[v] = cur[v] /\ lead'[v] = lead[v]
    <3>1. CASE AcquireLeadership(w) \/ AcquireRefused(w) \/ ActivateGeneration(w)
               \/ HasCursorEvidence(w) \/ AdvanceConfirmedGeneration(w)
               \/ ReactivateGeneration(w) \/ ArmLeadership(w) \/ ClaimPending(w)
      BY <1>a, <3>1 DEF AcquireLeadership, AcquireRefused, ActivateGeneration, ClaimPending,
         HasCursorEvidence, AdvanceConfirmedGeneration, ReactivateGeneration, ArmLeadership, Goto, TypeOK
    <3>2. CASE RenewClaim(w)
      BY <1>a, <3>2 DEF RenewClaim, Goto, TypeOK
    <3>3. CASE MarkDelivered(w) \/ MarkFailed(w)
      BY <1>a, <3>3 DEF MarkDelivered, MarkFailed, Continue, GiveUp, Goto, TypeOK
    <3>4. CASE ReleaseLeadership(w) \/ StopRelease(w)
      BY <1>a, <3>4 DEF ReleaseLeadership, StopRelease, Goto, TypeOK
    <3> QED BY <1>4, <2>2, <3>1, <3>2, <3>3, <3>4 DEF WorkerStep
  <2>3. ASSUME NEW w \in Workers, ApplyFails(w) \/ Abort(w) \/ Crash(w) \/ Stop(w)
        PROVE  /\ pc[v] = "mark" /\ outcome[v] = "ok"
               /\ cur'[v] = cur[v] /\ lead'[v] = lead[v]
    BY <1>a, <2>3 DEF ApplyFails, Abort, Crash, Stop, Drop, Goto, TypeOK
  <2>4. ASSUME NEW p \in Recoverers, RecoveryStep(p) \/ RecoveryCrash(p)
        PROVE  UNCHANGED <<pc, lead, cur, outcome>>
    BY <2>4 DEF RecoveryStep, RecoveryCrash, PrepareRecovery, ResetForRecovery,
       MarkNeoReady,
       FinalizeNeo, FinalizePg, workerVars
  <2>5. ASSUME LeaseExpires \/ RequeueFullProjection \/ UNCHANGED vars PROVE UNCHANGED <<pc, lead, cur, outcome>>
    BY <2>5 DEF LeaseExpires, RequeueFullProjection, vars, workerVars
  <2>6. ASSUME NEW a \in Aggregates, Stage(a) \/ Restage(a) PROVE UNCHANGED <<pc, lead, cur, outcome>>
    BY <2>6 DEF Stage, Restage, workerVars
  <2>7. ASSUME NEW a \in Aggregates, NEW r \in Revs,
               Purge(a, r) \/ ClaimExpires(a, r) \/ BackoffElapses(a, r)
        PROVE UNCHANGED <<pc, lead, cur, outcome>>
    BY <2>7 DEF Purge, ClaimExpires, BackoffElapses, workerVars
  <2> QED BY <2>1, <2>2, <2>3, <2>4, <2>5, <2>6, <2>7 DEF Next
<1> QED BY <1>1, <1>3, <1>4, ContentNext

\* A settled revision is at its aggregate's cursor.
LEMMA SettledNext ==
  ASSUME IInv, [Next]_vars PROVE SettledAtCursor' /\ ResetLosesNothing'
<1>a. TypeOK /\ TypeOK' /\ RowsExist /\ ClaimsSound /\ GenerationsBounded /\ FencedOwn
      /\ RecoveryApart /\ AckedIsProjected /\ SettledAtCursor /\ ResetLosesNothing
  BY TypeNext DEF IInv
<1>t. /\ fence.gen \in Int /\ lease.gen \in Nat
      /\ \A v \in Workers : lead[v].gen \in Nat
      /\ \A s \in Recoverers : rstate[s].gen \in Nat
      /\ \A a \in Aggregates : cursor[a].rev \in Int /\ cursor'[a].rev \in Int
                                /\ pgRev[a] \in Int /\ pgRev'[a] \in Int
  BY <1>a DEF TypeOK, Fence, Cursor, Lease
<1>1. ASSUME NEW w \in Workers, Delivery(w) PROVE SettledAtCursor' /\ ResetLosesNothing'
  <2>1. /\ UNCHANGED <<pgRev, lease, fence, cursor, graph, lead, rstate>>
        /\ pc[w] = "mark" /\ outcome[w] = "ok" /\ lease.rec = None /\ lease.gen = lead[w].gen
        /\ \A a \in Aggregates : (pgRev[a] > 0 /\ Waiting(a) /\ ~Waiting(a)') =>
              a = cur[w].agg /\ pgRev[a] = cur[w].rev
    BY <1>a, <1>1, DeliveryEffect
  <2>2. fence.gen = lead[w].gen
    BY <1>a, <1>t, <2>1 DEF FencedOwn, Fenced, GenerationsBounded
  <2>3. cursor[cur[w].agg].rev >= cur[w].rev
    BY <1>a, <1>t, <2>1, <2>2 DEF AckedIsProjected
  <2>4. \A p \in Recoverers : rstate[p].gen < fence.gen
    BY <1>a, <1>t, <2>1, <2>2 DEF GenerationsBounded, RecoveryApart, Working
  <2>5. SettledAtCursor'
    BY <1>a, <2>1, <2>3 DEF SettledAtCursor
  <2>6. ResetLosesNothing'
    BY <1>t, <2>1, <2>4 DEF ResetLosesNothing
  <2> QED BY <2>5, <2>6
<1>2. ASSUME Unsettling PROVE SettledAtCursor'
  <2>1. CASE CursorsAdvance
    BY <1>a, <1>t, <1>2, <2>1 DEF SettledAtCursor, Unsettling, CursorsAdvance
  <2>2. ASSUME NEW p \in Recoverers, ResetForRecovery(p), ~CursorsAdvance PROVE SettledAtCursor'
    <3>1. UNCHANGED <<outbox, pgRev>> /\ fence.gen <= rstate[p].gen
      BY <1>a, <1>t, <2>2, ResetEffect DEF CursorsAdvance
    <3> QED BY <1>a, <3>1 DEF SettledAtCursor, ResetLosesNothing, Waiting
  <2> QED BY <2>1, <2>2, ContentNext
<1>3. ASSUME Unsettling PROVE ResetLosesNothing'
  <2>1. CASE Exposed' => Exposed
    BY <1>a, <1>t, <1>3, <2>1 DEF ResetLosesNothing, Unsettling, Exposed
  <2>2. CASE outbox' = Requeued /\ UNCHANGED pgRev
    BY <1>a, <2>2, RequeueEffect DEF ResetLosesNothing
  <2> QED BY <2>1, <2>2, InterlockNext
<1> QED BY <1>a, <1>1, <1>2, <1>3, OutboxSteps

-----------------------------------------------------------------------------
(* The theorems.                                                           *)

\* The migrated, empty system satisfies the invariant.
LEMMA InitIInv == ASSUME Init PROVE IInv
<1>1. lease \in Lease
  BY DEF Init, Lease, Owners, Phases
<1>2. NoRow \in Row
  BY DEF NoRow, Row
<1>3. NoCursor \in Cursor /\ NoFence \in Fence /\ NoLead \in [gen : Nat, armed : BOOLEAN]
  BY DEF NoCursor, Cursor, NoFence, Fence, Owners, NoLead
<1>4. TypeOK
  <2>1. /\ outbox \in [Aggregates -> [Revs -> Row]] /\ pgRev \in [Aggregates -> 0..MaxRev]
        /\ fence \in Fence /\ cursor \in [Aggregates -> Cursor]
        /\ graph \in [Aggregates -> Nat] /\ lead \in [Workers -> [gen : Nat, armed : BOOLEAN]]
    BY <1>2, <1>3, ConstantsAssumption DEF Init
  <2>2. /\ pc \in [Workers -> WorkerPcs] /\ batch \in [Workers -> SUBSET Claim]
        /\ cur \in [Workers -> Claim \cup {None}]
        /\ outcome \in [Workers -> {"none", "ok", "fail", "conflict"}]
    BY DEF Init, WorkerPcs
  <2>3. /\ rpc \in [Recoverers -> RecoverPcs]
        /\ rstate \in [Recoverers -> [gen : Nat, phase : Phases]]
        /\ faults \in 0..MaxFaults /\ upkeep \in 0..MaxUpkeep
    BY ConstantsAssumption DEF Init, RecoverPcs, Phases
  <2> QED BY <1>1, <2>1, <2>2, <2>3 DEF TypeOK
<1>5. RowsExist /\ ContentBounds /\ SettledAtCursor /\ ResetLosesNothing
  BY DEF Init, RowsExist, ContentBounds, SettledAtCursor, ResetLosesNothing, NoRow, NoCursor
<1>6. ClaimsSound /\ FencedOwn /\ OneWorkerPerGeneration /\ AckedIsProjected
  BY DEF Init, ClaimsSound, FencedOwn, OneWorkerPerGeneration, AckedIsProjected, Fenced
<1>7. GenerationsBounded /\ FenceOwned
  BY DEF Init, GenerationsBounded, FenceOwned, NoFence, NoLead
<1>8. RecoveryApart
  BY ConstantsAssumption DEF Init, RecoveryApart, Working
<1> QED BY <1>4, <1>5, <1>6, <1>7, <1>8 DEF IInv

\* Every step keeps the invariant.
LEMMA NextIInv == ASSUME IInv, [Next]_vars PROVE IInv'
<1>1. TypeOK' /\ TypeOK /\ RowsExist /\ ClaimsSound
  BY TypeNext DEF IInv
<1>2. RowsExist'
  BY <1>1, OutboxSteps, DeliveryEffect DEF Unsettling
<1> QED
  BY <1>1, <1>2, ClaimsSoundNext, ContentNext, GenerationNext, FenceOwnedNext, FencedNext,
     RecoveryApartNext, AckedNext, SettledNext DEF IInv

\* The inductive invariant holds in every reachable state.
THEOREM InvariantHolds == Spec => []IInv
<1>1. Init => IInv
  BY InitIInv
<1>2. IInv /\ [Next]_vars => IInv'
  BY NextIInv
<1> QED BY <1>1, <1>2, PTL DEF Spec

\* Every column, cursor and claim keeps its type (all of the handlers).
THEOREM TypeCorrect == Spec => []TypeOK
<1>1. IInv => TypeOK
  BY DEF IInv
<1> QED BY <1>1, InvariantHolds, PTL

\* No acknowledgement outlives its write: a current revision that no longer
\* waits in the outbox is the content Neo4j holds, for every number of
\* workers, recoveries, faults and upkeep (mark_delivered, requeue, reset).
THEOREM SettledIsAlwaysProjected == Spec => []SettledIsProjected
<1>1. IInv => SettledIsProjected
  <2> SUFFICES ASSUME IInv, NEW a \in Aggregates, pgRev[a] > 0, ~Waiting(a)
               PROVE  graph[a] = pgRev[a]
    BY DEF SettledIsProjected, Waiting
  <2>1. cursor[a].rev \in Int /\ graph[a] \in Int /\ pgRev[a] \in Int
    BY DEF IInv, TypeOK, Cursor
  <2>2. cursor[a].rev >= pgRev[a]
    BY DEF IInv, SettledAtCursor
  <2>3. cursor[a].rev <= graph[a] /\ graph[a] <= pgRev[a]
    BY DEF IInv, ContentBounds
  <2> QED BY <2>1, <2>2, <2>3
<1> QED BY <1>1, InvariantHolds, PTL

\* Past the fence a generation belongs to one worker, although an unarmed
\* one passes from owner to owner (acquire_leadership, _ACTIVATE_GENERATION).
THEOREM OneWorkerAlways == Spec => []OneWorkerPerGeneration
<1>1. IInv => OneWorkerPerGeneration
  BY DEF IInv
<1> QED BY <1>1, InvariantHolds, PTL

\* The fence of Neo4j never goes back, and within a generation it never
\* changes hands (_ACTIVATE_GENERATION, _OBSERVE_RECOVERY_FENCE).
THEOREM FenceAlwaysAdvances == Spec => FenceOnlyAdvances
<1>1. IInv /\ [Next]_vars =>
        [/\ fence'.gen >= fence.gen
         /\ fence'.gen = fence.gen => fence'.owner = fence.owner]_vars
  BY FenceNext DEF FenceStep
<1> QED BY <1>1, InvariantHolds, PTL DEF Spec, FenceOnlyAdvances
-----------------------------------------------------------------------------
(* The second invariant, ProtocolInv: the steps it is carried over.        *)

\* What a worker holds only shrinks, except where it claims.
HandKept(v) == InPass(v)' =>
    /\ InPass(v) /\ lead'[v] = lead[v] /\ Held(v)' \subseteq Held(v)

\* Only claim_pending hands a worker claims; what it holds shrinks elsewhere.
LEMMA HandSteps ==
  ASSUME TypeOK, [Next]_vars
  PROVE  \/ \A v \in Workers : HandKept(v)
         \/ \E w \in Workers : ClaimPending(w) /\ \A v \in Workers : v # w => HandKept(v)
<1>1. ASSUME NEW v \in Workers, pc'[v] = pc[v], lead'[v] = lead[v], batch'[v] = batch[v], cur'[v] = cur[v]
      PROVE HandKept(v)
  BY <1>1 DEF HandKept, InPass, Held
<1>2. ASSUME NEW w \in Workers, WorkerStep(w) \/ ApplyFails(w) \/ Abort(w) \/ Crash(w) \/ Stop(w), NEW v \in Workers, v # w
      PROVE pc'[v] = pc[v] /\ lead'[v] = lead[v] /\ batch'[v] = batch[v] /\ cur'[v] = cur[v]
  <2>1. CASE AcquireLeadership(w) \/ AcquireRefused(w) \/ ActivateGeneration(w)
             \/ HasCursorEvidence(w) \/ AdvanceConfirmedGeneration(w)
             \/ ReactivateGeneration(w) \/ ArmLeadership(w)
    BY <1>2, <2>1 DEF AcquireLeadership, AcquireRefused, ActivateGeneration,
       HasCursorEvidence, AdvanceConfirmedGeneration, ReactivateGeneration, ArmLeadership, Goto, TypeOK
  <2>2. CASE ClaimPending(w) \/ RenewClaim(w) \/ Apply(w) \/ ApplyFails(w)
    BY <1>2, <2>2 DEF ClaimPending, RenewClaim, Apply, ApplyFails, Goto, TypeOK
  <2>3. CASE MarkDelivered(w) \/ MarkFailed(w)
    BY <1>2, <2>3 DEF MarkDelivered, MarkFailed, Continue, GiveUp, Goto, TypeOK
  <2>4. CASE ReleaseLeadership(w) \/ StopRelease(w) \/ Abort(w) \/ Crash(w) \/ Stop(w)
    BY <1>2, <2>4 DEF ReleaseLeadership, StopRelease, Abort, Crash, Stop, Drop, Goto, TypeOK
  <2> QED BY <1>2, <2>1, <2>2, <2>3, <2>4 DEF WorkerStep
<1>3. ASSUME NEW w \in Workers, WorkerStep(w) \/ ApplyFails(w) \/ Abort(w) \/ Crash(w) \/ Stop(w), ~ClaimPending(w)
      PROVE HandKept(w)
  <2>1. CASE AcquireLeadership(w) \/ AcquireRefused(w) \/ ActivateGeneration(w)
             \/ HasCursorEvidence(w) \/ AdvanceConfirmedGeneration(w)
             \/ ReactivateGeneration(w) \/ ArmLeadership(w)
    <3>1. ~InPass(w)'
      BY <2>1 DEF AcquireLeadership, AcquireRefused, ActivateGeneration, InPass,
       HasCursorEvidence, AdvanceConfirmedGeneration, ReactivateGeneration, ArmLeadership, Goto, TypeOK
    <3> QED BY <3>1 DEF HandKept
  <2>2. CASE RenewClaim(w)
    <3>1. pc[w] = "next" /\ lead' = lead
      BY <2>2 DEF RenewClaim
    <3>2. \/ pc'[w] = "release"
          \/ cur'[w] \in batch[w] /\ batch'[w] \subseteq batch[w]
      BY <2>2 DEF RenewClaim, Goto, TypeOK
    <3> QED BY <3>1, <3>2 DEF HandKept, InPass, Held
  <2>3. CASE Apply(w) \/ ApplyFails(w)
    <3>1. pc[w] = "apply" /\ lead' = lead /\ pc'[w] \in {"mark", "release"}
      BY <2>3 DEF Apply, ApplyFails, Goto, TypeOK
    <3>2. batch'[w] \subseteq batch[w]
      BY <2>3 DEF Apply, ApplyFails, TypeOK
    <3> QED BY <3>1, <3>2 DEF HandKept, InPass, Held
  <2>4. CASE MarkDelivered(w) \/ MarkFailed(w)
    <3>1. pc[w] = "mark" /\ lead' = lead /\ pc'[w] \in {"idle", "next", "release"}
      BY <2>4 DEF MarkDelivered, MarkFailed, Continue, GiveUp, Goto, TypeOK
    <3>2. batch'[w] \subseteq batch[w]
      BY <2>4 DEF MarkDelivered, MarkFailed, Continue, GiveUp, TypeOK
    <3> QED BY <3>1, <3>2 DEF HandKept, InPass, Held
  <2>5. CASE ReleaseLeadership(w) \/ StopRelease(w) \/ Abort(w) \/ Crash(w) \/ Stop(w)
    <3>1. ~InPass(w)'
      BY <2>5 DEF ReleaseLeadership, StopRelease, Abort, Crash, Stop, InPass, Goto, TypeOK
    <3> QED BY <3>1 DEF HandKept
  <2> QED BY <1>3, <2>1, <2>2, <2>3, <2>4, <2>5 DEF WorkerStep
<1>4. ASSUME UNCHANGED <<pc, lead, batch, cur>> PROVE \A v \in Workers : HandKept(v)
  BY <1>1, <1>4
<1>5. ASSUME NEW p \in Recoverers, RecoveryStep(p) \/ RecoveryCrash(p) PROVE UNCHANGED <<pc, lead, batch, cur>>
  BY <1>5 DEF RecoveryStep, RecoveryCrash, PrepareRecovery, ResetForRecovery, MarkNeoReady,
     FinalizeNeo, FinalizePg, workerVars
<1>6. ASSUME LeaseExpires \/ RequeueFullProjection \/ UNCHANGED vars PROVE UNCHANGED <<pc, lead, batch, cur>>
  BY <1>6 DEF LeaseExpires, RequeueFullProjection, vars, workerVars
<1>7. ASSUME NEW a \in Aggregates, Stage(a) \/ Restage(a) PROVE UNCHANGED <<pc, lead, batch, cur>>
  BY <1>7 DEF Stage, Restage, workerVars
<1>8. ASSUME NEW a \in Aggregates, NEW r \in Revs,
             Purge(a, r) \/ ClaimExpires(a, r) \/ BackoffElapses(a, r)
      PROVE UNCHANGED <<pc, lead, batch, cur>>
  BY <1>8 DEF Purge, ClaimExpires, BackoffElapses, workerVars
<1>9. ASSUME NEW w \in Workers, WorkerStep(w) \/ ApplyFails(w) \/ Abort(w) \/ Crash(w) \/ Stop(w)
      PROVE  \/ \A v \in Workers : HandKept(v)
             \/ ClaimPending(w) /\ \A v \in Workers : v # w => HandKept(v)
  BY <1>1, <1>2, <1>3, <1>9
<1> QED BY <1>4, <1>5, <1>6, <1>7, <1>8, <1>9 DEF Next

\* apply committed to Neo4j, with or without an answer.
Projects(w) == /\ pc[w] = "apply" /\ FenceAdmits(w) /\ Project(w, cur[w])
               /\ UNCHANGED <<pgVars, fence, lead, cur, recVars, upkeep>>

\* Only apply and the reset of a recovery write nodes and cursors.
LEMMA GraphSteps ==
  ASSUME [Next]_vars
  PROVE  \/ UNCHANGED <<cursor, graph>>
         \/ \E w \in Workers : Projects(w)
         \/ \E p \in Recoverers : ResetForRecovery(p)
<1>2. ASSUME NEW w \in Workers, Apply(w) \/ ApplyFails(w) PROVE Projects(w) \/ UNCHANGED <<cursor, graph>>
  BY <1>2 DEF Apply, ApplyFails, Projects, budget
<1>4. ASSUME NEW w \in Workers, WorkerStep(w) PROVE UNCHANGED <<cursor, graph>> \/ Apply(w)
  BY <1>4 DEF WorkerStep, AcquireLeadership, AcquireRefused, ActivateGeneration,
     HasCursorEvidence, AdvanceConfirmedGeneration, ReactivateGeneration, ArmLeadership,
     ClaimPending, RenewClaim, MarkDelivered, MarkFailed, ReleaseLeadership, StopRelease, neoVars
<1>5. ASSUME NEW w \in Workers, Abort(w) \/ Crash(w) \/ Stop(w) PROVE UNCHANGED <<cursor, graph>>
  BY <1>5 DEF Abort, Crash, Stop, neoVars
<1>6. ASSUME NEW p \in Recoverers, RecoveryStep(p) \/ RecoveryCrash(p)
      PROVE UNCHANGED <<cursor, graph>> \/ ResetForRecovery(p)
  BY <1>6 DEF RecoveryStep, RecoveryCrash, PrepareRecovery, MarkNeoReady, FinalizeNeo,
     FinalizePg, neoVars
<1>7. ASSUME LeaseExpires \/ RequeueFullProjection \/ UNCHANGED vars PROVE UNCHANGED <<cursor, graph>>
  BY <1>7 DEF LeaseExpires, RequeueFullProjection, vars, neoVars
<1>8. ASSUME NEW a \in Aggregates, Stage(a) \/ Restage(a) PROVE UNCHANGED <<cursor, graph>>
  BY <1>8 DEF Stage, Restage, neoVars
<1>9. ASSUME NEW a \in Aggregates, NEW r \in Revs,
             Purge(a, r) \/ ClaimExpires(a, r) \/ BackoffElapses(a, r)
      PROVE UNCHANGED <<cursor, graph>>
  BY <1>9 DEF Purge, ClaimExpires, BackoffElapses, neoVars
<1> QED BY <1>2, <1>4, <1>5, <1>6, <1>7, <1>8, <1>9 DEF Next

\* A claim takes its content at the revision of that moment.
LEMMA ClaimReads ==
  ASSUME TypeOK, NEW w \in Workers, ClaimPending(w), InPass(w)'
  PROVE  /\ \A c \in Held(w)' : /\ c.agg \in Aggregates /\ c.rev \in Revs
                                /\ c.snap = pgRev[c.agg] /\ c.ev = outbox[c.agg][c.rev].ev
                                /\ outbox[c.agg][c.rev].st = "pending"
         /\ UNCHANGED <<pgRev, fence, cursor, graph, lead>>
<1>1. ArmedLeader(w) /\ pc'[w] = "next" /\ UNCHANGED <<pgRev, fence, cursor, graph, lead>>
  BY DEF ClaimPending, InPass, Goto, TypeOK, neoVars
<1>2. PICK S \in Batches(w) : batch'[w] = {ClaimOf(s[1], s[2]) : s \in S}
  BY <1>1 DEF ClaimPending, TypeOK
<1>3. Held(w)' = {ClaimOf(s[1], s[2]) : s \in S}
  BY <1>1, <1>2 DEF Held
<1>4. ASSUME NEW s \in S, NEW c, c = ClaimOf(s[1], s[2])
      PROVE  /\ c.agg \in Aggregates /\ c.rev \in Revs
             /\ c.snap = pgRev[c.agg] /\ c.ev = outbox[c.agg][c.rev].ev
             /\ outbox[c.agg][c.rev].st = "pending"
  <2>1. s[1] \in Aggregates /\ s[2] \in Revs /\ outbox[s[1]][s[2]].st = "pending"
    BY DEF Batches, Candidates, Claimable, Outstanding
  <2>2. c.agg = s[1] /\ c.rev = s[2] /\ c.snap = pgRev[s[1]] /\ c.ev = outbox[s[1]][s[2]].ev
    BY <1>4 DEF ClaimOf
  <2> QED BY <2>1, <2>2
<1> QED BY <1>1, <1>3, <1>4

\* What a worker in its pass holds are sound claims.
LEMMA HeldSound ==
  ASSUME TypeOK, ClaimsSound, NEW w \in Workers, NEW c \in Held(w)
  PROVE  /\ c \in Claim /\ SoundClaim(c) /\ c.agg \in Aggregates
         /\ c.rev \in Revs /\ c.snap \in Nat
<1>1. c \in Claim /\ SoundClaim(c)
  BY DEF Held, ClaimsSound, TypeOK
<1> QED BY <1>1 DEF Claim

\* An apply writes the content of the claim, or leaves the graph alone.
LEMMA ProjectWrites ==
  ASSUME TypeOK, ClaimsSound, NEW w \in Workers, Projects(w)
  PROVE  /\ cur[w] \in Held(w)
         /\ \/ UNCHANGED graph
            \/ graph' = [graph EXCEPT ![cur[w].agg] = cur[w].snap]
  BY DEF Projects, Project, Held

\* A worker behind the fence never holds content older than the graph's.
LEMMA SnapsNext == ASSUME ProtocolInv, [Next]_vars PROVE SnapsFresh'
<1>a. /\ TypeOK /\ TypeOK' /\ ClaimsSound /\ ClaimsSound' /\ ContentBounds /\ FencedOwn /\ SnapsFresh
  BY NextIInv DEF IInv, ProtocolInv
<1>t. /\ fence.gen \in Int /\ fence'.gen \in Int
      /\ \A v \in Workers : lead[v].gen \in Nat
      /\ \A a \in Aggregates : graph[a] \in Nat /\ graph'[a] \in Nat /\ pgRev[a] \in Nat
  BY <1>a, ConstantsAssumption DEF TypeOK, Fence
<1>f. fence'.gen >= fence.gen
  BY FenceNext DEF FenceStep, ProtocolInv
<1>1. ASSUME NEW v \in Workers, InPass(v)', HandKept(v)
      PROVE  /\ \A c, d \in Held(v)' : c.agg = d.agg => c.snap = d.snap
             /\ Held(v)' \subseteq Held(v) /\ lead'[v] = lead[v] /\ InPass(v)
             /\ fence'.gen = lead'[v].gen =>
                   /\ fence.gen = lead[v].gen /\ fence.owner = v
                   /\ \A c \in Held(v)' : graph[c.agg] <= c.snap
  <2>1. InPass(v) /\ lead'[v] = lead[v] /\ Held(v)' \subseteq Held(v)
    BY <1>1 DEF HandKept
  <2>2. \/ fence.gen > lead[v].gen
        \/ fence.gen = lead[v].gen /\ fence.owner = v
    BY <1>a, <2>1 DEF FencedOwn, Fenced, InPass
  <2>3. fence'.gen = lead'[v].gen => fence.gen = lead[v].gen /\ fence.owner = v
    BY <1>t, <1>f, <2>1, <2>2
  <2> QED BY <1>a, <2>1, <2>3 DEF SnapsFresh
<1>2. ASSUME NEW w \in Workers, ClaimPending(w), InPass(w)'
      PROVE  /\ \A c, d \in Held(w)' : c.agg = d.agg => c.snap = d.snap
             /\ \A c \in Held(w)' : graph'[c.agg] <= c.snap
  BY <1>a, <1>2, ClaimReads DEF ContentBounds
<1>3. ASSUME NEW v \in Workers, InPass(v)', HandKept(v), fence'.gen = lead'[v].gen, NEW c \in Held(v)'
      PROVE  graph'[c.agg] <= c.snap
  <2>1. /\ c \in Held(v) /\ graph[c.agg] <= c.snap /\ fence.gen = lead[v].gen /\ fence.owner = v
        /\ InPass(v)
    BY <1>1, <1>3
  <2>2. c.agg \in Aggregates /\ c.snap \in Nat
    BY <1>a, <2>1, HeldSound
  <2>3. CASE UNCHANGED graph
    BY <2>1, <2>3
  <2>4. ASSUME NEW p \in Recoverers, ResetForRecovery(p) PROVE graph'[c.agg] <= c.snap
    <3>1. graph'[c.agg] = graph[c.agg] \/ graph'[c.agg] = 0
      BY <1>a, <2>2, <2>4, ResetEffect
    <3> QED BY <2>1, <2>2, <3>1
  <2>5. ASSUME NEW w \in Workers, Projects(w) PROVE graph'[c.agg] <= c.snap
    <3>1. w = v
      BY <2>1, <2>5 DEF Projects, FenceAdmits
    <3>2. cur[w] \in Held(v) /\ (UNCHANGED graph \/ graph' = [graph EXCEPT ![cur[w].agg] = cur[w].snap])
      BY <1>a, <2>5, <3>1, ProjectWrites
    <3>3. cur[w].agg = c.agg => cur[w].snap = c.snap
      BY <1>a, <2>1, <3>2 DEF SnapsFresh
    <3>4. graph'[c.agg] = graph[c.agg] \/ graph'[c.agg] = c.snap
      BY <1>a, <2>2, <3>2, <3>3 DEF TypeOK
    <3> QED BY <2>1, <2>2, <3>4
  <2> QED BY <2>3, <2>4, <2>5, GraphSteps
<1> QED BY <1>a, <1>1, <1>2, <1>3, HandSteps DEF SnapsFresh

\* A claim the fence admits moves its aggregate forward in the graph.
LEMMA ProjectForward ==
  ASSUME ProtocolInv, NEW w \in Workers, Projects(w)
  PROVE  \/ UNCHANGED graph
         \/ \E a \in Aggregates : \E r \in (graph[a] + 1)..pgRev[a] : graph' = [graph EXCEPT ![a] = r]
<1>a. TypeOK /\ ClaimsSound /\ SnapsFresh
  BY DEF ProtocolInv, IInv
<1> DEFINE c == cur[w]
<1>1. c \in Held(w) /\ (UNCHANGED graph \/ graph' = [graph EXCEPT ![c.agg] = c.snap])
  BY <1>a, ProjectWrites
<1>2. /\ SoundClaim(c) /\ c.agg \in Aggregates /\ c.snap \in Nat
  BY <1>a, <1>1, HeldSound
<1>3. graph[c.agg] <= c.snap
  BY <1>a, <1>1 DEF SnapsFresh, Projects, FenceAdmits, InPass
<1>4. graph[c.agg] \in Nat /\ pgRev[c.agg] \in Nat /\ c.snap <= pgRev[c.agg]
  BY <1>a, <1>2, ConstantsAssumption DEF TypeOK, SoundClaim
<1> HIDE DEF c
<1>5. CASE c.snap = graph[c.agg]
  BY <1>a, <1>1, <1>2, <1>5 DEF TypeOK
<1>6. CASE c.snap # graph[c.agg]
  <2>1. c.snap \in (graph[c.agg] + 1)..pgRev[c.agg]
    BY <1>2, <1>3, <1>4, <1>6
  <2> QED BY <1>1, <1>2, <2>1
<1> QED BY <1>5, <1>6

\* Only a worker's activation opens the graph, and a reset empties it.
LEMMA EmptyNext == ASSUME ProtocolInv, [Next]_vars PROVE EmptyForRecovery'
<1>a. TypeOK /\ EmptyForRecovery
  BY DEF ProtocolInv, IInv
<1>1. ASSUME fence'.owner = fence.owner, UNCHANGED graph PROVE EmptyForRecovery'
  BY <1>a, <1>1 DEF EmptyForRecovery
<1>2. ASSUME NEW p \in Recoverers, ResetForRecovery(p) PROVE EmptyForRecovery'
  BY <1>a, <1>1, <1>2, ResetEffect DEF EmptyForRecovery
<1>3. ASSUME NEW w \in Workers, Projects(w) PROVE EmptyForRecovery'
  BY <1>3 DEF Projects, FenceAdmits, EmptyForRecovery
<1>4. ASSUME NEW w \in Workers, ActivateGeneration(w) \/ ReactivateGeneration(w) PROVE EmptyForRecovery'
  BY <1>a, <1>1, <1>4, ActivateEffect DEF EmptyForRecovery, Data
<1>5. ASSUME NEW w \in Workers,
             \/ AcquireLeadership(w) \/ AcquireRefused(w) \/ AdvanceConfirmedGeneration(w)
             \/ ArmLeadership(w) \/ ReleaseLeadership(w) \/ StopRelease(w)
      PROVE UNCHANGED fence
  BY <1>5 DEF AcquireLeadership, AcquireRefused, AdvanceConfirmedGeneration, ArmLeadership,
     ReleaseLeadership, StopRelease, neoVars
<1>6. ASSUME NEW p \in Recoverers, RecoveryStep(p) PROVE ResetForRecovery(p) \/ fence'.owner = fence.owner
  BY <1>a, <1>6, FinalizeNeoEffect DEF RecoveryStep, PrepareRecovery, MarkNeoReady, FinalizePg, neoVars
<1>7. LeaseExpires \/ Quiet => UNCHANGED fence
  BY DEF LeaseExpires, Quiet, neoVars
<1> QED BY <1>a, <1>1, <1>2, <1>3, <1>4, <1>5, <1>6, <1>7, GraphSteps, ControlSteps

\* What a step outside the recovery may do to the lease row: it keeps the
\* interlock, moves the generation only without one, and arms a generation
\* only for the worker whose activation is behind it.
LeaseKept ==
    /\ lease'.phase = lease.phase /\ lease'.rec = lease.rec
    /\ lease'.gen = lease.gen \/ lease.rec = None
    /\ lease'.armed => /\ lease'.gen = lease.gen
                       /\ \/ lease.armed
                          \/ \E w \in Workers : pc[w] = "arm" /\ lead[w].gen = lease.gen

\* acquire, advance, arm, release and expiry respect the interlock.
LEMMA LeaseSteps ==
  ASSUME TypeOK, [Next]_vars, \A p \in Recoverers : ~RecoveryStep(p)
  PROVE  LeaseKept /\ UNCHANGED rstate
<1>a. lease \in Lease
  BY DEF TypeOK
<1>1. CASE Quiet
  BY <1>1 DEF Quiet, LeaseKept
<1>2. ASSUME NEW w \in Workers, AcquireLeadership(w) PROVE LeaseKept /\ UNCHANGED rstate
  <2>1. lease.rec = None /\ lease' = AcquiredLease(w) /\ UNCHANGED rstate
    BY <1>2 DEF AcquireLeadership, MayAcquire, recVars
  <2>2. CASE lease' = lease
    BY <2>1, <2>2 DEF LeaseKept
  <2>3. CASE lease' = [lease EXCEPT !.owner = w, !.live = TRUE, !.armed = FALSE,
                       !.gen = IF lease.armed THEN @ + 1 ELSE @]
    <3>1. lease'.phase = lease.phase /\ lease'.rec = lease.rec
      BY <1>a, <2>3 DEF Lease
    <3>2. ~lease'.armed
      BY <1>a, <2>3 DEF Lease
    <3> QED BY <2>1, <3>1, <3>2 DEF LeaseKept
  <2> QED BY <2>1, <2>2, <2>3 DEF AcquiredLease
<1>3. ASSUME NEW w \in Workers,
             AcquireRefused(w) \/ ActivateGeneration(w) \/ ReactivateGeneration(w)
      PROVE LeaseKept /\ UNCHANGED rstate
  BY <1>3 DEF AcquireRefused, ActivateGeneration, ReactivateGeneration, pgVars, recVars, LeaseKept
<1>4. ASSUME NEW w \in Workers, AdvanceConfirmedGeneration(w) PROVE LeaseKept /\ UNCHANGED rstate
  <2>0. UNCHANGED rstate
    BY <1>4 DEF AdvanceConfirmedGeneration, recVars
  <2>1. CASE lease' = lease
    BY <2>0, <2>1 DEF LeaseKept
  <2>2. CASE MayAdvance(w) /\ lease' = [lease EXCEPT !.gen = @ + 1]
    <3>1. lease'.phase = lease.phase /\ lease'.rec = lease.rec
      BY <1>a, <2>2 DEF Lease
    <3>2. lease'.armed = lease.armed
      BY <1>a, <2>2 DEF Lease
    <3>3. lease.rec = None /\ ~lease.armed
      BY <2>2 DEF MayAdvance, Leader
    <3> QED BY <2>0, <3>1, <3>2, <3>3 DEF LeaseKept
  <2> QED BY <1>4, <2>1, <2>2 DEF AdvanceConfirmedGeneration
<1>5. ASSUME NEW w \in Workers, ArmLeadership(w) PROVE LeaseKept /\ UNCHANGED rstate
  <2>0. UNCHANGED rstate /\ pc[w] = "arm"
    BY <1>5 DEF ArmLeadership, recVars
  <2>1. CASE lease' = lease
    BY <2>0, <2>1 DEF LeaseKept
  <2>2. CASE Leader(w) /\ lease' = [lease EXCEPT !.armed = TRUE]
    <3>1. lease'.phase = lease.phase /\ lease'.rec = lease.rec /\ lease'.gen = lease.gen
      BY <1>a, <2>2 DEF Lease
    <3>2. lead[w].gen = lease.gen
      BY <2>2 DEF Leader
    <3> QED BY <2>0, <3>1, <3>2 DEF LeaseKept
  <2> QED BY <1>5, <2>1, <2>2 DEF ArmLeadership
<1>6. ASSUME NEW w \in Workers, ReleaseLeadership(w) \/ StopRelease(w) PROVE LeaseKept /\ UNCHANGED rstate
  <2>0. UNCHANGED rstate /\ lease' = ReleasedLease(w)
    BY <1>6 DEF ReleaseLeadership, StopRelease, recVars
  <2>1. /\ lease'.phase = lease.phase /\ lease'.rec = lease.rec /\ lease'.gen = lease.gen
    BY <1>a, <2>0 DEF ReleasedLease, Lease
  <2>2. lease'.armed = lease.armed
    BY <1>a, <2>0 DEF ReleasedLease, Lease
  <2> QED BY <2>0, <2>1, <2>2 DEF LeaseKept
<1>7. ASSUME LeaseExpires PROVE LeaseKept /\ UNCHANGED rstate
  <2>0. UNCHANGED rstate /\ lease' = [lease EXCEPT !.live = FALSE]
    BY <1>7 DEF LeaseExpires, recVars
  <2>1. /\ lease'.phase = lease.phase /\ lease'.rec = lease.rec /\ lease'.gen = lease.gen
    BY <1>a, <2>0 DEF Lease
  <2>2. lease'.armed = lease.armed
    BY <1>a, <2>0 DEF Lease
  <2> QED BY <2>0, <2>1, <2>2 DEF LeaseKept
<1> QED BY <1>1, <1>2, <1>3, <1>4, <1>5, <1>6, <1>7, ControlSteps DEF Quiet

\* A recovery process moves by its own steps, or starts over after a crash.
LEMMA RecoveryPcSteps ==
  ASSUME TypeOK, [Next]_vars, \A p \in Recoverers : ~RecoveryStep(p)
  PROVE  \A q \in Recoverers : rpc'[q] \in {rpc[q], "start"}
<1>1. ASSUME NEW p \in Recoverers, RecoveryCrash(p) PROVE \A q \in Recoverers : rpc'[q] \in {rpc[q], "start"}
  BY <1>1 DEF RecoveryCrash, RGoto, TypeOK
<1>2. ASSUME NEW w \in Workers, WorkerStep(w) PROVE UNCHANGED rpc
  BY <1>2 DEF WorkerStep, AcquireLeadership, AcquireRefused, ActivateGeneration,
     HasCursorEvidence, AdvanceConfirmedGeneration, ReactivateGeneration, ArmLeadership,
     ClaimPending, RenewClaim, Apply, MarkDelivered, MarkFailed, ReleaseLeadership, StopRelease, recVars
<1>3. ASSUME NEW w \in Workers, ApplyFails(w) \/ Abort(w) \/ Crash(w) \/ Stop(w) PROVE UNCHANGED rpc
  BY <1>3 DEF ApplyFails, Abort, Crash, Stop, recVars
<1>4. ASSUME LeaseExpires \/ RequeueFullProjection \/ UNCHANGED vars PROVE UNCHANGED rpc
  BY <1>4 DEF LeaseExpires, RequeueFullProjection, vars, recVars
<1>5. ASSUME NEW a \in Aggregates, Stage(a) \/ Restage(a) PROVE UNCHANGED rpc
  BY <1>5 DEF Stage, Restage, recVars
<1>6. ASSUME NEW a \in Aggregates, NEW r \in Revs,
             Purge(a, r) \/ ClaimExpires(a, r) \/ BackoffElapses(a, r)
      PROVE UNCHANGED rpc
  BY <1>6 DEF Purge, ClaimExpires, BackoffElapses, recVars
<1> QED BY <1>1, <1>2, <1>3, <1>4, <1>5, <1>6 DEF Next

\* prepare_projection_recovery: resumed at the phase the row has, answered
\* as completed, or started unarmed under a generation of its own.
LEMMA PreparePhases ==
  ASSUME TypeOK, NEW p \in Recoverers, PrepareRecovery(p)
  PROVE  /\ \A q \in Recoverers : q # p => rpc'[q] = rpc[q] /\ rstate'[q] = rstate[q]
         /\ UNCHANGED <<fence, lead, pc>>
         /\ \/ UNCHANGED <<lease, rstate>> /\ rpc'[p] = "done"
            \/ /\ lease.rec # None /\ lease'.rec = lease.rec /\ lease'.phase = lease.phase
               /\ lease'.gen = lease.gen /\ lease'.armed = lease.armed
               /\ rstate'[p].gen = lease.gen /\ rpc'[p] = "reset"
            \/ /\ lease.rec = None /\ lease'.rec # None /\ lease'.phase = "prepared"
               /\ lease'.gen = lease.gen + 1 /\ ~lease'.armed /\ rpc'[p] = "reset"
<1>a. lease \in Lease
  BY DEF TypeOK
<1>b. RecoveryOf[p] # None
  BY ConstantsAssumption
<1>1. /\ \A q \in Recoverers : q # p => rpc'[q] = rpc[q] /\ rstate'[q] = rstate[q]
      /\ UNCHANGED <<fence, lead, pc>>
  BY DEF PrepareRecovery, RGoto, TypeOK, neoVars, workerVars
<1>2. CASE /\ lease.rec = RecoveryOf[p] /\ RGoto(p, "reset")
           /\ lease' = [lease EXCEPT !.live = TRUE]
           /\ rstate' = [rstate EXCEPT ![p] = [gen |-> lease.gen, phase |-> lease.phase]]
  <2>1. /\ lease'.rec = lease.rec /\ lease'.phase = lease.phase /\ lease'.gen = lease.gen
    BY <1>2, <1>a DEF Lease
  <2>2. lease'.armed = lease.armed
    BY <1>2, <1>a DEF Lease
  <2>3. rstate'[p].gen = lease.gen /\ rpc'[p] = "reset"
    BY <1>2 DEF TypeOK, RGoto
  <2> QED BY <1>1, <1>2, <1>b, <2>1, <2>2, <2>3
<1>3. CASE UNCHANGED <<lease, rstate>> /\ RGoto(p, "done")
  BY <1>1, <1>3 DEF TypeOK, RGoto
<1>4. CASE lease.rec = None /\ lease' = StartedLease(RecoveryOf[p]) /\ RGoto(p, "reset")
  <2>1. lease'.rec = RecoveryOf[p] /\ lease'.gen = lease.gen + 1 /\ lease'.phase = "prepared"
    BY <1>4, <1>a DEF Lease, StartedLease
  <2>2. ~lease'.armed
    BY <1>4, <1>a DEF Lease, StartedLease
  <2>3. rpc'[p] = "reset"
    BY <1>4 DEF TypeOK, RGoto
  <2> QED BY <1>1, <1>4, <1>b, <2>1, <2>2, <2>3
<1> QED BY <1>2, <1>3, <1>4 DEF PrepareRecovery

\* mark_recovery_neo_ready: refused, or past the wipe by the interlock's holder.
LEMMA NeoReadyPhases ==
  ASSUME TypeOK, NEW p \in Recoverers, MarkNeoReady(p)
  PROVE  /\ \A q \in Recoverers : q # p => rpc'[q] = rpc[q] /\ rstate'[q] = rstate[q]
         /\ UNCHANGED <<fence, lead, pc>> /\ rpc[p] = "ready"
         /\ \/ UNCHANGED <<lease, rstate>> /\ rpc'[p] = "start"
            \/ /\ lease.rec # None /\ lease'.rec = lease.rec /\ lease'.phase = "neo_ready"
               /\ lease'.gen = lease.gen /\ lease.gen = rstate[p].gen
               /\ rstate'[p].gen = rstate[p].gen /\ rpc'[p] = "finneo"
<1>a. lease \in Lease
  BY DEF TypeOK
<1>b. RecoveryOf[p] # None
  BY ConstantsAssumption
<1>1. /\ \A q \in Recoverers : q # p => rpc'[q] = rpc[q] /\ rstate'[q] = rstate[q]
      /\ UNCHANGED <<fence, lead, pc>> /\ rpc[p] = "ready"
  BY DEF MarkNeoReady, RGoto, TypeOK, neoVars, workerVars
<1>2. CASE UNCHANGED <<lease, rstate>> /\ RGoto(p, "start")
  BY <1>1, <1>2 DEF TypeOK, RGoto
<1>3. CASE /\ HoldsRecovery(p) /\ RGoto(p, "finneo")
           /\ lease' = [lease EXCEPT !.phase = "neo_ready", !.armed = TRUE]
           /\ rstate' = [rstate EXCEPT ![p].phase = "neo_ready"]
  <2>1. /\ lease'.rec = lease.rec /\ lease'.phase = "neo_ready" /\ lease'.gen = lease.gen
    BY <1>3, <1>a DEF Lease
  <2>2. rstate'[p].gen = rstate[p].gen /\ rpc'[p] = "finneo"
    BY <1>3 DEF TypeOK, RGoto
  <2>3. lease.rec # None /\ lease.gen = rstate[p].gen
    BY <1>3, <1>b DEF HoldsRecovery
  <2> QED BY <1>1, <2>1, <2>2, <2>3
<1> QED BY <1>2, <1>3 DEF MarkNeoReady

\* finalize_projection_recovery releases only an interlock that is ready.
LEMMA FinalizePgPhases ==
  ASSUME TypeOK, NEW p \in Recoverers, FinalizePg(p)
  PROVE  /\ \A q \in Recoverers : q # p => rpc'[q] = rpc[q]
         /\ UNCHANGED <<fence, lead, pc, rstate>> /\ rpc'[p] \in {"start", "done"}
         /\ \/ UNCHANGED lease
            \/ /\ lease.rec # None /\ lease.phase = "neo_ready"
               /\ lease'.rec = None /\ lease'.gen = lease.gen
<1>a. lease \in Lease
  BY DEF TypeOK
<1>b. RecoveryOf[p] # None
  BY ConstantsAssumption
<1>1. /\ \A q \in Recoverers : q # p => rpc'[q] = rpc[q]
      /\ UNCHANGED <<fence, lead, pc, rstate>> /\ rpc'[p] \in {"start", "done"}
  BY DEF FinalizePg, RGoto, TypeOK, neoVars, workerVars
<1>2. CASE /\ HoldsRecovery(p) /\ lease.phase = "neo_ready"
           /\ lease' = [lease EXCEPT !.lastDone = lease.rec, !.rec = None,
                                    !.phase = "idle", !.owner = None, !.live = FALSE]
  <2>1. lease'.rec = None /\ lease'.gen = lease.gen
    BY <1>2, <1>a DEF Lease
  <2> QED BY <1>1, <1>2, <1>b, <2>1 DEF HoldsRecovery
<1> QED BY <1>1, <1>2 DEF FinalizePg

\* reset_for_recovery and finalize_recovery move the process and the fence only.
LEMMA NeoPhases ==
  ASSUME TypeOK, NEW p \in Recoverers, ResetForRecovery(p) \/ FinalizeNeo(p)
  PROVE  /\ \A q \in Recoverers : q # p => rpc'[q] = rpc[q]
         /\ UNCHANGED <<lease, lead, pc, rstate>>
         /\ \/ rpc'[p] = "start" /\ UNCHANGED fence
            \/ /\ rpc'[p] \in {"ready", "finneo"} /\ fence'.gen = rstate[p].gen
               /\ ResetForRecovery(p)
            \/ /\ rpc'[p] = "finpg" /\ fence'.gen = fence.gen
               /\ fence.gen = rstate[p].gen
<1>1. /\ \A q \in Recoverers : q # p => rpc'[q] = rpc[q]
      /\ UNCHANGED <<lease, lead, pc, rstate>>
  BY DEF ResetForRecovery, FinalizeNeo, RGoto, TypeOK, pgVars, workerVars
<1>2. CASE ResetForRecovery(p)
  BY <1>1, <1>2 DEF ResetForRecovery, RGoto, TypeOK, neoVars
<1>3. CASE FinalizeNeo(p)
  <2>1. fence'.gen = fence.gen
    BY <1>3, FinalizeNeoEffect
  <2> QED BY <1>1, <1>3, <2>1 DEF FinalizeNeo, FinalizeNeoAccepted, RGoto, TypeOK
<1> QED BY <1>2, <1>3

\* A recovery is fenced before it declares itself ready, and before its
\* interlock is released.
LEMMA RecoveryFencedNext == ASSUME ProtocolInv, [Next]_vars PROVE RecoveryFenced'
<1>a. TypeOK /\ GenerationsBounded /\ RecoveryFenced
  BY DEF ProtocolInv, IInv
<1>t. /\ lease.gen \in Nat /\ fence.gen \in Int /\ fence'.gen \in Int /\ lease'.gen \in Nat
      /\ \A s \in Recoverers : rstate[s].gen \in Nat
  BY <1>a, NextIInv DEF TypeOK, Lease, Fence, ProtocolInv, IInv
<1>f. fence'.gen >= fence.gen
  BY FenceNext DEF FenceStep, ProtocolInv
<1>1. CASE \A p \in Recoverers : ~RecoveryStep(p)
  <2>1. LeaseKept /\ UNCHANGED rstate /\ \A q \in Recoverers : rpc'[q] \in {rpc[q], "start"}
    BY <1>a, <1>1, LeaseSteps, RecoveryPcSteps
  <2> QED BY <1>a, <1>t, <1>f, <2>1 DEF RecoveryFenced, Recovering, LeaseKept
<1>2. ASSUME NEW p \in Recoverers, PrepareRecovery(p) PROVE RecoveryFenced'
  <2>1. CASE UNCHANGED <<lease, rstate, fence>> /\ rpc'[p] = "done"
    BY <1>a, <1>2, <2>1, PreparePhases DEF RecoveryFenced, Recovering
  <2>2. CASE /\ lease.rec # None /\ lease'.rec = lease.rec /\ lease'.phase = lease.phase
             /\ lease'.gen = lease.gen /\ rstate'[p].gen = lease.gen /\ rpc'[p] = "reset"
    <3>0. lease.phase \in Phases
      BY <1>a DEF TypeOK, Lease
    <3>1. fence.gen < lease.gen => lease.phase = "prepared"
      BY <1>a, <1>t, <2>2, <3>0 DEF RecoveryFenced, Phases
    <3> QED BY <1>a, <1>t, <1>2, <2>2, <3>1, PreparePhases DEF RecoveryFenced, Recovering
  <2>3. CASE lease.rec = None /\ lease'.rec # None /\ lease'.phase = "prepared" /\ rpc'[p] = "reset"
    BY <1>a, <1>2, <2>3, PreparePhases DEF RecoveryFenced, Recovering
  <2> QED BY <1>a, <1>2, <2>1, <2>2, <2>3, PreparePhases
<1>3. ASSUME NEW p \in Recoverers, MarkNeoReady(p) PROVE RecoveryFenced'
  <2>1. CASE UNCHANGED <<lease, rstate, fence>> /\ rpc'[p] = "start"
    BY <1>a, <1>3, <2>1, NeoReadyPhases DEF RecoveryFenced, Recovering
  <2>2. CASE /\ lease.rec # None /\ lease'.rec = lease.rec /\ lease'.phase = "neo_ready"
             /\ lease'.gen = lease.gen /\ lease.gen = rstate[p].gen
             /\ rstate'[p].gen = rstate[p].gen /\ rpc'[p] = "finneo"
    <3>1. fence.gen >= lease.gen
      BY <1>a, <1>t, <1>3, <2>2, NeoReadyPhases DEF RecoveryFenced, Recovering
    <3>2. \A q \in Recoverers : rstate'[q].gen <= fence'.gen
      BY <1>a, <1>t, <1>3, <2>2, <3>1, NeoReadyPhases DEF GenerationsBounded
    <3> QED BY <1>a, <1>t, <1>3, <2>2, <3>1, <3>2, NeoReadyPhases DEF RecoveryFenced
  <2> QED BY <1>a, <1>3, <2>1, <2>2, NeoReadyPhases
<1>4. ASSUME NEW p \in Recoverers, FinalizePg(p) PROVE RecoveryFenced'
  BY <1>a, <1>4, FinalizePgPhases DEF RecoveryFenced, Recovering
<1>5. ASSUME NEW p \in Recoverers, ResetForRecovery(p) \/ FinalizeNeo(p) PROVE RecoveryFenced'
  BY <1>a, <1>t, <1>f, <1>5, NeoPhases DEF RecoveryFenced, Recovering
<1> QED BY <1>1, <1>2, <1>3, <1>4, <1>5 DEF RecoveryStep

\* arm_leadership and mark_recovery_neo_ready arm what the fence has reached.
LEMMA ArmedReachedNext == ASSUME ProtocolInv, [Next]_vars PROVE ArmedReached'
<1>a. TypeOK /\ GenerationsBounded /\ RecoveryFenced /\ FencedOwn /\ ArmedReached
  BY DEF ProtocolInv, IInv
<1>t. /\ lease.gen \in Nat /\ fence.gen \in Int /\ fence'.gen \in Int /\ lease'.gen \in Nat
      /\ \A s \in Recoverers : rstate[s].gen \in Nat
      /\ \A v \in Workers : lead[v].gen \in Nat
  BY <1>a, NextIInv DEF TypeOK, Lease, Fence, ProtocolInv, IInv
<1>f. fence'.gen >= fence.gen
  BY FenceNext DEF FenceStep, ProtocolInv
<1>1. CASE \A p \in Recoverers : ~RecoveryStep(p)
  <2>0. LeaseKept
    BY <1>a, <1>1, LeaseSteps
  <2>1. ASSUME NEW w \in Workers, pc[w] = "arm", lead[w].gen = lease.gen PROVE fence.gen >= lease.gen
    BY <1>a, <1>t, <2>1 DEF FencedOwn, Fenced
  <2>2. lease'.armed => lease'.gen = lease.gen /\ (lease.armed \/ fence.gen >= lease.gen)
    BY <2>0, <2>1 DEF LeaseKept
  <2>3. CASE ~lease'.armed
    BY <2>3 DEF ArmedReached
  <2>4. CASE lease'.gen = lease.gen /\ fence.gen >= lease.gen
    BY <1>t, <1>f, <2>4 DEF ArmedReached
  <2>5. CASE lease'.gen = lease.gen /\ lease.armed
    BY <1>a, <1>t, <1>f, <2>5 DEF ArmedReached
  <2> QED BY <2>2, <2>3, <2>4, <2>5
<1>2. ASSUME NEW p \in Recoverers, PrepareRecovery(p) PROVE ArmedReached'
  BY <1>a, <1>2, PreparePhases DEF ArmedReached
<1>3. ASSUME NEW p \in Recoverers, MarkNeoReady(p) PROVE ArmedReached'
  <2>1. CASE UNCHANGED <<lease, fence>>
    BY <1>a, <2>1 DEF ArmedReached
  <2>2. CASE lease'.rec # None /\ lease'.phase = "neo_ready"
    BY <1>t, <2>2, RecoveryFencedNext DEF RecoveryFenced, ArmedReached
  <2> QED BY <1>a, <1>3, <2>1, <2>2, NeoReadyPhases
<1>4. ASSUME NEW p \in Recoverers, FinalizePg(p) PROVE ArmedReached'
  <2>1. CASE UNCHANGED <<lease, fence>>
    BY <1>a, <2>1 DEF ArmedReached
  <2>2. CASE lease.rec # None /\ lease.phase = "neo_ready" /\ lease'.gen = lease.gen
    BY <1>a, <1>t, <1>f, <2>2 DEF RecoveryFenced, ArmedReached
  <2> QED BY <1>a, <1>4, <2>1, <2>2, FinalizePgPhases
<1>5. ASSUME NEW p \in Recoverers, ResetForRecovery(p) \/ FinalizeNeo(p) PROVE ArmedReached'
  <2>1. UNCHANGED lease
    BY <1>a, <1>5, NeoPhases
  <2> QED BY <1>a, <1>t, <1>f, <2>1 DEF ArmedReached
<1> QED BY <1>1, <1>2, <1>3, <1>4, <1>5 DEF RecoveryStep

\* An outbox row keeps its event, or is inserted where none was.
RowKept(a, r) ==
    \/ /\ outbox'[a][r].ev = outbox[a][r].ev
       /\ outbox'[a][r].st = "absent" <=> outbox[a][r].st = "absent"
    \/ /\ outbox[a][r].st = "absent" /\ outbox'[a][r].st = "pending"
       /\ outbox'[a][r].ev = outbox[a][r].ev + 1

\* A replay of everything inserts what is missing and keeps the other events.
LEMMA RequeuedKeeps ==
  ASSUME TypeOK, outbox' = Requeued PROVE \A a \in Aggregates, r \in Revs : RowKept(a, r)
<1> SUFFICES ASSUME NEW a \in Aggregates, NEW r \in Revs PROVE RowKept(a, r)
  OBVIOUS
<1>1. outbox[a][r] \in Row
  BY DEF TypeOK
<1>2. CASE r # pgRev[a]
  BY <1>2 DEF Requeued, RowKept
<1>3. CASE r = pgRev[a] /\ outbox[a][r].st = "absent"
  <2>1. outbox'[a][r] = Inserted(outbox[a][r])
    BY <1>3 DEF Requeued
  <2> QED BY <1>3, <2>1 DEF Inserted, NoRow, RowKept
<1>4. CASE r = pgRev[a] /\ outbox[a][r].st # "absent"
  <2>1. outbox'[a][r] = [outbox[a][r] EXCEPT !.st = "pending", !.owner = None, !.gen = 0,
                                  !.live = FALSE, !.tries = 0, !.ready = TRUE]
    BY <1>4 DEF Requeued
  <2>2. outbox'[a][r].ev = outbox[a][r].ev /\ outbox'[a][r].st = "pending"
    BY <1>1, <2>1 DEF Row
  <2> QED BY <1>4, <2>2 DEF RowKept
<1> QED BY <1>2, <1>3, <1>4

\* claim_pending, mark_delivered and mark_failed keep the events of their rows.
LEMMA WorkerKeepsRows ==
  ASSUME TypeOK, ClaimsSound, NEW w \in Workers, ClaimPending(w) \/ MarkDelivered(w) \/ MarkFailed(w)
  PROVE  \A a \in Aggregates, r \in Revs : RowKept(a, r)
<1> SUFFICES ASSUME NEW a \in Aggregates, NEW r \in Revs PROVE RowKept(a, r)
  OBVIOUS
<1>1. outbox[a][r] \in Row
  BY DEF TypeOK
<1>2. CASE outbox' = outbox
  BY <1>2 DEF RowKept
<1>3. CASE ClaimPending(w) /\ outbox' # outbox
  <2>1. PICK S \in Batches(w) : outbox' = [x \in Aggregates |-> [y \in Revs |->
                      IF <<x, y>> \in S
                      THEN [outbox[x][y] EXCEPT !.owner = w, !.gen = lead[w].gen,
                                                !.ver = @ + 1, !.live = TRUE]
                      ELSE outbox[x][y]]]
    BY <1>3 DEF ClaimPending
  <2>2. \/ outbox'[a][r] = outbox[a][r]
        \/ outbox'[a][r] = [outbox[a][r] EXCEPT !.owner = w, !.gen = lead[w].gen,
                                                !.ver = @ + 1, !.live = TRUE]
    BY <2>1
  <2>3. outbox'[a][r].ev = outbox[a][r].ev /\ outbox'[a][r].st = outbox[a][r].st
    BY <1>1, <2>2 DEF Row
  <2> QED BY <2>3 DEF RowKept
<1>4. CASE MarkDelivered(w) /\ outbox' # outbox
  <2>1. outbox' = Delivered(w, cur[w]) /\ Holds(w, cur[w]) /\ cur[w] \in Claim
    BY <1>4 DEF MarkDelivered, ClaimsSound
  <2>2. cur[w].agg \in Aggregates /\ cur[w].rev \in Revs
    BY <2>1 DEF Claim
  <2>3. \/ outbox'[a][r] = outbox[a][r]
        \/ /\ outbox[a][r].st \in {"pending", "exhausted"}
           /\ \/ outbox'[a][r] = [outbox[a][r] EXCEPT !.st = "delivered", !.live = FALSE, !.owner = None]
              \/ outbox'[a][r] = [outbox[a][r] EXCEPT !.st = "superseded", !.live = FALSE, !.owner = None]
    BY <2>1, <2>2 DEF Delivered, Holds, TypeOK
  <2>4. \/ outbox'[a][r] = outbox[a][r]
        \/ /\ outbox[a][r].st \in {"pending", "exhausted"}
           /\ outbox'[a][r].st \in {"delivered", "superseded"} /\ outbox'[a][r].ev = outbox[a][r].ev
    BY <1>1, <2>3 DEF Row
  <2> QED BY <2>4 DEF RowKept
<1>5. CASE MarkFailed(w) /\ outbox' # outbox
  <2>1. /\ outbox' = [outbox EXCEPT ![cur[w].agg][cur[w].rev] = Failed(@)]
        /\ Holds(w, cur[w]) /\ cur[w] \in Claim
    BY <1>5 DEF MarkFailed, ClaimsSound
  <2>2. cur[w].agg \in Aggregates /\ cur[w].rev \in Revs
    BY <2>1 DEF Claim
  <2>3. \/ outbox'[a][r] = outbox[a][r]
        \/ outbox'[a][r] = Failed(outbox[a][r]) /\ outbox[a][r].st \in {"pending", "exhausted"}
    BY <2>1, <2>2 DEF Holds, TypeOK
  <2>4. Failed(outbox[a][r]).ev = outbox[a][r].ev /\ Failed(outbox[a][r]).st \in {outbox[a][r].st, "exhausted"}
    BY <1>1 DEF Failed, Row
  <2> QED BY <2>3, <2>4 DEF RowKept
<1> QED BY <1>2, <1>3, <1>4, <1>5

\* Without a purge or a manual replay, no step forks a revision's history.
LEMMA RowSteps ==
  ASSUME TypeOK, RowsExist, ClaimsSound, [Next]_vars, upkeep' = MaxUpkeep
  PROVE  upkeep = MaxUpkeep /\ \A a \in Aggregates, r \in Revs : RowKept(a, r)
<1>t. MaxUpkeep \in Nat /\ upkeep \in 0..MaxUpkeep
  BY ConstantsAssumption DEF TypeOK
<1>u. ASSUME UNCHANGED outbox PROVE \A a \in Aggregates, r \in Revs : RowKept(a, r)
  BY <1>u DEF RowKept
<1>1. ASSUME NEW w \in Workers, WorkerStep(w) \/ ApplyFails(w) \/ Abort(w) \/ Crash(w) \/ Stop(w)
      PROVE upkeep' = upkeep /\ \A a \in Aggregates, r \in Revs : RowKept(a, r)
  <2>1. CASE ClaimPending(w) \/ MarkDelivered(w) \/ MarkFailed(w)
    BY <2>1, WorkerKeepsRows DEF ClaimPending, MarkDelivered, MarkFailed, budget
  <2>2. CASE ~(ClaimPending(w) \/ MarkDelivered(w) \/ MarkFailed(w))
    <3>1. UNCHANGED <<outbox, upkeep>>
      BY <1>1, <2>2 DEF WorkerStep, AcquireLeadership, AcquireRefused, ActivateGeneration,
         HasCursorEvidence, AdvanceConfirmedGeneration, ReactivateGeneration, ArmLeadership,
         RenewClaim, Apply, ReleaseLeadership, StopRelease, ApplyFails, Abort, Crash, Stop, budget, pgVars
    <3> QED BY <1>u, <3>1
  <2> QED BY <2>1, <2>2
<1>2. ASSUME NEW p \in Recoverers, RecoveryStep(p) \/ RecoveryCrash(p)
      PROVE upkeep' = upkeep /\ \A a \in Aggregates, r \in Revs : RowKept(a, r)
  <2>1. UNCHANGED upkeep /\ (outbox' = outbox \/ outbox' = Requeued)
    BY <1>2 DEF RecoveryStep, RecoveryCrash, PrepareRecovery, ResetForRecovery, MarkNeoReady,
       FinalizeNeo, FinalizePg, budget, pgVars
  <2> QED BY <1>u, <2>1, RequeuedKeeps
<1>3. ASSUME LeaseExpires \/ UNCHANGED vars PROVE UNCHANGED <<outbox, upkeep>>
  BY <1>3 DEF LeaseExpires, vars, budget, pgVars
<1>4. ASSUME RequeueFullProjection PROVE FALSE
  BY <1>t, <1>4 DEF RequeueFullProjection
<1>5. ASSUME NEW a \in Aggregates, Stage(a) \/ Restage(a)
      PROVE upkeep' = upkeep /\ \A b \in Aggregates, r \in Revs : RowKept(b, r)
  <2>1. pgRev[a] \in Nat /\ MaxRev \in Nat /\ pgRev[a] <= MaxRev
    BY ConstantsAssumption DEF TypeOK
  <2>2. PICK n \in Revs : outbox[a][n].st = "absent"
                          /\ outbox' = [outbox EXCEPT ![a][n] = Inserted(@)]
    <3>1. CASE Stage(a)
      <4>1. pgRev[a] + 1 \in Revs
        BY <2>1, <3>1 DEF Stage, Revs
      <4>2. outbox[a][pgRev[a] + 1].st = "absent"
        BY <2>1, <4>1 DEF RowsExist
      <4> QED BY <3>1, <4>1, <4>2 DEF Stage
    <3>2. CASE Restage(a)
      <4>1. pgRev[a] \in Revs
        BY <2>1, <3>2 DEF Restage, Revs
      <4> QED BY <3>2, <4>1 DEF Restage
    <3> QED BY <1>5, <3>1, <3>2
  <2>3. \A b \in Aggregates, r \in Revs :
           \/ outbox'[b][r] = outbox[b][r]
           \/ outbox[b][r].st = "absent" /\ outbox'[b][r] = Inserted(outbox[b][r])
    BY <2>2 DEF TypeOK
  <2>4. UNCHANGED upkeep
    BY <1>5 DEF Stage, Restage, budget
  <2>5. \A row \in Row : Inserted(row).st = "pending" /\ Inserted(row).ev = row.ev + 1
    BY DEF Inserted, NoRow
  <2>6. \A b \in Aggregates, r \in Revs : outbox[b][r] \in Row
    BY DEF TypeOK
  <2>7. ASSUME NEW b \in Aggregates, NEW r \in Revs PROVE RowKept(b, r)
    <3>1. CASE outbox'[b][r] = outbox[b][r]
      BY <3>1 DEF RowKept
    <3>2. CASE outbox[b][r].st = "absent" /\ outbox'[b][r] = Inserted(outbox[b][r])
      <4>1. outbox'[b][r].st = "pending" /\ outbox'[b][r].ev = outbox[b][r].ev + 1
        BY <2>5, <2>6, <3>2
      <4> QED BY <3>2, <4>1 DEF RowKept
    <3> QED BY <2>3, <3>1, <3>2
  <2> QED BY <2>4, <2>7
<1>6. ASSUME NEW a \in Aggregates, NEW r \in Revs, Purge(a, r) PROVE FALSE
  BY <1>t, <1>6 DEF Purge
<1>7. ASSUME NEW a \in Aggregates, NEW r \in Revs, ClaimExpires(a, r) \/ BackoffElapses(a, r)
      PROVE upkeep' = upkeep /\ \A b \in Aggregates, q \in Revs : RowKept(b, q)
  <2>1. \A b \in Aggregates, q \in Revs :
           \/ outbox'[b][q] = outbox[b][q]
           \/ outbox'[b][q] = [outbox[b][q] EXCEPT !.live = FALSE]
           \/ outbox'[b][q] = [outbox[b][q] EXCEPT !.ready = TRUE]
    <3>1. CASE ClaimExpires(a, r)
      <4>1. outbox' = [outbox EXCEPT ![a][r].live = FALSE]
        BY <3>1 DEF ClaimExpires
      <4> QED BY <4>1 DEF TypeOK
    <3>2. CASE BackoffElapses(a, r)
      <4>1. outbox' = [outbox EXCEPT ![a][r].ready = TRUE]
        BY <3>2 DEF BackoffElapses
      <4> QED BY <4>1 DEF TypeOK
    <3> QED BY <1>7, <3>1, <3>2
  <2>2. \A b \in Aggregates, q \in Revs : outbox[b][q] \in Row
    BY DEF TypeOK
  <2>3. \A b \in Aggregates, q \in Revs :
           outbox'[b][q].ev = outbox[b][q].ev /\ outbox'[b][q].st = outbox[b][q].st
    <3>1. \A row \in Row : /\ [row EXCEPT !.live = FALSE].ev = row.ev /\ [row EXCEPT !.live = FALSE].st = row.st
                           /\ [row EXCEPT !.ready = TRUE].ev = row.ev /\ [row EXCEPT !.ready = TRUE].st = row.st
      BY DEF Row
    <3>2. TAKE b \in Aggregates, q \in Revs
    <3> QED BY <2>1, <2>2, <3>1
  <2>4. UNCHANGED upkeep
    BY <1>7 DEF ClaimExpires, BackoffElapses, budget
  <2> QED BY <2>3, <2>4 DEF RowKept
<1> QED BY <1>u, <1>1, <1>2, <1>3, <1>4, <1>5, <1>6, <1>7 DEF Next

\* Which steps report a history conflict: the apply that met one.
LEMMA OutcomeSteps ==
  ASSUME TypeOK, [Next]_vars
  PROVE  \A v \in Workers : outcome'[v] # "conflict" \/ outcome'[v] = outcome[v]
            \/ (Projects(v) /\ Status(cur[v]) = "conflict")
<1>1. ASSUME NEW w \in Workers, WorkerStep(w) \/ ApplyFails(w) \/ Abort(w) \/ Crash(w) \/ Stop(w), NEW v \in Workers
      PROVE  outcome'[v] # "conflict" \/ outcome'[v] = outcome[v]
             \/ (Projects(v) /\ Status(cur[v]) = "conflict")
  <2>1. CASE Apply(w)
    <3>1. CASE v # w
      BY <2>1, <3>1 DEF Apply, TypeOK
    <3>2. CASE v = w
      BY <2>1, <3>2 DEF Apply, TypeOK, Projects, budget
    <3> QED BY <3>1, <3>2
  <2>2. CASE MarkDelivered(w) \/ MarkFailed(w) \/ ApplyFails(w)
    BY <2>2 DEF MarkDelivered, MarkFailed, ApplyFails, TypeOK
  <2>3. CASE Abort(w) \/ Crash(w) \/ Stop(w)
    BY <2>3 DEF Abort, Crash, Stop, Drop, TypeOK
  <2>4. CASE WorkerStep(w) /\ ~(Apply(w) \/ MarkDelivered(w) \/ MarkFailed(w))
    BY <2>4 DEF WorkerStep, AcquireLeadership, AcquireRefused, ActivateGeneration,
         HasCursorEvidence, AdvanceConfirmedGeneration, ReactivateGeneration, ArmLeadership,
         ClaimPending, RenewClaim, ReleaseLeadership, StopRelease
  <2> QED BY <1>1, <2>1, <2>2, <2>3, <2>4
<1>2. ASSUME NEW p \in Recoverers, RecoveryStep(p) \/ RecoveryCrash(p) PROVE UNCHANGED outcome
  BY <1>2 DEF RecoveryStep, RecoveryCrash, PrepareRecovery, ResetForRecovery, MarkNeoReady,
       FinalizeNeo, FinalizePg, workerVars
<1>3. ASSUME LeaseExpires \/ RequeueFullProjection \/ UNCHANGED vars PROVE UNCHANGED outcome
  BY <1>3 DEF LeaseExpires, RequeueFullProjection, vars, workerVars
<1>4. ASSUME NEW a \in Aggregates, Stage(a) \/ Restage(a) PROVE UNCHANGED outcome
  BY <1>4 DEF Stage, Restage, workerVars
<1>5. ASSUME NEW a \in Aggregates, NEW r \in Revs,
             Purge(a, r) \/ ClaimExpires(a, r) \/ BackoffElapses(a, r)
      PROVE UNCHANGED outcome
  BY <1>5 DEF Purge, ClaimExpires, BackoffElapses, workerVars
<1> QED BY <1>1, <1>2, <1>3, <1>4, <1>5 DEF Next

\* As long as no row was purged or requeued by hand, each revision has one
\* event, in the outbox, in the claims and in Neo4j's cursors.
LEMMA EventsNext == ASSUME ProtocolInv, [Next]_vars PROVE EventsUnique'
<1> SUFFICES ASSUME upkeep' = MaxUpkeep PROVE OneEvent'
  BY DEF EventsUnique
<1>a. TypeOK /\ TypeOK' /\ RowsExist /\ ClaimsSound /\ EventsUnique
  BY NextIInv DEF ProtocolInv, IInv
<1>b. OneEvent /\ \A a \in Aggregates, r \in Revs : RowKept(a, r)
  BY <1>a, RowSteps DEF EventsUnique
<1>1. \A a \in Aggregates, r \in Revs : outbox'[a][r].ev = IF outbox'[a][r].st = "absent" THEN 0 ELSE 1
  BY <1>b DEF OneEvent, RowKept
<1>2. ASSUME NEW v \in Workers, InPass(v)', NEW c \in Held(v)' PROVE c.ev = 1
  <2>1. CASE HandKept(v)
    BY <1>b, <1>2, <2>1 DEF HandKept, OneEvent
  <2>2. CASE ClaimPending(v)
    BY <1>a, <1>b, <1>2, <2>2, ClaimReads DEF OneEvent
  <2> QED BY <1>a, <2>1, <2>2, HandSteps
<1>3. ASSUME NEW w \in Workers, Projects(w)
      PROVE /\ cur[w].ev = 1 /\ cur[w].agg \in Aggregates /\ cur[w].rev \in Revs
            /\ Status(cur[w]) # "conflict"
  <2>1. cur[w] \in Held(w) /\ cur[w].ev = 1
    BY <1>a, <1>b, <1>3, ProjectWrites DEF OneEvent, Projects, InPass
  <2>2. cur[w].agg \in Aggregates /\ cur[w].rev \in Revs
    BY <1>a, <2>1, HeldSound
  <2>3. cur[w].rev >= 0 /\ cur[w].rev \in Int /\ cursor[cur[w].agg].rev \in Int
    BY <1>a, <2>2, ConstantsAssumption DEF Revs, TypeOK, Cursor
  <2>4. cursor[cur[w].agg].rev = cur[w].rev => cursor[cur[w].agg].ev = cur[w].ev
    BY <1>b, <2>1, <2>2, <2>3 DEF OneEvent
  <2> QED BY <2>1, <2>2, <2>3, <2>4 DEF Status
<1>4. ASSUME NEW a \in Aggregates, cursor'[a].rev >= 0 PROVE cursor'[a].ev = 1
  <2>1. CASE UNCHANGED cursor
    BY <1>b, <1>4, <2>1 DEF OneEvent
  <2>2. ASSUME NEW w \in Workers, Projects(w) PROVE cursor'[a].ev = 1
    <3>1. cursor'[a] = cursor[a] \/ cursor'[a].ev = cur[w].ev
      BY <1>a, <1>3, <2>2 DEF Projects, Project, TypeOK
    <3> QED BY <1>b, <1>3, <1>4, <2>2, <3>1 DEF OneEvent
  <2>3. ASSUME NEW p \in Recoverers, ResetForRecovery(p) PROVE cursor'[a].ev = 1
    <3>1. cursor'[a] = cursor[a] \/ cursor'[a].rev = -1
      BY <1>a, <2>3, ResetEffect
    <3> QED BY <1>b, <1>4, <3>1 DEF OneEvent
  <2> QED BY <2>1, <2>2, <2>3, GraphSteps
<1>5. NoHistoryConflict'
  BY <1>a, <1>b, <1>3, OutcomeSteps DEF OneEvent, NoHistoryConflict
<1> QED BY <1>1, <1>2, <1>4, <1>5 DEF OneEvent
-----------------------------------------------------------------------------
(* The second invariant holds, and what follows from it.                   *)

\* The initial state of a migrated database satisfies the invariant.
LEMMA InitJInv == ASSUME Init PROVE ProtocolInv
<1>1. SnapsFresh
  BY DEF Init, SnapsFresh, InPass
<1>2. EmptyForRecovery /\ RecoveryFenced
  BY DEF Init, EmptyForRecovery, RecoveryFenced, Recovering
<1>3. ArmedReached
  BY DEF Init, ArmedReached
<1>4. EventsUnique
  BY DEF Init, EventsUnique, OneEvent, InPass, NoRow, NoCursor, NoHistoryConflict
<1> QED BY <1>1, <1>2, <1>3, <1>4, InitIInv DEF ProtocolInv

\* Every step keeps the second invariant.
LEMMA NextJInv == ASSUME ProtocolInv, [Next]_vars PROVE ProtocolInv'
<1>1. IInv'
  BY NextIInv DEF ProtocolInv
<1> QED BY <1>1, SnapsNext, EmptyNext, RecoveryFencedNext, ArmedReachedNext, EventsNext DEF ProtocolInv

\* The second invariant holds in every reachable state.
THEOREM ProtocolInvariant == Spec => []ProtocolInv
<1>1. Init => ProtocolInv
  BY InitJInv
<1>2. ProtocolInv /\ [Next]_vars => ProtocolInv'
  BY NextJInv
<1> QED BY <1>1, <1>2, PTL DEF Spec

\* Purges and manual replays apart, an apply never meets another history of
\* its revision, whatever is staged again, retried or recovered
\* (_stage_relation_in_session, _LOCK_FENCE_AND_CURSOR).
THEOREM NoConflictWithoutUpkeep == Spec => []HistoryConflictNeedsUpkeep
<1>1. ProtocolInv => HistoryConflictNeedsUpkeep
  BY DEF ProtocolInv, EventsUnique, OneEvent, HistoryConflictNeedsUpkeep
<1> QED BY <1>1, ProtocolInvariant, PTL

\* Neo4j never shows an older revision of an aggregate than before, unless a
\* recovery wipes it under its interlock: no stale worker, late apply or
\* reset of a finished recovery takes it back (apply, reset_for_recovery).
THEOREM GraphNeverGoesBack == Spec => GraphNeverRegresses
<1>1. ASSUME ProtocolInv, [Next]_vars
      PROVE  [\A a \in Aggregates : graph'[a] >= graph[a] \/ lease.rec # None]_vars
  <2>a. TypeOK /\ RecoveryFenced /\ EmptyForRecovery
    BY <1>1 DEF ProtocolInv, IInv
  <2>t. /\ \A a \in Aggregates : graph[a] \in Nat /\ pgRev[a] \in Nat
        /\ fence.gen \in Int /\ \A p \in Recoverers : rstate[p].gen \in Nat
    BY <2>a, ConstantsAssumption DEF TypeOK, Fence
  <2> SUFFICES ASSUME lease.rec = None, NEW a \in Aggregates PROVE graph'[a] >= graph[a]
    OBVIOUS
  <2>1. CASE UNCHANGED graph
    BY <2>t, <2>1
  <2>2. ASSUME NEW w \in Workers, Projects(w) PROVE graph'[a] >= graph[a]
    <3>1. CASE UNCHANGED graph
      BY <2>t, <3>1
    <3>2. ASSUME NEW b \in Aggregates, NEW r \in (graph[b] + 1)..pgRev[b], graph' = [graph EXCEPT ![b] = r]
          PROVE graph'[a] >= graph[a]
      BY <2>a, <2>t, <3>2 DEF TypeOK
    <3> QED BY <1>1, <2>2, <3>1, <3>2, ProjectForward
  <2>3. ASSUME NEW p \in Recoverers, ResetForRecovery(p) PROVE graph'[a] >= graph[a]
    <3>1. CASE UNCHANGED graph
      BY <2>t, <3>1
    <3>2. CASE ~UNCHANGED graph
      <4>1. ~(fence.gen < rstate[p].gen)
        BY <2>a, <2>3 DEF RecoveryFenced, Recovering, ResetForRecovery
      <4>2. fence.owner = RecoveryOf[p] \/ fence.rec = RecoveryOf[p]
        BY <2>a, <2>t, <2>3, <3>2, <4>1, ResetEffect
      <4>3. fence.owner = RecoveryOf[p]
        BY <1>1, <4>2, ConstantsAssumption DEF ProtocolInv, IInv, FenceOwned
      <4>4. graph[a] = 0
        BY <2>a, <4>3, ConstantsAssumption DEF EmptyForRecovery
      <4>5. graph'[a] = graph[a] \/ graph'[a] = 0
        BY <2>a, <2>3, ResetEffect
      <4> QED BY <4>4, <4>5
    <3> QED BY <3>1, <3>2
  <2> QED BY <1>1, <2>1, <2>2, <2>3, GraphSteps
<1> QED BY <1>1, ProtocolInvariant, PTL DEF Spec, GraphNeverRegresses
-----------------------------------------------------------------------------
(* The projection implements Mirror.                                       *)

\* Only the staging of a change moves a revision.
LEMMA RevisionSteps ==
  ASSUME [Next]_vars PROVE UNCHANGED pgRev \/ \E a \in Aggregates : Stage(a)
<1>1. ASSUME NEW w \in Workers, WorkerStep(w) \/ ApplyFails(w) \/ Abort(w) \/ Crash(w) \/ Stop(w)
      PROVE UNCHANGED pgRev
  BY <1>1 DEF WorkerStep, AcquireLeadership, AcquireRefused, ActivateGeneration,
     HasCursorEvidence, AdvanceConfirmedGeneration, ReactivateGeneration, ArmLeadership,
     ClaimPending, RenewClaim, Apply, MarkDelivered, MarkFailed, ReleaseLeadership, StopRelease,
     ApplyFails, Abort, Crash, Stop, pgVars
<1>2. ASSUME NEW p \in Recoverers, RecoveryStep(p) \/ RecoveryCrash(p) PROVE UNCHANGED pgRev
  BY <1>2 DEF RecoveryStep, RecoveryCrash, PrepareRecovery, ResetForRecovery, MarkNeoReady,
     FinalizeNeo, FinalizePg, pgVars
<1>3. ASSUME LeaseExpires \/ RequeueFullProjection \/ UNCHANGED vars PROVE UNCHANGED pgRev
  BY <1>3 DEF LeaseExpires, RequeueFullProjection, vars, pgVars
<1>4. ASSUME NEW a \in Aggregates, Restage(a) PROVE UNCHANGED pgRev
  BY <1>4 DEF Restage
<1>5. ASSUME NEW a \in Aggregates, NEW r \in Revs,
             Purge(a, r) \/ ClaimExpires(a, r) \/ BackoffElapses(a, r)
      PROVE UNCHANGED pgRev
  BY <1>5 DEF Purge, ClaimExpires, BackoffElapses
<1> QED BY <1>1, <1>2, <1>3, <1>4, <1>5 DEF Next

\* Staging publishes a revision and owes it to the graph.
LEMMA StagePublishes ==
  ASSUME TypeOK, NEW a \in Aggregates, Stage(a) PROVE M!Publish(a)
<1>1. pgRev[a] \in Nat /\ MaxRev \in Nat /\ pgRev[a] < MaxRev
  BY ConstantsAssumption DEF TypeOK, Stage
<1>2. pgRev[a] + 1 \in Revs /\ pgRev'[a] = pgRev[a] + 1
  BY <1>1 DEF Revs, Stage, TypeOK
<1>3. Inserted(outbox[a][pgRev[a] + 1]).st = "pending"
  BY DEF Inserted, NoRow
<1>4. outbox'[a][pgRev'[a]].st = "pending"
  BY <1>2, <1>3 DEF Stage, TypeOK
<1>5. \A b \in Aggregates : b # a => outbox'[b] = outbox[b] /\ pgRev'[b] = pgRev[b]
  BY DEF Stage, TypeOK
<1>6. Owed' = Owed \cup {a}
  BY <1>1, <1>2, <1>4, <1>5 DEF Owed, Waiting
<1> QED BY <1>6 DEF M!Publish, Stage, neoVars

\* An acknowledgement settles an aggregate whose current revision is shown.
LEMMA DeliverySettles ==
  ASSUME ProtocolInv, ProtocolInv', NEW w \in Workers, Delivery(w)
  PROVE  M!Settle(cur[w].agg) \/ UNCHANGED M!vars
<1>a. TypeOK /\ RowsExist /\ ClaimsSound /\ TypeOK'
  BY DEF ProtocolInv, IInv
<1> DEFINE c == cur[w]
<1>1. /\ UNCHANGED <<pgRev, graph>> /\ c.agg \in Aggregates /\ c.rev \in Revs
      /\ \A a \in Aggregates : (pgRev[a] > 0 /\ Waiting(a) /\ ~Waiting(a)') => a = c.agg
  BY <1>a, DeliveryEffect
<1>2. \A a \in Aggregates, r \in Revs :
         outbox'[a][r].st \in {outbox[a][r].st, "delivered", "superseded"}
  <2> SUFFICES ASSUME NEW a \in Aggregates, NEW r \in Revs
               PROVE outbox'[a][r].st \in {outbox[a][r].st, "delivered", "superseded"}
    OBVIOUS
  <2>1. outbox[a][r] \in Row
    BY <1>a DEF TypeOK
  <2>2. outbox' = Delivered(w, c)
    BY DEF Delivery, MarkDelivered
  <2>3. \/ outbox'[a][r] = outbox[a][r]
        \/ outbox'[a][r] = [outbox[a][r] EXCEPT !.st = "delivered", !.live = FALSE, !.owner = None]
        \/ outbox'[a][r] = [outbox[a][r] EXCEPT !.st = "superseded", !.live = FALSE, !.owner = None]
    BY <1>a, <1>1, <2>2 DEF Delivered, TypeOK
  <2> QED BY <2>1, <2>3 DEF Row
<1>3. \A a \in Aggregates : pgRev[a] > 0 => pgRev[a] \in Revs
  BY <1>a, ConstantsAssumption DEF TypeOK, Revs
<1> HIDE DEF c
<1>4. Owed' \subseteq Owed /\ Owed \subseteq Owed' \cup {c.agg}
  BY <1>1, <1>2, <1>3 DEF Owed, Waiting
<1>5. CASE c.agg \in Owed \ Owed'
  <2>0. PICK a \in Aggregates : a = c.agg
    BY <1>1
  <2>1. pgRev'[a] > 0 /\ ~Waiting(a)'
    BY <1>1, <1>5, <2>0 DEF Owed
  <2>2. cursor'[a].rev >= pgRev'[a] /\ cursor'[a].rev <= graph'[a] /\ graph'[a] <= pgRev'[a]
    BY <2>1 DEF ProtocolInv, IInv, SettledAtCursor, ContentBounds
  <2>3. cursor'[a].rev \in Int /\ graph'[a] \in Int /\ pgRev'[a] \in Int
    BY <1>a DEF TypeOK, Cursor
  <2>4. graph[c.agg] = pgRev[c.agg]
    BY <1>1, <2>0, <2>2, <2>3
  <2>5. Owed' = Owed \ {c.agg}
    BY <1>4, <1>5
  <2> QED BY <1>1, <2>4, <2>5 DEF M!Settle, c
<1>6. CASE c.agg \notin Owed \ Owed'
  <2>1. Owed' = Owed
    BY <1>4, <1>6
  <2> QED BY <1>1, <2>1 DEF M!vars
<1> QED BY <1>5, <1>6

\* Every step of the protocol is a step of the mirror, or changes nothing there.
LEMMA MirrorStep == ASSUME ProtocolInv, [Next]_vars PROVE [M!Next]_(M!vars)
<1>a. TypeOK /\ RowsExist /\ ClaimsSound /\ ResetLosesNothing
  BY DEF ProtocolInv, IInv
<1>b. ProtocolInv'
  BY NextJInv
<1>c. Owed \in SUBSET Aggregates /\ Owed' \in SUBSET Aggregates
  BY DEF Owed
<1>1. ASSUME NEW a \in Aggregates, Stage(a) PROVE M!Next
  BY <1>a, <1>1, StagePublishes DEF M!Next
<1>2. ASSUME NEW w \in Workers, Delivery(w) PROVE M!Next \/ UNCHANGED M!vars
  <2>1. cur[w].agg \in Aggregates
    BY <1>a, <1>2, DeliveryEffect
  <2> QED BY <1>b, <1>2, <2>1, DeliverySettles DEF M!Next
<1>3. ASSUME NEW w \in Workers, Projects(w) PROVE M!Next \/ UNCHANGED M!vars
  <2>1. UNCHANGED <<pgRev, outbox>>
    BY <1>3 DEF Projects, pgVars
  <2>2. Owed' = Owed
    BY <2>1 DEF Owed, Waiting
  <2>3. CASE UNCHANGED graph
    BY <2>1, <2>2, <2>3 DEF M!vars
  <2>4. ASSUME NEW a \in Aggregates, NEW r \in (graph[a] + 1)..pgRev[a], graph' = [graph EXCEPT ![a] = r]
        PROVE  M!Next
    BY <2>1, <2>2, <2>4 DEF M!Next, M!Copy
  <2> QED BY <1>3, <2>3, <2>4, ProjectForward
<1>4. ASSUME NEW p \in Recoverers, ResetForRecovery(p) PROVE M!Next \/ UNCHANGED M!vars
  <2>1. UNCHANGED <<pgRev, outbox>>
    BY <1>4 DEF ResetForRecovery, pgVars
  <2>2. Owed' = Owed
    BY <2>1 DEF Owed, Waiting
  <2>3. CASE UNCHANGED graph
    BY <2>1, <2>2, <2>3 DEF M!vars
  <2>4. CASE ~UNCHANGED graph
    <3>1. fence.gen <= rstate[p].gen
      BY <1>a, <1>4, <2>4, ResetEffect
    <3>2. \A a \in Aggregates : pgRev[a] > 0 => a \in Owed
      BY <1>a, <3>1 DEF ResetLosesNothing, Owed
    <3>3. graph' = [a \in Aggregates |-> 0]
      BY <1>4, <2>4 DEF ResetForRecovery, neoVars
    <3> QED BY <2>1, <2>2, <3>2, <3>3 DEF M!Next, M!Wipe
  <2> QED BY <2>3, <2>4
<1>5. CASE Unsettling /\ UNCHANGED <<pgRev, graph>>
  <2>1. Owed \subseteq Owed'
    BY <1>5 DEF Unsettling, Owed
  <2>2. Owed' = Owed \cup Owed'
    BY <2>1
  <2>3. M!Owe(Owed')
    BY <1>5, <2>2 DEF M!Owe
  <2> QED BY <1>c, <2>3 DEF M!Next
<1>6. CASE UNCHANGED pgRev
  <2>1. Unsettling \/ \E w \in Workers : Delivery(w)
    BY <1>a, OutboxSteps
  <2> QED BY <1>2, <1>3, <1>4, <1>5, <1>6, <2>1, GraphSteps
<1> QED BY <1>1, <1>6, RevisionSteps

\* Outbox, fence and recovery together keep a faithful mirror of the ledger:
\* an aggregate leaves the outbox only once the graph shows its current
\* revision, the graph only moves forward, and it is wiped only while
\* everything published is owed to it, for every number of workers,
\* recoveries, faults and replays (_project_batch, recover_projection_lineage).
THEOREM ProjectionImplementsMirror == Spec => ImplementsMirror
<1>1. Init => M!Init
  <2>1. ASSUME Init PROVE Owed = {}
    BY <2>1 DEF Init, Owed
  <2> QED BY <2>1 DEF Init, M!Init
<1>2. ProtocolInv /\ [Next]_vars => [M!Next]_(M!vars)
  BY MirrorStep
<1> QED BY <1>1, <1>2, ProtocolInvariant, PTL DEF Spec, ImplementsMirror, M!Spec
-----------------------------------------------------------------------------
(* The marker in Neo4j and the interlock in PostgreSQL.  Two processes     *)
(* that run with one recovery id can break this (projection_rerun shows    *)
(* how), so these theorems are about recoveries with an id of their own.   *)

OneProcessPerId == \A p, q \in Recoverers : RecoveryOf[p] = RecoveryOf[q] => p = q

\* A running recovery holds the interlock, and it removed its marker before
\* it asks PostgreSQL to release it.
HoldsInterlock == \A p \in Recoverers :
    /\ Recovering(p) => lease.rec = RecoveryOf[p] /\ lease.gen = rstate[p].gen
    /\ rpc[p] = "finpg" => fence.rec = None

InterlockInv == ProtocolInv /\ HoldsInterlock /\ MarkerHasInterlock

\* Only resets and finalizations touch the marker; no activation does.
LEMMA MarkerSteps ==
  ASSUME TypeOK, [Next]_vars
  PROVE  \/ fence'.rec = fence.rec
         \/ \E p \in Recoverers : ResetForRecovery(p) \/ FinalizeNeo(p)
<1>1. ASSUME NEW w \in Workers, ActivateGeneration(w) \/ ReactivateGeneration(w)
      PROVE fence'.rec = fence.rec
  BY <1>1, ActivateEffect
<1>2. ASSUME NEW w \in Workers,
             \/ AcquireLeadership(w) \/ AcquireRefused(w) \/ AdvanceConfirmedGeneration(w)
             \/ ArmLeadership(w) \/ ReleaseLeadership(w) \/ StopRelease(w)
      PROVE UNCHANGED fence
  BY <1>2 DEF AcquireLeadership, AcquireRefused, AdvanceConfirmedGeneration, ArmLeadership,
     ReleaseLeadership, StopRelease, neoVars
<1>3. ASSUME NEW p \in Recoverers, PrepareRecovery(p) \/ MarkNeoReady(p) \/ FinalizePg(p)
      PROVE UNCHANGED fence
  BY <1>3 DEF PrepareRecovery, MarkNeoReady, FinalizePg, neoVars
<1>4. LeaseExpires \/ Quiet => UNCHANGED fence
  BY DEF LeaseExpires, Quiet, neoVars
<1> QED BY <1>1, <1>2, <1>3, <1>4, ControlSteps DEF RecoveryStep

\* With an id of its own, a recovery keeps the interlock to itself.
LEMMA InterlockKept ==
  ASSUME OneProcessPerId, InterlockInv, [Next]_vars PROVE (HoldsInterlock /\ MarkerHasInterlock)'
<1>a. TypeOK /\ HoldsInterlock /\ MarkerHasInterlock
  BY DEF InterlockInv, ProtocolInv, IInv
<1>b. \A p \in Recoverers : RecoveryOf[p] # None
  BY ConstantsAssumption
<1>1. CASE \A p \in Recoverers : ~RecoveryStep(p)
  <2>1. LeaseKept /\ UNCHANGED rstate /\ \A q \in Recoverers : rpc'[q] \in {rpc[q], "start"}
    BY <1>a, <1>1, LeaseSteps, RecoveryPcSteps
  <2>2. fence'.rec = fence.rec
    BY <1>a, <1>1, MarkerSteps DEF RecoveryStep
  <2> QED BY <1>a, <1>b, <2>1, <2>2 DEF HoldsInterlock, MarkerHasInterlock, Recovering, LeaseKept
<1>2. ASSUME NEW p \in Recoverers, PrepareRecovery(p) PROVE (HoldsInterlock /\ MarkerHasInterlock)'
  <2>1. /\ \A q \in Recoverers : q # p => rpc'[q] = rpc[q] /\ rstate'[q] = rstate[q]
        /\ UNCHANGED fence /\ rpc[p] = "start"
    BY <1>a, <1>2, PreparePhases DEF PrepareRecovery
  <2>2. CASE UNCHANGED <<lease, rstate>> /\ rpc'[p] = "done"
    BY <1>a, <2>1, <2>2 DEF HoldsInterlock, MarkerHasInterlock, Recovering
  <2>3. CASE /\ lease.rec = RecoveryOf[p] /\ RGoto(p, "reset")
             /\ lease' = [lease EXCEPT !.live = TRUE]
             /\ rstate' = [rstate EXCEPT ![p] = [gen |-> lease.gen, phase |-> lease.phase]]
    <3>1. lease'.rec = lease.rec /\ lease'.gen = lease.gen
      BY <1>a, <2>3 DEF TypeOK, Lease
    <3>2. rpc'[p] = "reset" /\ rstate'[p].gen = lease.gen
      BY <1>a, <2>3 DEF TypeOK, RGoto
    <3> QED BY <1>a, <2>1, <2>3, <3>1, <3>2 DEF HoldsInterlock, MarkerHasInterlock, Recovering
  <2>4. CASE /\ lease.rec = None /\ RGoto(p, "reset")
             /\ lease' = StartedLease(RecoveryOf[p])
             /\ rstate' = [rstate EXCEPT ![p] = [gen |-> lease.gen + 1, phase |-> "prepared"]]
    <3>1. lease'.rec = RecoveryOf[p] /\ lease'.gen = lease.gen + 1
      BY <1>a, <2>4 DEF TypeOK, Lease, StartedLease
    <3>2. rpc'[p] = "reset" /\ rstate'[p].gen = lease.gen + 1
      BY <1>a, <2>4 DEF TypeOK, RGoto
    <3>3. fence.rec = None /\ \A q \in Recoverers : ~Recovering(q)
      BY <1>a, <1>b, <2>4 DEF HoldsInterlock, MarkerHasInterlock
    <3> QED BY <2>1, <3>1, <3>2, <3>3 DEF HoldsInterlock, MarkerHasInterlock, Recovering
  <2>5. CASE UNCHANGED <<lease, rstate>> /\ RGoto(p, "done")
    BY <1>a, <2>2, <2>5 DEF RGoto, TypeOK
  <2> QED BY <1>2, <2>3, <2>4, <2>5 DEF PrepareRecovery
<1>3. ASSUME NEW p \in Recoverers, MarkNeoReady(p) PROVE (HoldsInterlock /\ MarkerHasInterlock)'
  BY <1>a, <1>3, NeoReadyPhases DEF HoldsInterlock, MarkerHasInterlock, Recovering
<1>4. ASSUME NEW p \in Recoverers, FinalizePg(p) PROVE (HoldsInterlock /\ MarkerHasInterlock)'
  <2>1. /\ \A q \in Recoverers : q # p => ~Recovering(q)' \/ ~Recovering(p)
        /\ rpc[p] = "finpg" /\ Recovering(p) /\ fence.rec = None
    BY <1>a, <1>4, FinalizePgPhases DEF HoldsInterlock, OneProcessPerId, Recovering, FinalizePg
  <2> QED BY <1>a, <1>4, <2>1, FinalizePgPhases DEF HoldsInterlock, MarkerHasInterlock, Recovering
<1>5. ASSUME NEW p \in Recoverers, ResetForRecovery(p) \/ FinalizeNeo(p)
      PROVE (HoldsInterlock /\ MarkerHasInterlock)'
  <2>1. Recovering(p) /\ lease.rec = RecoveryOf[p] /\ lease.gen = rstate[p].gen
    BY <1>a, <1>5 DEF HoldsInterlock, Recovering, ResetForRecovery, FinalizeNeo
  <2>2. \A q \in Recoverers : q # p => ~Recovering(q)
    BY <1>a, <2>1 DEF HoldsInterlock, OneProcessPerId
  <2>3. \/ fence'.rec = fence.rec /\ rpc'[p] # "finpg"
        \/ fence'.rec = RecoveryOf[p] /\ rpc'[p] # "finpg"
        \/ fence'.rec = None
    <3>1. CASE ResetForRecovery(p)
      BY <1>a, <3>1 DEF ResetForRecovery, RGoto, TypeOK, neoVars
    <3>2. CASE FinalizeNeo(p)
      BY <1>a, <3>2 DEF FinalizeNeo, RGoto, TypeOK, Fence
    <3> QED BY <1>5, <3>1, <3>2
  <2>4. /\ \A q \in Recoverers : q # p => rpc'[q] = rpc[q]
        /\ UNCHANGED <<lease, rstate>>
    BY <1>a, <1>5, NeoPhases
  <2> QED BY <1>a, <2>1, <2>2, <2>3, <2>4 DEF HoldsInterlock, MarkerHasInterlock, Recovering
<1> QED BY <1>1, <1>2, <1>3, <1>4, <1>5 DEF RecoveryStep

\* The third invariant holds where no two processes share a recovery id.
LEMMA InterlockInvariant == ASSUME OneProcessPerId PROVE Spec => []InterlockInv
<1>1. Init => InterlockInv
  <2> SUFFICES ASSUME Init PROVE InterlockInv
    OBVIOUS
  <2>1. HoldsInterlock /\ MarkerHasInterlock
    BY DEF Init, HoldsInterlock, MarkerHasInterlock, Recovering, NoFence
  <2> QED BY <2>1, InitJInv DEF InterlockInv
<1>2. InterlockInv /\ [Next]_vars => InterlockInv'
  <2> SUFFICES ASSUME InterlockInv, [Next]_vars PROVE InterlockInv'
    OBVIOUS
  <2>1. ProtocolInv'
    BY NextJInv DEF InterlockInv
  <2> QED BY <2>1, InterlockKept DEF InterlockInv
<1> QED BY <1>1, <1>2, PTL DEF Spec

\* A recovery marker in Neo4j always has the interlock of its recovery in
\* PostgreSQL, whatever crashes and reruns, when every recovery process has
\* an id of its own (finalize_projection_recovery).
THEOREM MarkerAlwaysInterlocked == ASSUME OneProcessPerId PROVE Spec => []MarkerHasInterlock
<1>1. InterlockInv => MarkerHasInterlock
  BY DEF InterlockInv
<1> QED BY <1>1, InterlockInvariant, PTL

\* While PostgreSQL says that a generation is armed and no recovery runs,
\* Neo4j's fence stands at that generation, unmarked, under the same proviso
\* (arm_leadership, mark_recovery_neo_ready, finalize_projection_recovery).
THEOREM ArmedAlwaysFenced == ASSUME OneProcessPerId PROVE Spec => []ArmedFenceAgrees
<1>1. InterlockInv => ArmedFenceAgrees
  <2> SUFFICES ASSUME InterlockInv, lease.armed, lease.rec = None, lease.gen > 0
               PROVE  fence.gen = lease.gen /\ fence.rec = None
    BY DEF ArmedFenceAgrees
  <2>1. fence.gen \in Int /\ lease.gen \in Nat
    BY DEF InterlockInv, ProtocolInv, IInv, TypeOK, Fence, Lease
  <2>2. fence.gen >= lease.gen
    BY DEF InterlockInv, ProtocolInv, ArmedReached
  <2>3. fence.gen <= lease.gen
    BY DEF InterlockInv, ProtocolInv, IInv, GenerationsBounded
  <2>4. fence.rec = None
    BY DEF InterlockInv, MarkerHasInterlock
  <2> QED BY <2>1, <2>2, <2>3, <2>4
<1> QED BY <1>1, InterlockInvariant, PTL
=============================================================================
