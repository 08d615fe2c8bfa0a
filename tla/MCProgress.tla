----------------------------- MODULE MCProgress -----------------------------
(***************************************************************************)
(* The components that owe progress, on small instances side by side: a    *)
(* behaviour picks one in its first state and takes its steps only, as in  *)
(* MCComponents.  Fairness is each component's own, while it runs.         *)
(***************************************************************************)
EXTENDS GraphProjection, CredentialAudit, AutoOpener

VARIABLES
    which,          \* the component that runs
    captures_ses, captures_made, captures_ledger, captures_focus,
    captures_direct, captures_worker

capturesVars ==
    <<captures_ses, captures_made, captures_ledger, captures_focus,
      captures_direct, captures_worker>>
mcVars == <<which, vars, capturesVars, traceVars, auditVars>>

(***************************************************************************)
(* Instances                                                               *)
(***************************************************************************)
\* One recovery process, with an id of its own.
RecoveryIdOf == [p \in Recoverers |-> CHOOSE i \in RecoveryIds : TRUE]

Capture == INSTANCE Sessions WITH
    Operators <- {"o"}, Traces <- {"a"}, Conns <- {"c"}, Arts <- {"k"},
    Slots <- {}, Workers <- {"w"}, Cap <- 1, MaxDirect <- 0,
    ses <- captures_ses, made <- captures_made, ledger <- captures_ledger,
    focus <- captures_focus, direct <- captures_direct,
    worker <- captures_worker

(***************************************************************************)
(* Side by side                                                            *)
(***************************************************************************)
MCInit ==
    /\ which \in {"projection", "captures", "traces", "audit"}
    /\ Init /\ Capture!SessionsInit /\ TraceInit /\ AuditInit

GraphRuns ==
    /\ which = "projection" /\ Next
    /\ UNCHANGED <<which, capturesVars, traceVars, auditVars>>
CaptureRuns ==
    /\ which = "captures" /\ Capture!SessionsNext
    /\ UNCHANGED <<which, vars, traceVars, auditVars>>
TraceRuns ==
    /\ which = "traces" /\ TraceNext
    /\ UNCHANGED <<which, vars, capturesVars, auditVars>>
AuditRuns ==
    /\ which = "audit" /\ AuditNext
    /\ UNCHANGED <<which, vars, capturesVars, traceVars>>

MCNext == \/ GraphRuns \/ CaptureRuns \/ TraceRuns \/ AuditRuns

(* What the code keeps going.  The projector's loop, time, and whoever     *)
(* reruns a recovery until it is accepted (GraphProjection); the           *)
(* maintenance timer, time, and a capture that reached its write, the      *)
(* sweep being served after the row locks it meets (Sessions); tasks that  *)
(* run to their end and an unused trace that grows old (AutoOpener); run() *)
(* draining again after every wait (CredentialAudit).                      *)
MCFairness ==
    /\ \A w \in Workers : WF_vars(which = "projection" /\ WorkerStep(w))
    /\ WF_vars(which = "projection" /\ LeaseExpires /\ OwnerGone /\ UNCHANGED faults)
    /\ WF_vars(which = "projection" /\ ClaimExpires("a", 1) /\ UNCHANGED faults)
    /\ WF_vars(which = "projection" /\ BackoffElapses("a", 1))
    /\ \A p \in Recoverers : SF_vars(which = "projection" /\ RecoveryStep(p))
    /\ SF_capturesVars(which = "captures" /\ Capture!Sweep)
    /\ \A i \in {"o", "a"} : WF_capturesVars(which = "captures" /\ Capture!Ages(i))
    /\ WF_capturesVars(which = "captures" /\ Capture!CaptureWrites("w"))
    /\ \A p \in Calls : WF_traceVars(which = "traces" /\ Runs(p))
    /\ \A c \in Conns : WF_traceVars(which = "traces" /\ NetCloses(c))
    /\ \A d \in Drainers : WF_auditVars(which = "audit" /\ Drains(d))

MCSpec == MCInit /\ [][MCNext]_mcVars /\ MCFairness

(***************************************************************************)
(* Properties                                                              *)
(***************************************************************************)
\* No session stays open for ever once nobody touches it (sweep_open_sessions).
NoGhostSession == Capture!NoGhostSession
=============================================================================
