---------------------------- MODULE MCSymmetric ----------------------------
(***************************************************************************)
(* Three components whose properties need three of a kind, side by side:   *)
(* the operators' sessions, the invocations of the credential rotation and *)
(* the tickets of a dependency graph.  As in MCComponents a behaviour      *)
(* picks one component in its first state and takes its steps only.  The   *)
(* three sets hold the same model values, so that one symmetry serves all  *)
(* of them.                                                                *)
(***************************************************************************)
EXTENDS Sessions, CredentialRotation, TLC

VARIABLES
    which,          \* the component that runs
    graph_status, graph_wf, graph_contracts, graph_rows, graph_receipts,
    graph_token, graph_prs, graph_lock, graph_obs, graph_asked, graph_faults

graphVars ==
    <<graph_status, graph_wf, graph_contracts, graph_rows, graph_receipts,
      graph_token, graph_prs, graph_lock, graph_obs, graph_asked, graph_faults>>
symmetricVars == <<which, sessionsVars, rotationVars, graphVars>>

(***************************************************************************)
(* Instances                                                               *)
(***************************************************************************)
\* A contract with at most one dependency, on any of three tickets.
Dependent ==
    {[keys |-> {"k"}, mode |-> "explicit", ctx |-> FALSE, ups |-> {<<t, "integration">> : t \in S}] :
     S \in {{}} \cup {{t} : t \in Operators}}

Graph == INSTANCE Delivery WITH
    Tickets <- Operators, Self <- {}, Keys <- {"k"}, PRs <- {"p"}, BindIds <- {},
    Agents <- {}, Observers <- {}, Offers <- Dependent, Watched <- {}, None <- "none",
    MaxRev <- 2, MaxAttempt <- 1, MaxHead <- 1, MaxClaims <- 0, MaxFaults <- 0,
    status <- graph_status, wf <- graph_wf, contracts <- graph_contracts,
    rows <- graph_rows, receipts <- graph_receipts, token <- graph_token,
    prs <- graph_prs, lock <- graph_lock, obs <- graph_obs, asked <- graph_asked,
    faults <- graph_faults

Symmetric == Permutations(Operators) \cup Permutations(Helpers)

(***************************************************************************)
(* Side by side                                                            *)
(***************************************************************************)
Init ==
    /\ which \in {"sessions", "rotation", "graph"}
    /\ SessionsInit /\ RotationInit /\ Graph!Init
    \* One initial state is enough for a component that does not run.
    /\ which # "rotation" => file["gateway"] = 1 /\ mode = "0640"

SessionRuns ==
    /\ which = "sessions" /\ SessionsNext
    /\ UNCHANGED <<which, rotationVars, graphVars>>
RotationRuns ==
    /\ which = "rotation" /\ RotationNext
    /\ UNCHANGED <<which, sessionsVars, graphVars>>
GraphRuns ==
    /\ which = "graph" /\ Graph!Next
    /\ UNCHANGED <<which, sessionsVars, rotationVars>>

Next == SessionRuns \/ RotationRuns \/ GraphRuns

Spec == Init /\ [][Next]_symmetricVars

(***************************************************************************)
(* Properties                                                              *)
(***************************************************************************)
\* However contracts are offered and amended, no ticket comes to depend on
\* itself (_validate_dependencies, under the graph's lock).
DependenciesAcyclic == Graph!DependenciesAcyclic
=============================================================================
