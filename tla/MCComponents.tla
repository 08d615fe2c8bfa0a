---------------------------- MODULE MCComponents ----------------------------
(***************************************************************************)
(* The components that share no state with each other, on small instances, *)
(* side by side: a behaviour picks one component in its first state and    *)
(* takes that component's steps only; the others stay in their initial     *)
(* state, where their properties hold too.  The components are extended,   *)
(* so that TLC evaluates their assumptions and checks the very definitions *)
(* the theorems are about.                                                 *)
(***************************************************************************)
EXTENDS DeliveryLocks, Credentials, AccessCounts, MergeChains, Triage, AutomationLease

VARIABLE which      \* the component that runs

vars == <<which, locksVars, credentialsVars, accessVars, mergeVars, triageVars, leaseVars>>

(***************************************************************************)
(* Instances                                                               *)
(***************************************************************************)
\* A slot on a pull request, one on two tickets, one on a release and a
\* ticket; the second ticket depends on the first.
SlotAnchors == <<{[kind |-> "pr", of |-> "p1"]},
                 {[kind |-> "ticket", of |-> 1], [kind |-> "ticket", of |-> 2]},
                 {[kind |-> "lot", of |-> "r"], [kind |-> "ticket", of |-> 2]}>>

SlotUpstream == <<{}, {1}>>

\* Opens and closes, against receipts and a bind, against everything else.
SlotMenu ==
    [a |-> [do : {"open"}, s : 1 .. 3] \cup [do : {"close"}, s : {1}],
     b |-> [do : {"integrate"}, t : {1, 2}] \cup [do : {"contract"}, t : {2}]
             \cup [do : {"bind"}, x : {"x"}, s : {1}],
     c |-> [do : {"integrate"}, t : {2}] \cup [do : {"reopen", "release"}, t : {1}]
             \cup [do : {"bind_pr"}, t : {1, 2}, pr : {"p1"}]
             \cup [do : {"close"}, s : {1}] \cup [do : {"end"}, x : {"x"}]]

\* Two reads of an entity with a row, one of an entity without.
ReadEntity == [a |-> "e", b |-> "e", c |-> "f"]

\* The token's end, when the clock stops.
TokenExpires == [t \in Tokens |-> MaxTime]

\* Every merge and every direct write of a pointer.
MergeMenu ==
    LET ops == [kind : {"consolidate", "proposal", "point"}, source : Rows, target : Rows] IN
    [p \in Txns |-> {op \in ops : op.source # op.target}]

(***************************************************************************)
(* Side by side                                                            *)
(***************************************************************************)
Init ==
    /\ which \in {"slots", "credentials", "access", "merges", "triage", "lease"}
    /\ LocksInit /\ CredentialsInit /\ AccessInit /\ MergeInit /\ TriageInit /\ LeaseInit
    \* One initial state is enough for a component that does not run.
    /\ which # "slots" => /\ \A t \in 1 .. 2 : binding[t] = Unbound
                          /\ \A s \in 1 .. 3 : slots[s] = "absent"
    /\ which # "merges" => \A e \in Rows : ptr[e] = NoRow

SlotRuns ==
    /\ which = "slots" /\ LocksNext
    /\ UNCHANGED <<which, credentialsVars, accessVars, mergeVars, triageVars, leaseVars>>
CredentialRuns ==
    /\ which = "credentials" /\ CredentialsNext
    /\ UNCHANGED <<which, locksVars, accessVars, mergeVars, triageVars, leaseVars>>
AccessRuns ==
    /\ which = "access" /\ AccessNext
    /\ UNCHANGED <<which, locksVars, credentialsVars, mergeVars, triageVars, leaseVars>>
MergeRuns ==
    /\ which = "merges" /\ MergeNext
    /\ UNCHANGED <<which, locksVars, credentialsVars, accessVars, triageVars, leaseVars>>
TriageRuns ==
    /\ which = "triage" /\ TriageNext
    /\ UNCHANGED <<which, locksVars, credentialsVars, accessVars, mergeVars, leaseVars>>
LeaseRuns ==
    /\ which = "lease" /\ LeaseNext
    /\ UNCHANGED <<which, locksVars, credentialsVars, accessVars, mergeVars, triageVars>>

Next == SlotRuns \/ CredentialRuns \/ AccessRuns \/ MergeRuns \/ TriageRuns \/ LeaseRuns

Spec == Init /\ [][Next]_vars

(***************************************************************************)
(* Properties                                                              *)
(***************************************************************************)
\* Every component keeps the shape of its state.
TypeOK ==
    /\ LocksTypeOK /\ CredentialsTypeOK /\ AccessTypeOK
    /\ MergeTypeOK /\ TriageTypeOK /\ LeaseTypeOK
=============================================================================
