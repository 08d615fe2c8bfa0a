------------------------- MODULE MCGraphProjection -------------------------
(* Instances of GraphProjection for TLC.                                   *)
EXTENDS GraphProjection, TLC

\* Every recovery process runs with the same recovery id, as the runbook
\* asks of a rerun.
SameRecoveryId == [p \in Recoverers |-> CHOOSE id \in RecoveryIds : TRUE]

\* Two incidents: each recovery process has an id of its own.
DistinctRecoveryIds == CHOOSE f \in [Recoverers -> RecoveryIds] :
    \A p, q \in Recoverers : f[p] = f[q] => p = q

\* Both: all recoveries but one share an id, the last is another incident.
OneOtherRecoveryId == CHOOSE f \in [Recoverers -> RecoveryIds] :
    \E p \in Recoverers : \A q, r \in Recoverers :
        (f[q] = f[r]) <=> ((q = p) <=> (r = p))

\* A fault, or a purge or manual requeue, not both in one behaviour.
OneDisturbance == faults + upkeep >= MaxFaults + MaxUpkeep - 1

\* Workers are interchangeable; so are the aggregates, and the recovery
\* processes that run with the same id.
Symmetric ==
    Permutations(Workers) \cup Permutations(Aggregates) \cup
    {f \in Permutations(Recoverers) :
        \A p \in Recoverers : RecoveryOf[f[p]] = RecoveryOf[p]}
=============================================================================
