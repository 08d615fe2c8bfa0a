--------------------------- MODULE MCAccessCounts ---------------------------
(* One entity, read by a robot and by a human, edited once meanwhile.      *)
EXTENDS AccessCounts

OneEntity == [a \in Reads |-> CHOOSE e \in Entities : TRUE]

\* The flusher's loop goes on.
FairSpec ==
    /\ AccessSpec
    /\ \A p \in Servers : WF_accessVars(\/ FlushLocks(p) \/ FlushBounds(p) \/ FlushDrains(p)
                                        \/ FlushReads(p) \/ FlushCommits(p))
=============================================================================
