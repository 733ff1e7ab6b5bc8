------------------------- MODULE MCConsensusMonitor -------------------------
EXTENDS ConsensusMonitor, TLC

CONSTANTS n1, n2

MCNodes == {n1, n2}
MCOneShard == [n \in MCNodes |-> 0]
MCTwoShards == n1 :> 0 @@ n2 :> 1
=============================================================================
