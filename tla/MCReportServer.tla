--------------------------- MODULE MCReportServer ---------------------------
(* Two nodes in one shard: either can be named in the place of the other.  *)
EXTENDS ReportServer, TLC

CONSTANTS n1, n2, r1, r2

MCShardOf == [n \in Nodes |-> 0]

\* A round of each manager, and two of consensusMonitor: the second one writes a
\* map that has been published.
MCRounds == "metadata" :> 1 @@ "header" :> 1 @@ "crosslink" :> 0 @@ "consensus" :> 2
=============================================================================
