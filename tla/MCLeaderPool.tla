---------------------------- MODULE MCLeaderPool ----------------------------
(* The pool of cxMonitor or crossLinkMonitor: one loop, which asks the     *)
(* nodes of its scope for metadata and then asks the leaders.  With Second *)
(* = NoRpc it is the pool of consensusMonitor, which asks once.            *)
EXTENDS WorkerPool, TLC

CONSTANTS loop, n1, n2, n3, Second

MCLoops  == {loop}
MCNodes  == {n1, n2, n3}
MCRpcs   == {"NodeMetadataRPC", "PendingCXRPC"}
MCLead   == loop :> "NodeMetadataRPC"
MCFollow == loop :> Second
MCScope  == loop :> MCNodes
=============================================================================
