---------------------------- MODULE MCUpdatePool ----------------------------
(* The pool of `update`: the metadata manager and the block header manager *)
(* share the workers, the jobs channel and the map of reply channels.      *)
EXTENDS WorkerPool, TLC

CONSTANTS metadata, header, n1, n2

MCLoops == {metadata, header}
MCNodes == {n1, n2}
MCRpcs  == {"NodeMetadataRPC", "BlockHeaderRPC"}
MCLead  == metadata :> "NodeMetadataRPC" @@ header :> "BlockHeaderRPC"
MCFollow == [l \in MCLoops |-> NoRpc]
MCScope == [l \in MCLoops |-> MCNodes]
MCHung  == {n2}
=============================================================================
