--------------------------- MODULE MCPaxosReplica ---------------------------
(***************************************************************************)
(* PaxosReplica on small instances, its bounds given by the .cfg files,    *)
(* with its invariant and the replicated log that it implements.           *)
(***************************************************************************)
EXTENDS PaxosInvariant, PaxosRefinement
=============================================================================
