--------------------------- MODULE MC_NodeManager ---------------------------
(* NodeManager on small instances.                                           *)
EXTENDS NodeManager, TLC

NodeSymmetry == Permutations(Machine) \cup Permutations(Rpc)
=============================================================================
