---------------------------- MODULE MC_Networking ----------------------------
(* Networking on small instances.                                            *)
EXTENDS Networking, TLC

OwnerSymmetry == Permutations(Owner)
=============================================================================
