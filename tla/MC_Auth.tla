------------------------------- MODULE MC_Auth -------------------------------
(* Auth on small instances.                                                  *)
EXTENDS Auth, TLC

AuthSymmetry == Permutations(Instance)
=============================================================================
