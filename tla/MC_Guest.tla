------------------------------ MODULE MC_Guest ------------------------------
(* Guest on small instances.                                                 *)
EXTENDS Guest
=============================================================================
