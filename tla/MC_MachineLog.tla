---------------------------- MODULE MC_MachineLog ----------------------------
(* MachineLog on small instances.                                            *)
EXTENDS MachineLog
=============================================================================
