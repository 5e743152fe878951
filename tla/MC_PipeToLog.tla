---------------------------- MODULE MC_PipeToLog ----------------------------
(* PipeToLog on small instances.                                             *)
EXTENDS PipeToLog
=============================================================================
