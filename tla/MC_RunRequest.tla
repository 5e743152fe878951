---------------------------- MODULE MC_RunRequest ----------------------------
(* RunRequest on small instances.                                            *)
EXTENDS RunRequest
=============================================================================
