---------------------------- MODULE MC_ImagePull ----------------------------
(* ImagePull on small instances.                                             *)
EXTENDS ImagePull
=============================================================================
