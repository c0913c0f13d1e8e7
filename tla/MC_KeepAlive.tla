---------------------------- MODULE MC_KeepAlive -----------------------------
(***************************************************************************)
(* Instances of KeepAlive for TLC, with the code's own time limits.          *)
(***************************************************************************)
EXTENDS KeepAlive
=============================================================================
