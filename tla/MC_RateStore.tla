---------------------------- MODULE MC_RateStore -----------------------------
(***************************************************************************)
(* Instances of RateStore for TLC: the .cfg files give the processes names.  *)
(***************************************************************************)
EXTENDS RateStore
=============================================================================
