---------------------------- MODULE MC_Instances -----------------------------
(***************************************************************************)
(* Instances of Instances for TLC: the .cfg files give the bounds.           *)
(***************************************************************************)
EXTENDS Instances
=============================================================================
