------------------------------ MODULE MC_Feed --------------------------------
(***************************************************************************)
(* Instances of Feed for TLC: the .cfg files name the goroutines.            *)
(***************************************************************************)
EXTENDS Feed
=============================================================================
