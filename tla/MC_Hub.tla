------------------------------- MODULE MC_Hub -------------------------------
(***************************************************************************)
(* Instances of Hub for TLC: the configurations give the clients and the    *)
(* subscribers model values of their own.                                   *)
(***************************************************************************)
EXTENDS Hub
=============================================================================
