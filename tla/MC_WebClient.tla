----------------------------- MODULE MC_WebClient -----------------------------
(***************************************************************************)
(* Instances of WebClient for TLC: the .cfg files name the sockets.          *)
(***************************************************************************)
EXTENDS WebClient
=============================================================================
