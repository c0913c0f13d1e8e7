----------------------------- MODULE MC_SftpSync -----------------------------
(***************************************************************************)
(* Instances of SftpSync for TLC: the .cfg files give the bounds.            *)
(***************************************************************************)
EXTENDS SftpSync
=============================================================================
