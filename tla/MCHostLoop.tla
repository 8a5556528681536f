----------------------------- MODULE MCHostLoop -----------------------------
(***************************************************************************)
(* The accept loop for TLC: two connections, one command that opens a      *)
(* window, and one unpair.  HostLoop takes its instances from the cfg.     *)
(***************************************************************************)
EXTENDS HostLoop
=============================================================================
