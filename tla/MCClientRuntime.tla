--------------------------- MODULE MCClientRuntime ---------------------------
(***************************************************************************)
(* Instances of ClientRuntime for TLC: one pairing request at a time.      *)
(***************************************************************************)
EXTENDS ClientRuntime

MCPairMax == 1
=============================================================================
