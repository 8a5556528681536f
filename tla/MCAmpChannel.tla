---------------------------- MODULE MCAmpChannel ----------------------------
(***************************************************************************)
(* The shared memory for TLC: four publications on each kind of channel.   *)
(***************************************************************************)
EXTENDS AmpChannel
=============================================================================
