---------------------------- MODULE MCDeviceStore ----------------------------
(***************************************************************************)
(* The device's records for TLC: two hosts, and sequence numbers enough    *)
(* for pairing, unpairing and pairing again with power lost in between.    *)
(***************************************************************************)
EXTENDS DeviceStore
=============================================================================
