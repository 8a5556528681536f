----------------------------- MODULE MCPairing -----------------------------
EXTENDS Pairing, TLC

CONSTANTS host, d1, d2, t1, t2

\* A device and a hosted simulator competing for the host.
OwnerRivals == (t1 :> d1) @@ (t2 :> d2)
=============================================================================
