-------------------------- MODULE HostCapabilities --------------------------
(***************************************************************************)
(* deskkin-host-capabilities: the one owner of the connector's lifecycle   *)
(* and of the identity of the effect in flight, as operators on its state. *)
(* A refused operation leaves the state alone, so each operation has a     *)
(* precondition and a result.                                              *)
(***************************************************************************)
EXTENDS Naturals

CONSTANT EffectMax  \* the largest effect identity (u64::MAX in the code)

CapabilityFailure == {"ReadFailed", "ConnectorUnavailable", "Timeout", "Cancelled"}

\* HostCapabilities::new
NewCapabilities == [state |-> "Stopped", next |-> 0]

\* lifecycle(Start); the host drops its capabilities without a Stop.
Started(h) == [h EXCEPT !.state = "Ready"]

\* route: one request at a time, under a fresh identity.
MayRoute(h) == h.state = "Ready" /\ h.next < EffectMax
Routed(h) == [state |-> "Waiting", next |-> h.next + 1]

\* complete: only the completion of the request in flight; its identity is the
\* last one that was handed out.
AcceptsCompletion(h, id) == h.state = "Waiting" /\ id = h.next
CompletedCap(h) == [h EXCEPT !.state = "Ready"]

\* invoke routes, runs the deterministic connector and completes at once.
MayInvoke(h) == MayRoute(h) /\ AcceptsCompletion(Routed(h), h.next + 1)
Invoked(h) == CompletedCap(Routed(h))

\* protocol_availability: protocol major 1 knows one failure.
ProtocolAvailability(result) ==
    IF result \in CapabilityFailure THEN "ReadFailed" ELSE result
=============================================================================
