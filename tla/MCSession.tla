------------------------------ MODULE MCSession ------------------------------
(***************************************************************************)
(* What runs on both sides of a connection, for TLC, in one run: a session *)
(* of the host, the host's command table, the client runtime while nobody  *)
(* unpairs it, and the pairing protocol without faults.  A behaviour is a  *)
(* behaviour of one part, chosen at the start; the others rest, the client *)
(* runtime shut down.                                                      *)
(***************************************************************************)
EXTENDS HostSession, OwnerControl, ClientRuntime, Pairing, TLC

CONSTANTS host, d1, d2, t1, t2

VARIABLE part

MCPairMax == 1

\* A device and a hosted simulator competing for the host.
OwnerRivals == (t1 :> d1) @@ (t2 :> d2)

allVars == <<part, sessionVars, controlVars, clientVars, vars>>

ClientRests ==
    /\ ui = [core |-> AvailabilityStopped, refresh |-> NoId, reconnect |-> FALSE,
             adapter |-> NewAdapter, connected |-> FALSE, connecting |-> FALSE, pending |-> NoId]
    /\ acks = [revocation |-> 0, shutdown |-> FALSE]
    /\ worker = [pc |-> "stopped", session |-> NoId, op |-> NoId, gen |-> 0,
                 connected |-> FALSE, revoked |-> FALSE, unpaired |-> FALSE]
    /\ commands = <<>> /\ control = <<>> /\ events = <<>> /\ requests = <<>>
    /\ store = [peer |-> "Paired", gen |-> 0, unpair |-> "none", open |-> FALSE]

AllInit ==
    /\ part \in {"session", "control", "client", "pairing"}
    /\ SessionInit /\ ControlInit /\ Init
    /\ IF part = "client" THEN ClientInit ELSE ClientRests

AllNext ==
    /\ UNCHANGED part
    /\ \/ part = "session" /\ SessionNext /\ UNCHANGED <<controlVars, clientVars, vars>>
       \/ part = "control" /\ ControlNext /\ UNCHANGED <<sessionVars, clientVars, vars>>
       \/ part = "client" /\ ClientNext /\ UNCHANGED <<sessionVars, controlVars, vars>>
       \/ part = "pairing" /\ Next /\ UNCHANGED <<sessionVars, controlVars, clientVars>>

\* The fairness of each part, asked of its own behaviours only.
AllFairness ==
    /\ WF_sessionVars(part = "session" /\ ReaderStep)
    /\ WF_sessionVars(part = "session" /\ WriterStep)
    /\ WF_sessionVars(part = "session" /\ WriterIdles)
    /\ SF_sessionVars(part = "session" /\ UnpairTakesGate)
    /\ WF_sessionVars(part = "session" /\ UnpairStep)
    /\ SF_sessionVars(part = "session" /\ WriterTakesGate)
    /\ SF_sessionVars(part = "session" /\ WriteFails)
    /\ WF_sessionVars(part = "session" /\ ClientLeaves)
    /\ WF_controlVars(part = "control" /\ Query)
    /\ \A id \in CommandId : WF_controlVars(part = "control" /\ TenMinutes(id))
    /\ SF_controlVars(part = "control" /\ Reports)
    /\ \A id \in PairId : WF_controlVars(part = "control" /\ TaskGivesUp(id))
    /\ WF_clientVars(part = "client" /\ OwnerEvents)
    /\ WF_clientVars(part = "client" /\ NetworkEvents)
    /\ WF_clientVars(part = "client" /\ RefreshTimer)
    /\ WF_clientVars(part = "client" /\ ReconnectTimer)
    /\ WF_clientVars(part = "client" /\ Worker)
    /\ \A t \in Tx : WF_vars(part = "pairing" /\ PairingGoesOn(t))

AllSpec == AllInit /\ [][AllNext]_allVars /\ AllFairness
=============================================================================
