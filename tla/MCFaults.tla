------------------------------ MODULE MCFaults ------------------------------
(***************************************************************************)
(* Parts whose safety under faults is asked of TLC in one run: the client  *)
(* runtime with losses, refusals and unpairing, the pairing protocol with  *)
(* a device that pairs again, the host's identity file and the device's    *)
(* records through crashes and power loss, the memory shared by the two    *)
(* processors, the application under a shell that answers late, and the    *)
(* host's diagnostics.  A behaviour is a behaviour of one part, chosen at  *)
(* the start; the others rest in their initial states.                     *)
(***************************************************************************)
EXTENDS ClientRuntime, Pairing, IdentityFile, DeviceStore, AmpChannel, Application,
        HostDiagnostics, TLC

CONSTANTS host, d1, t1, t2

VARIABLE part

MCPairMax == 1
MCLastId == 6

\* One device that may be unpaired and pair again.
OwnerTwice == (t1 :> d1) @@ (t2 :> d1)

faultVars == <<part, clientVars, vars, fileVars, storeVars, channelVars, appVars,
               diagnosticVars>>

FaultsInit ==
    /\ part \in {"client", "pairing", "file", "store", "channel", "application", "diagnostics"}
    /\ ClientInit /\ (part # "client" => store.peer = "Unpaired")
    /\ Init /\ FileInit /\ StoreInit
    /\ ChannelInit /\ (part # "channel" => channel = "world")
    /\ AppInit /\ DiagnosticsInit

FaultsNext ==
    /\ UNCHANGED part
    /\ \/ /\ part = "client" /\ ClientNext
          /\ UNCHANGED <<vars, fileVars, storeVars, channelVars, appVars, diagnosticVars>>
       \/ /\ part = "pairing" /\ Next
          /\ UNCHANGED <<clientVars, fileVars, storeVars, channelVars, appVars, diagnosticVars>>
       \/ /\ part = "file" /\ FileNext
          /\ UNCHANGED <<clientVars, vars, storeVars, channelVars, appVars, diagnosticVars>>
       \/ /\ part = "store" /\ StoreNext
          /\ UNCHANGED <<clientVars, vars, fileVars, channelVars, appVars, diagnosticVars>>
       \/ /\ part = "channel" /\ ChannelNext
          /\ UNCHANGED <<clientVars, vars, fileVars, storeVars, appVars, diagnosticVars>>
       \/ /\ part = "application" /\ AppNext
          /\ UNCHANGED <<clientVars, vars, fileVars, storeVars, channelVars, diagnosticVars>>
       \/ /\ part = "diagnostics" /\ DiagnosticsNext
          /\ UNCHANGED <<clientVars, vars, fileVars, storeVars, channelVars, appVars>>

FaultsSpec == FaultsInit /\ [][FaultsNext]_faultVars
=============================================================================
