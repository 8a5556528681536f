------------------------------ MODULE MCDevice ------------------------------
(***************************************************************************)
(* What a device and a client do by themselves, for TLC, in one run: the   *)
(* device's control thread and worker, its contact with the host, its      *)
(* touch ring, its renderer and display, its start, and the client runtime *)
(* without faults.  A behaviour is a behaviour of one part, chosen at the  *)
(* start; the others rest in their initial states, the client runtime      *)
(* unpaired.                                                               *)
(***************************************************************************)
EXTENDS DeviceControl, DeviceSession, AmpTouch, FrameBands, DeviceBoot, ClientRuntime, TLC

CONSTANTS f1, f2, f3, f4, f5

VARIABLE part

MCPairMax == 1
Kinds == (f1 :> "shutdown") @@ (f2 :> "invalid") @@ (f3 :> "run") @@ (f4 :> "unpair")
         @@ (f5 :> "status")

deviceVars == <<part, controlVars, contactVars, touchVars, bandVars, bootVars, clientVars>>

DeviceInit ==
    /\ part \in {"control", "contact", "touch", "bands", "boot", "client"}
    /\ ControlInit /\ ContactInit /\ TouchInit /\ BandsInit
    /\ BootInit /\ (part # "boot" => boot.ready)
    /\ ClientInit /\ (part # "client" => store.peer = "Unpaired")

DeviceNext ==
    /\ UNCHANGED part
    /\ \/ /\ part = "control" /\ ControlNext
          /\ UNCHANGED <<contactVars, touchVars, bandVars, bootVars, clientVars>>
       \/ /\ part = "contact" /\ ContactNext
          /\ UNCHANGED <<controlVars, touchVars, bandVars, bootVars, clientVars>>
       \/ /\ part = "touch" /\ TouchNext
          /\ UNCHANGED <<controlVars, contactVars, bandVars, bootVars, clientVars>>
       \/ /\ part = "bands" /\ BandsNext
          /\ UNCHANGED <<controlVars, contactVars, touchVars, bootVars, clientVars>>
       \/ /\ part = "boot" /\ BootNext
          /\ UNCHANGED <<controlVars, contactVars, touchVars, bandVars, clientVars>>
       \/ /\ part = "client" /\ ClientNext
          /\ UNCHANGED <<controlVars, contactVars, touchVars, bandVars, bootVars>>

\* The fairness of each part, asked of its own behaviours only.
DeviceFairness ==
    /\ WF_contactVars(part = "contact" /\ Polls)
    /\ WF_contactVars(part = "contact" /\ HandlesControl)
    /\ WF_contactVars(part = "contact" /\ ReadTimesOut)
    /\ WF_bandVars(part = "bands" /\ RendererNext)
    /\ WF_bootVars(part = "boot" /\ MainNext)
    /\ WF_bootVars(part = "boot" /\ SupervisorNext)
    /\ WF_bootVars(part = "boot" /\ CoordinatorEnds)
    /\ WF_clientVars(part = "client" /\ OwnerEvents)
    /\ WF_clientVars(part = "client" /\ NetworkEvents)
    /\ WF_clientVars(part = "client" /\ RefreshTimer)
    /\ WF_clientVars(part = "client" /\ ReconnectTimer)
    /\ WF_clientVars(part = "client" /\ Worker)

DeviceSpec == DeviceInit /\ [][DeviceNext]_deviceVars /\ DeviceFairness
=============================================================================
