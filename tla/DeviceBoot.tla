---- MODULE DeviceBoot ----
(***************************************************************************)
(* The start of the device: the two processors bring each other up through *)
(* shared memory, and the memory that only the start needs (the two main   *)
(* stacks, and the service stack lent to the Wi-Fi coordinator) changes    *)
(* owner on the way.  The threads are PROCPU's main thread, the supervisor *)
(* and the Wi-Fi coordinator it starts, the service, and APPCPU's main and *)
(* renderer threads.  Every wait between the processors has a limit of     *)
(* five seconds, which may run out whenever the other side has not come.   *)
(***************************************************************************)
EXTENDS Naturals

VARIABLES
  thread,      \* where each thread is: PROCPU's main thread, the supervisor, the
               \* Wi-Fi coordinator and the service, APPCPU's main and renderer
  shared,      \* the publications in the shared memory
  heap,        \* regions given to the runtime heap or cleared for it
  boot         \* boot_stage, boot_error and whether the devices are ready

bootVars == <<thread, shared, heap, boot>>

Region == {"main stack", "app stack", "prefix", "free"}

\* Power on; the touch controller may be missing.
BootInit ==
  /\ thread = [main |-> "control", supervisor |-> "none", coordinator |-> "none",
               service |-> "none", appMain |-> "off", appRenderer |-> "none"]
  /\ shared = [display |-> FALSE, spi |-> FALSE, handoff |-> FALSE]
  /\ heap = {}
  /\ boot \in [stage : {0}, error : {0}, ready : BOOLEAN]

Staged(stage) == boot' = [boot EXCEPT !.stage = stage]
Failed(error) == boot' = [boot EXCEPT !.error = error]
Goes(who, to) == thread' = [thread EXCEPT ![who] = to]

-----------------------------------------------------------------------------
(* PROCPU's main thread: rust_main of the supervisor image *)

\* The control worker comes first, so that the boot status can be read.
StartsControl ==
  /\ thread.main = "control"
  /\ \E to \in {"prepare", "ended"} : Goes("main", to)
  /\ UNCHANGED <<shared, heap, boot>>

\* deskkin_amp_prepare_renderer: memory and display power, then the shared
\* memory is cleared and the display announced.
PreparesDisplay ==
  /\ thread.main = "prepare"
  /\ \/ /\ Goes("main", "appcpu") /\ shared' = [shared EXCEPT !.display = TRUE] /\ Staged(3)
     \/ Goes("main", "supervise") /\ (\E error \in {4, 5} : Failed(error)) /\ UNCHANGED shared
  /\ UNCHANGED heap

StartsAppcpu ==
  /\ thread.main = "appcpu"
  /\ \/ thread' = [thread EXCEPT !.main = "renderer", !.appMain = "display"] /\ UNCHANGED boot
     \/ Goes("main", "supervise") /\ Failed(3)
  /\ UNCHANGED <<shared, heap>>

\* It waits for the panel's clock rate; a renderer that failed, or five
\* seconds without it, is error 7.
AwaitsRenderer ==
  /\ thread.main = "renderer"
  /\ \/ shared.spi /\ Staged(4)
     \/ ~shared.spi /\ Failed(7)
  /\ Goes("main", "supervise")
  /\ UNCHANGED <<shared, heap>>

\* deskkin_amp_supervisor_main creates the supervisor ...
StartsSupervisor ==
  /\ thread.main = "supervise"
  /\ thread' = [thread EXCEPT !.main = "returns",
                  !.supervisor = IF boot.ready /\ boot.error = 0 /\ shared.spi
                                 THEN "join" ELSE @]
  /\ UNCHANGED <<shared, heap, boot>>

\* ... and the main thread returns and is dead.
MainReturns ==
  /\ thread.main = "returns"
  /\ Goes("main", "ended")
  /\ UNCHANGED <<shared, heap, boot>>

-----------------------------------------------------------------------------
(* APPCPU *)

\* main() waits for the display, checks its heap and allocates the stacks.
AppInitializes ==
  /\ thread.appMain = "display" /\ shared.display
  /\ \E to \in {"devices", "ended"} : Goes("appMain", to)
  /\ UNCHANGED <<shared, heap, boot>>

\* The devices in order, then the clock rate is published.
AppDevices ==
  /\ thread.appMain = "devices"
  /\ \/ Goes("appMain", "threads") /\ shared' = [shared EXCEPT !.spi = TRUE]
     \/ Goes("appMain", "ended") /\ UNCHANGED shared
  /\ UNCHANGED <<heap, boot>>

AppThreads ==
  /\ thread.appMain = "threads" /\ thread.appRenderer = "none"
  /\ Goes("appRenderer", "waits")
  /\ UNCHANGED <<shared, heap, boot>>

AppMainReturns ==
  /\ thread.appMain = "threads" /\ thread.appRenderer # "none"
  /\ Goes("appMain", "ended")
  /\ UNCHANGED <<shared, heap, boot>>

MainIsDead == thread.appMain = "ended"

\* renderer_entry waits until main is dead, clears its stack ...
RendererClears ==
  /\ thread.appRenderer = "waits"
  /\ \/ MainIsDead /\ Goes("appRenderer", "clears") /\ heap' = heap \cup {"app stack"}
     \/ ~MainIsDead /\ Goes("appRenderer", "ended") /\ UNCHANGED heap
  /\ UNCHANGED <<shared, boot>>

\* ... and hands it over.
RendererHandsOver ==
  /\ thread.appRenderer = "clears"
  /\ Goes("appRenderer", "runs") /\ shared' = [shared EXCEPT !.handoff = TRUE]
  /\ UNCHANGED <<heap, boot>>

-----------------------------------------------------------------------------
(* The supervisor *)

\* Mutant of Joined: the main thread is not joined.
JoinedAtOnce == TRUE

Joined == thread.main = "ended"

\* initialize_runtime_sram joins the main thread and clears its stack and the prefix.
JoinsMain ==
  /\ thread.supervisor = "join" /\ Joined
  /\ \/ Goes("supervisor", "handoff") /\ heap' = heap \cup {"main stack", "prefix"} /\ UNCHANGED boot
     \/ Goes("supervisor", "ended") /\ Failed(10) /\ UNCHANGED heap
  /\ UNCHANGED shared

\* Mutant of AwaitsHandoff: the wait has no limit.
AwaitsHandoffForever ==
  /\ thread.supervisor = "handoff" /\ shared.handoff
  /\ \/ Goes("supervisor", "region") /\ UNCHANGED boot
     \/ Goes("supervisor", "ended") /\ Failed(10)
  /\ UNCHANGED <<shared, heap>>

\* It waits for APPCPU's stack; a bad region or five seconds without one is error 10.
AwaitsHandoff ==
  /\ thread.supervisor = "handoff"
  /\ \/ shared.handoff /\ Goes("supervisor", "region") /\ UNCHANGED boot
     \/ Goes("supervisor", "ended") /\ Failed(10)
  /\ UNCHANGED <<shared, heap>>

AddsRegions ==
  /\ thread.supervisor = "region"
  /\ \/ Goes("supervisor", "wifi") /\ heap' = Region /\ Staged(10)
     \/ Goes("supervisor", "ended") /\ Failed(10) /\ heap' \in {heap, Region}
  /\ UNCHANGED shared

\* complete_wifi_boot_phase: the coordinator runs on the service stack.
StartsCoordinator ==
  /\ thread.supervisor = "wifi"
  /\ \/ thread' = [thread EXCEPT !.supervisor = "wifi join", !.coordinator = "runs"] /\ UNCHANGED boot
     \/ Goes("supervisor", "ended") /\ Failed(11)
  /\ UNCHANGED <<shared, heap>>

CoordinatorEnds ==
  /\ thread.coordinator = "runs"
  /\ \E to \in {"ended", "failed"} : Goes("coordinator", to)
  /\ UNCHANGED <<shared, heap, boot>>

CoordinatorIsDone == thread.coordinator \in {"ended", "failed"}

JoinsCoordinator ==
  /\ thread.supervisor = "wifi join" /\ CoordinatorIsDone
  /\ IF thread.coordinator = "failed"
     THEN Goes("supervisor", "ended") /\ Failed(11)
     ELSE Goes("supervisor", "service") /\ Staged(11)
  /\ UNCHANGED <<shared, heap>>

StartsService ==
  /\ thread.supervisor = "service"
  /\ \/ thread' = [thread EXCEPT !.supervisor = "loop", !.service = "runs"] /\ Staged(8)
     \/ Goes("supervisor", "ended") /\ Failed(6)
  /\ UNCHANGED <<shared, heap>>

\* The first world snapshot is published.
SupervisorLoops ==
  /\ thread.supervisor = "loop" /\ boot.stage # 9
  /\ Staged(9)
  /\ UNCHANGED <<thread, shared, heap>>

-----------------------------------------------------------------------------
MainNext == StartsControl \/ PreparesDisplay \/ StartsAppcpu \/ AwaitsRenderer \/ StartsSupervisor
            \/ MainReturns
AppcpuNext == AppInitializes \/ AppDevices \/ AppThreads \/ AppMainReturns \/ RendererClears
              \/ RendererHandsOver
SupervisorNext == JoinsMain \/ AwaitsHandoff \/ AddsRegions \/ StartsCoordinator
                  \/ JoinsCoordinator \/ StartsService \/ SupervisorLoops

BootNext == MainNext \/ AppcpuNext \/ SupervisorNext \/ CoordinatorEnds

\* The threads of both processors are scheduled; the radio's initialization returns.
\* APPCPU is not assumed to make progress.
BootSpec ==
  /\ BootInit /\ [][BootNext]_bootVars
  /\ WF_bootVars(MainNext) /\ WF_bootVars(SupervisorNext) /\ WF_bootVars(CoordinatorEnds)

-----------------------------------------------------------------------------
\* No memory is cleared or allocated from while the thread that started on it
\* may still run: the two main stacks have dead owners, and the Wi-Fi coordinator
\* and the service never share the service stack (docs/core-s3.md, the SRAM
\* ownership boundary).
OwnersDoNotOverlap ==
  /\ "main stack" \in heap => thread.main = "ended"
  /\ "app stack" \in heap => thread.appMain = "ended"
  /\ ~(thread.coordinator = "runs" /\ thread.service = "runs")

\* A device whose control worker and touch controller are there runs its
\* service or names the error, even when APPCPU never answers.
BootSettles ==
  (boot.ready /\ thread.main = "prepare") ~> (boot.stage = 9 \/ boot.error # 0)
====
