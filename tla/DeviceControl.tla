--------------------------- MODULE DeviceControl ---------------------------
(***************************************************************************)
(* The device's control path: a thread that reads command frames from the  *)
(* UART and hands them to the service worker through bounded queues        *)
(* (adapter.c), the worker's loop with the connection it may be in         *)
(* (core-s3-service lib.rs), and the touch commands that share UI_ACTION   *)
(* with them.  Flash and protocol are DeviceStore's and Pairing's.         *)
(***************************************************************************)
EXTENDS Naturals, Sequences

CONSTANTS
    Frame,          \* frames the owner sends, each with its own command id
    FrameKind,      \* what each of them is
    QueueMax,       \* application_commands
    CompletionMax,  \* worker_completions
    TouchMax        \* touch commands in a behaviour

\* No frame is the absence of one, and there is room for two completions (eight in
\* the code).
ASSUME FrameAssumption == "none" \notin Frame
ASSUME CompletionAssumption == CompletionMax \in Nat /\ CompletionMax >= 2

VARIABLES
    sent,           \* frames the owner has sent
    reader,         \* the control thread: the frame it has, and where it is
    queue,          \* application_commands and reserved_control
    completions,    \* worker_completions
    answer,         \* what was written back for each frame
    service,        \* the worker: its place, the command it has
    action,         \* UI_ACTION
    enabled,        \* the worker's running, its adapter not stopped, a peer paired
    touches,        \* touch commands so far
    handled,        \* history: commands the worker has carried out
    told            \* history: a shutdown was reported and nothing has undone it

controlVars ==
    <<sent, reader, queue, completions, answer, service, action, enabled, touches, handled, told>>

NoFrame == "none"
Kind(f) == FrameKind[f]
Reading == [at |-> "read", frame |-> NoFrame]
At(place) == [at |-> place, frame |-> NoFrame, from |-> place]
Idle == At("idle")

ControlInit ==
    /\ sent = {} /\ reader = Reading
    /\ queue = [application |-> <<>>, reserved |-> <<>>] /\ completions = <<>>
    /\ answer = [f \in Frame |-> "none"]
    /\ service = Idle /\ action = "none"
    /\ enabled = [running |-> TRUE, started |-> TRUE, paired |-> TRUE]
    /\ touches = 0 /\ handled = {} /\ told = FALSE

workerVars == <<service, action, enabled, touches, handled, told>>

-----------------------------------------------------------------------------
(* control_entry                                                           *)

QueueOf(f) == IF Kind(f) = "shutdown" THEN "reserved" ELSE "application"

Written(f, status) ==
    answer' = [answer EXCEPT ![f] = status] /\ reader' = Reading

\* A status command is answered from RAM, without the worker.
control_snapshot(f) ==
    /\ reader = Reading /\ f \notin sent /\ Kind(f) = "status"
    /\ sent' = sent \cup {f} /\ Written(f, "Success")
    /\ UNCHANGED <<queue, completions, workerVars>>

control_submit(f) ==
    /\ reader = Reading /\ f \notin sent /\ Kind(f) # "status"
    /\ sent' = sent \cup {f}
    /\ IF Len(queue[QueueOf(f)]) < (IF QueueOf(f) = "reserved" THEN 1 ELSE QueueMax)
       THEN /\ queue' = [queue EXCEPT ![QueueOf(f)] = Append(@, f)]
            /\ reader' = [at |-> "wait", frame |-> f] /\ UNCHANGED answer
       ELSE Written(f, "error") /\ UNCHANGED queue
    /\ UNCHANGED <<completions, workerVars>>

\* Mutant of take_matching_completion: the first completion is the answer.
take_any_completion ==
    /\ reader.at = "wait" /\ completions # <<>>
    /\ completions' = Tail(completions)
    /\ Written(reader.frame, Head(completions).status)
    /\ UNCHANGED <<sent, queue, workerVars>>

\* Completions of earlier frames, and those without an id, are thrown away.
take_matching_completion ==
    /\ reader.at = "wait" /\ completions # <<>>
    /\ completions' = Tail(completions)
    /\ IF Head(completions).frame = reader.frame
       THEN Written(reader.frame, Head(completions).status)
       ELSE UNCHANGED <<reader, answer>>
    /\ UNCHANGED <<sent, queue, workerVars>>

\* Five seconds, in which every completion there is was taken, brought no answer:
\* the queue is purged and the owner is told.
CompletionTimeout ==
    /\ reader.at = "wait" /\ completions = <<>>
    /\ queue' = [queue EXCEPT ![QueueOf(reader.frame)] = <<>>]
    /\ Written(reader.frame, "error")
    /\ UNCHANGED <<sent, completions, workerVars>>

-----------------------------------------------------------------------------
(* deskkin_rust_service_worker, between connections                        *)

\* deskkin_service_take_command: the reserved queue first.
take_command(next) ==
    LET from == IF queue.reserved # <<>> THEN "reserved" ELSE "application"
    IN  /\ queue[from] # <<>>
        /\ queue' = [queue EXCEPT ![from] = Tail(@)]
        /\ service' = [at |-> next, frame |-> Head(queue[from]), from |-> service.at]

\* A full queue drops the completion; a frame that does not decode has no id.
publish_completion(f, status) ==
    completions' = IF Len(completions) < CompletionMax
                   THEN Append(completions, [frame |-> IF Kind(f) = "invalid" THEN NoFrame ELSE f,
                                             status |-> status])
                   ELSE completions

ServiceTakes ==
    /\ service.at = "idle" /\ take_command("handle")
    /\ UNCHANGED <<sent, reader, completions, answer, action, enabled, touches, handled, told>>

handle_control ==
    LET f == service.frame
    IN  /\ service.at = "handle" /\ service' = At("act")
        /\ IF Kind(f) = "invalid"
           THEN publish_completion(f, "Invalid") /\ UNCHANGED <<action, enabled, handled, told>>
           ELSE /\ publish_completion(f, "Success") /\ handled' = handled \cup {f}
                /\ action' = CASE Kind(f) = "run" -> "run"
                               [] Kind(f) = "shutdown" -> "shutdown" [] OTHER -> action
                /\ enabled' = [enabled EXCEPT !.paired = @ /\ Kind(f) # "unpair"]
                /\ told' = CASE Kind(f) = "run" -> FALSE
                             [] Kind(f) = "shutdown" -> TRUE [] OTHER -> told
        /\ UNCHANGED <<sent, reader, queue, answer, touches>>

\* The pair touch restarts a stopped adapter; Run also sets running.
TakeAction ==
    /\ service.at \in {"idle", "act"} /\ action' = "none"
    /\ LET next == CASE action = "shutdown" -> [enabled EXCEPT !.running = FALSE, !.started = FALSE]
                     [] action = "run" -> [enabled EXCEPT !.running = TRUE, !.started = TRUE]
                     [] action = "pair" -> [enabled EXCEPT !.started = TRUE]
                     [] OTHER -> enabled
       IN  /\ enabled' = next
           /\ service' = IF next.started /\ (action = "pair" \/ (next.running /\ next.paired))
                         THEN At("connect") ELSE Idle
    /\ UNCHANGED <<sent, reader, queue, completions, answer, touches, handled, told>>

-----------------------------------------------------------------------------
(* connect_once                                                            *)

\* WiFi, DHCP and TCP block the worker without polling; they may fail.
Connects ==
    /\ service.at = "connect"
    /\ \/ enabled.paired /\ service' = At("session") /\ UNCHANGED action
       \/ ~enabled.paired /\ service' = At("prompt") /\ action' = "none"
       \/ service' = Idle /\ UNCHANGED action
    /\ UNCHANGED <<sent, reader, queue, completions, answer, enabled, touches, handled, told>>

\* wait_pairing_decision: the touch that confirms or rejects; after it the
\* pairing is completed, or fails.
PromptDecided ==
    /\ service.at = "prompt" /\ action # "none" /\ action' = "none"
    /\ \/ action = "pair" /\ UNCHANGED <<service, enabled>>
       \/ /\ action = "confirm" /\ service' = At("session")
          /\ enabled' = [enabled EXCEPT !.paired = TRUE]
       \/ action \in {"confirm", "reject"} /\ service' = Idle /\ UNCHANGED enabled
    /\ UNCHANGED <<sent, reader, queue, completions, answer, touches, handled, told>>

\* Nobody decides in time, or the connection is lost; a hello refused for good
\* stops the adapter.
ContactFails ==
    /\ service.at \in {"prompt", "session"} /\ service' = Idle
    /\ \/ UNCHANGED enabled
       \/ service.at = "session" /\ enabled' = [enabled EXCEPT !.started = FALSE]
    /\ UNCHANGED <<sent, reader, queue, completions, answer, action, touches, handled, told>>

ServicePolls ==
    /\ service.at \in {"session", "prompt"} /\ take_command("poll")
    /\ UNCHANGED <<sent, reader, completions, answer, action, enabled, touches, handled, told>>

EndsContact(f) ==
    /\ action' = IF Kind(f) = "shutdown" THEN "shutdown" ELSE action
    /\ told' = (told \/ Kind(f) = "shutdown")

\* Only shutdown and unpair are served in a connection, which they end.
poll_active_control ==
    LET f == service.frame
    IN  /\ service.at = "poll"
        /\ IF Kind(f) \in {"shutdown", "unpair"}
           THEN service' = [service EXCEPT !.at = "finish"] /\ EndsContact(f) /\ UNCHANGED completions
           ELSE service' = At(service.from) /\ publish_completion(f, "Busy") /\ UNCHANGED <<action, told>>
        /\ UNCHANGED <<sent, reader, queue, answer, enabled, touches, handled>>

\* The socket is closed before the command is completed and reported.
finish_active_control ==
    LET f == service.frame
    IN  /\ service.at = "finish"
        /\ enabled' = [enabled EXCEPT !.paired = @ /\ Kind(f) # "unpair"]
        /\ handled' = handled \cup {f} /\ publish_completion(f, "Success") /\ service' = Idle
        /\ UNCHANGED <<sent, reader, queue, answer, action, touches, told>>

-----------------------------------------------------------------------------
(* deskkin_service_ui_command: a touch overwrites what UI_ACTION holds.     *)

Touch(a) ==
    /\ touches < TouchMax /\ touches' = touches + 1
    /\ action' = a
    /\ told' = (told /\ a # "pair" /\ action # "shutdown")
    /\ UNCHANGED <<sent, reader, queue, completions, answer, service, enabled, handled>>

ReaderNext == take_matching_completion \/ CompletionTimeout

ServiceNext ==
    \/ ServiceTakes \/ handle_control \/ TakeAction \/ Connects \/ PromptDecided \/ ContactFails
    \/ ServicePolls \/ poll_active_control \/ finish_active_control

ControlNext ==
    \/ \E f \in Frame : control_snapshot(f) \/ control_submit(f)
    \/ ReaderNext \/ ServiceNext
    \/ \E a \in {"pair", "confirm", "reject"} : Touch(a)

ControlSpec == ControlInit /\ [][ControlNext]_controlVars

-----------------------------------------------------------------------------
(* Properties                                                              *)

\* The owner is told Success of a command only when the worker carried out that
\* very command, although answers come late and frames time out.
SuccessIsOwn ==
    \A f \in Frame : answer[f] = "Success" /\ Kind(f) # "status" => f \in handled

\* A command that timed out is not carried out later unless the worker already
\* has it: nothing is queued while the thread reads, so no frame finds a queue
\* full, and no completion is lost for want of room.
TimedOutIsDropped ==
    /\ reader.at = "read" => queue.application = <<>> /\ queue.reserved = <<>>
    /\ service.at \in {"handle", "poll", "finish"} => Len(completions) < CompletionMax

\* Once a shutdown is done the device opens no connection until Run or the pair
\* touch.  (A touch that falls between the command and the worker's next look at
\* UI_ACTION erases it: told is false then.)
ShutdownHolds == told => service.at \notin {"connect", "prompt", "session"}

\* What the owner was told of a command is true: a success is its own, a command
\* that timed out is gone, and a shutdown lasts.
AnswersAreTrue == SuccessIsOwn /\ TimedOutIsDropped /\ ShutdownHolds

=============================================================================
