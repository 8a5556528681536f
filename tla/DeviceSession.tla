--------------------------- MODULE DeviceSession ---------------------------
(***************************************************************************)
(* A device's contact with its host: the hello, and the loop that asks for *)
(* the host's availability, shows it and rests (availability_loop of       *)
(* core-s3-service), while control commands may be queued at any time.     *)
(* The two directions of the TCP stream keep their order; the host answers *)
(* requests in turn and may ping (its session is HostSession).             *)
(***************************************************************************)
EXTENDS Features, Sequences

CONSTANTS
    HostValue,      \* what the host may answer
    StreamMax,      \* messages on their way in one direction
    AttemptLimit    \* Run commands in a behaviour

VARIABLES
    contact,        \* where the loop is
    reading,        \* the request identity of the adapter's read
    core,           \* the availability feature of the application
    view,           \* UI_VIEW
    valid,          \* VALID_RESULT
    attempt,        \* RUN_ATTEMPT and RESULT_ATTEMPT
    toHost, fromHost,
    waiting,        \* the control command queued for the worker
    answered        \* history: the value the host answered last

contactVars == <<contact, reading, core, view, valid, attempt, toHost, fromHost, waiting, answered>>

InContact == {"hello", "ask", "await", "rest"}
NoAnswer == "none"
ReadAvailability(id) == [type |-> "ReadAvailability", id |-> id, value |-> NoAnswer]
AvailabilityResult(id, value) == [type |-> "AvailabilityResult", id |-> id, value |-> value]
Plain(type) == [type |-> type, id |-> 0, value |-> NoAnswer]

\* Identities follow one another; three are more than are ever in use.
Following(id) == (id % 3) + 1

ContactInit ==
    /\ contact = "out" /\ reading = 0 /\ core = AvailabilityStopped
    /\ view = "Unknown" /\ valid = FALSE /\ attempt = [run |-> 0, result |-> 0]
    /\ toHost = <<>> /\ fromHost = <<>> /\ waiting = "none" /\ answered = NoAnswer

-----------------------------------------------------------------------------
(* The worker, outside a contact and in one.                               *)

\* connect_once clears what an earlier contact left and says hello.
ContactBegins ==
    /\ contact = "out" /\ waiting = "none"
    /\ contact' = "hello" /\ view' = "Unknown" /\ valid' = FALSE /\ answered' = NoAnswer
    /\ UNCHANGED <<reading, core, attempt, toHost, fromHost, waiting>>

\* HelloAck: the application starts anew with every session.
HelloAcked ==
    /\ contact = "hello"
    /\ contact' = "ask" /\ reading' = 0 /\ core' = AvailabilityStart(1)
    /\ UNCHANGED <<view, valid, attempt, toHost, fromHost, waiting, answered>>

\* begin_read and the request on the wire.
Asks ==
    /\ contact = "ask" /\ Len(toHost) < StreamMax
    /\ contact' = "await" /\ reading' = Following(reading)
    /\ toHost' = Append(toHost, ReadAvailability(Following(reading)))
    /\ UNCHANGED <<core, view, valid, attempt, fromHost, waiting, answered>>

\* The surface that ReadCompleted leaves, its timer and UI_VIEW.
Shows(m) ==
    LET completed == ReadCompleted(core, core.effect,
                        IF m.value = "ReadFailed" THEN "Unknown" ELSE m.value,
                        Following(core.effect))
    IN  /\ core' = TimerArmCompleted(completed, completed.effect, TRUE)
        /\ view' = completed.surface /\ valid' = TRUE
        /\ attempt' = [attempt EXCEPT !.result = attempt.run]

\* Mutant of EndsSession: what was shown stays.
EndsSessionOnly ==
    /\ contact' = "out" /\ toHost' = <<>> /\ fromHost' = <<>>
    /\ core' = AvailabilityStopped /\ UNCHANGED <<reading, view, valid>>

\* Every way out is an error: the adapter is disconnected, the session's
\* application invalidated and dropped, the socket closed.
EndsSession ==
    /\ contact' = "out" /\ toHost' = <<>> /\ fromHost' = <<>>
    /\ core' = AvailabilityStopped /\ view' = "Unknown" /\ valid' = FALSE
    /\ UNCHANGED reading

\* A result of another request ends the session; a ping is answered; anything
\* else is a protocol error.
Takes ==
    LET m == Head(fromHost) IN
    /\ contact = "await" /\ fromHost # <<>>
    /\ \/ /\ m.type = "AvailabilityResult" /\ m.id = reading
          /\ Shows(m) /\ contact' = "rest" /\ fromHost' = Tail(fromHost)
          /\ UNCHANGED <<reading, toHost>>
       \/ /\ m.type = "Ping" /\ Len(toHost) < StreamMax
          /\ toHost' = Append(toHost, Plain("Pong")) /\ fromHost' = Tail(fromHost)
          /\ UNCHANGED <<contact, reading, core, view, valid, attempt>>
       \/ /\ m.type # "Ping" /\ m.id # reading
          /\ EndsSession /\ UNCHANGED attempt
    /\ UNCHANGED <<waiting, answered>>

\* Two seconds after the request, whatever else has arrived since.
ReadTimesOut ==
    /\ contact = "await"
    /\ EndsSession /\ UNCHANGED <<attempt, waiting, answered>>

\* The hello fails, or the connection is lost.
ContactIsLost ==
    /\ contact \in {"hello", "ask"}
    /\ EndsSession /\ UNCHANGED <<attempt, waiting, answered>>

\* Five hundred rests of ten milliseconds, then RefreshDue.
RestEnds ==
    /\ contact = "rest"
    /\ contact' = "ask" /\ core' = RefreshDue(core, core.effect, Following(core.effect))
    /\ UNCHANGED <<reading, view, valid, attempt, toHost, fromHost, waiting, answered>>

\* Mutant of Polled: the loop looks for commands only when it reads.
PolledWhenReading == {"await"}

\* check_control in every wait, and poll_active_control in every rest.
Polled == InContact

\* Shutdown and unpair end the contact; anything else is refused as Busy.
Polls ==
    /\ contact \in Polled /\ waiting # "none" /\ waiting' = "none"
    /\ \/ waiting \in {"shutdown", "unpair"} /\ EndsSession
       \/ waiting = "run" /\ UNCHANGED <<contact, reading, core, view, valid, toHost, fromHost>>
    /\ UNCHANGED <<attempt, answered>>

\* Outside a contact handle_control carries the command out.
HandlesControl ==
    /\ contact = "out" /\ waiting # "none" /\ waiting' = "none"
    /\ attempt' = IF waiting = "run" THEN [run |-> attempt.run + 1, result |-> 0] ELSE attempt
    /\ view' = IF waiting = "run" THEN view ELSE "Unknown"
    /\ valid' = (valid /\ waiting = "unpair")
    /\ UNCHANGED <<contact, reading, core, toHost, fromHost, answered>>

-----------------------------------------------------------------------------
(* The host's end, and the owner.                                          *)

HostAnswers ==
    /\ toHost # <<>> /\ toHost' = Tail(toHost)
    /\ IF Head(toHost).type = "Pong" THEN UNCHANGED <<fromHost, answered>>
       ELSE /\ Len(fromHost) < StreamMax
            /\ \E value \in HostValue :
                 /\ fromHost' = Append(fromHost, AvailabilityResult(Head(toHost).id, value))
                 /\ answered' = value
    /\ UNCHANGED <<contact, reading, core, view, valid, attempt, waiting>>

HostPings ==
    /\ contact \in {"ask", "await", "rest"} /\ Len(fromHost) < StreamMax
    /\ fromHost' = Append(fromHost, Plain("Ping"))
    /\ UNCHANGED <<contact, reading, core, view, valid, attempt, toHost, waiting, answered>>

Submits(command) ==
    /\ waiting = "none" /\ (command = "run" => attempt.run < AttemptLimit)
    /\ waiting' = command
    /\ UNCHANGED <<contact, reading, core, view, valid, attempt, toHost, fromHost, answered>>

ContactNext ==
    \/ ContactBegins \/ HelloAcked \/ Asks \/ Takes \/ ReadTimesOut \/ ContactIsLost
    \/ RestEnds \/ Polls \/ HandlesControl \/ HostAnswers \/ HostPings
    \/ \E command \in {"shutdown", "unpair", "run"} : Submits(command)

\* The worker runs: it takes commands, and its deadlines pass.  Nothing is
\* assumed of the host.
ContactFairness ==
    WF_contactVars(Polls) /\ WF_contactVars(HandlesControl) /\ WF_contactVars(ReadTimesOut)

ContactSpec == ContactInit /\ [][ContactNext]_contactVars /\ ContactFairness

-----------------------------------------------------------------------------
(* Properties                                                              *)

\* What the device shows is what the host answered last in the session that is
\* still open, and counts for the run attempt in force: no error path, command
\* or new session leaves an old value on display.
ViewIsLive ==
    /\ view # "Unknown" =>
          /\ contact \in {"ask", "await", "rest"}
          /\ contact # "await" => view = answered
    /\ valid => contact # "out" /\ attempt.result = attempt.run

\* An answer on the wire is the answer to the read in progress, so that the
\* protocol error for a foreign result stays unreachable.
AnswersItsRead ==
    \A i \in DOMAIN fromHost : fromHost[i].type = "AvailabilityResult" =>
        contact = "await" /\ fromHost[i].id = reading

\* The device goes by live answers only, on the wire and on the display.
AnswersAreLive == ViewIsLive /\ AnswersItsRead

\* A shutdown or an unpair that arrives during a contact is taken up wherever the
\* loop is, even if the host keeps answering.
CommandTakenUp ==
    waiting \in {"shutdown", "unpair"} /\ contact \in InContact ~> waiting = "none"

\* A read ends within its deadline, even if the host only pings.
ReadEndsInTime == contact = "await" ~> contact # "await"

\* No host keeps the worker in a contact against a command or past a deadline.
ContactMovesOn == CommandTakenUp /\ ReadEndsInTime
=============================================================================
