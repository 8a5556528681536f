---------------------------- MODULE HostSession ----------------------------
(***************************************************************************)
(* One admitted session of the desktop host: the reader                    *)
(* (run_availability_session_inner), the writer it starts                  *)
(* (run_session_writer), the client at the other end of the stream, and an *)
(* unpair of the identity store that runs beside them.                     *)
(*                                                                         *)
(* Reader and writer share a bounded application channel, a control slot   *)
(* for one message, a close slot and the failure the writer leaves behind. *)
(* A write happens under the session write gate after the pairing was read *)
(* again under the identity file's lock; unpair takes the two locks in the *)
(* opposite order.                                                         *)
(***************************************************************************)
EXTENDS HostCapabilities, Sequences

CONSTANTS
    AppMax,     \* capacity of the application channel and queue (8)
    AskMax,     \* bound on what the client sends
    HostAnswer  \* what the deterministic connector is set to report

VARIABLES
    client,     \* the client is there, and what it has sent so far
    inbox,      \* messages on their way to the reader
    reader,     \* where the reader stands, and the request it handles
    lastId,     \* last_request_id
    cap,        \* the host's capabilities
    apps,       \* the application channel
    controls,    \* the control channel: Pong or Stop, one at most
    closing,    \* the close slot
    shut,       \* the writer failed and shut the stream down
    writer,     \* where the writer stands, and the message it writes
    queue,      \* SessionWriteQueue
    idle,       \* fifteen seconds since the last write
    gate,       \* holder of session_write_gate
    flock,      \* holder of the identity file's lock
    unpair,     \* where the unpairing owner stands
    record,     \* the durable record: is it paired, in which generation
    sent        \* history: the results written, by their request

sessionVars == <<client, inbox, reader, lastId, cap, apps, controls, closing, shut,
                 writer, queue, idle, gate, flock, unpair, record, sent>>

Result(id, value) == [type |-> "Result", id |-> id, value |-> value]
Frame(type) == [type |-> type, id |-> 0, value |-> "none"]
Ask(id) == [type |-> "Read", id |-> id]
Say(type) == [type |-> type, id |-> 0]

Pinned == 0     \* the generation the session was admitted under
NoLock == "none"
EmptyQueue == [close |-> FALSE, pong |-> FALSE, ping |-> FALSE, app |-> <<>>]

SessionInit ==
    /\ client = [up |-> TRUE, asked |-> 0, said |-> 0]
    /\ inbox = <<>>
    /\ reader = [pc |-> "read", id |-> 0]
    /\ lastId = 0
    /\ cap = Started(NewCapabilities)
    /\ apps = <<>> /\ controls = <<>> /\ closing = FALSE /\ shut = FALSE
    /\ writer = [pc |-> "poll", msg |-> Frame("none")]
    /\ queue = EmptyQueue
    /\ idle = FALSE
    /\ gate = NoLock /\ flock = NoLock /\ unpair = "idle"
    /\ record = [paired |-> TRUE, gen |-> Pinned]
    /\ sent = <<>>

-----------------------------------------------------------------------------
(* The client: requests in sequence, or one it repeats; pings; a Close; a  *)
(* message that does not belong here.  It may leave at any time.           *)

ClientSays ==
    /\ client.up /\ client.said < AskMax
    /\ \/ \E id \in {client.asked, client.asked + 1} \ {0} :
            /\ inbox' = Append(inbox, Ask(id))
            /\ client' = [client EXCEPT !.asked = id, !.said = @ + 1]
       \/ \E type \in {"Ping", "Pong", "Close", "Other"} :
            /\ inbox' = Append(inbox, Say(type))
            /\ client' = [client EXCEPT !.said = @ + 1]
    /\ UNCHANGED <<reader, lastId, cap, apps, controls, closing, shut, writer,
                   queue, idle, gate, flock, unpair, record, sent>>

ClientLeaves ==
    /\ client.up
    /\ client' = [client EXCEPT !.up = FALSE]
    /\ UNCHANGED <<inbox, reader, lastId, cap, apps, controls, closing, shut,
                   writer, queue, idle, gate, flock, unpair, record, sent>>

-----------------------------------------------------------------------------
(* The reader.                                                             *)

readerOnly == <<client, shut, writer, queue, idle, gate, flock, unpair, record, sent>>

ReaderAt(pc) == reader' = [reader EXCEPT !.pc = pc]

accept_request_id(id) == id = lastId + 1

ReaderReads ==
    /\ reader.pc = "read" /\ inbox # <<>>
    /\ inbox' = Tail(inbox)
    /\ LET m == Head(inbox) IN
       \/ /\ m.type = "Read" /\ accept_request_id(m.id)
          /\ lastId' = m.id
          /\ reader' = [pc |-> "pinned", id |-> m.id]
          /\ UNCHANGED <<controls, closing>>
       \/ /\ m.type = "Read" /\ ~accept_request_id(m.id)
          /\ ReaderAt("drop")
          /\ UNCHANGED <<lastId, controls, closing>>
       \/ /\ m.type = "Ping"
          /\ IF controls = <<>>
             THEN controls' = <<"Pong">> /\ ReaderAt("failure")
             ELSE UNCHANGED controls /\ ReaderAt("drop")
          /\ UNCHANGED <<lastId, closing>>
       \/ /\ m.type = "Pong"
          /\ ReaderAt("failure")
          /\ UNCHANGED <<lastId, controls, closing>>
       \/ /\ m.type = "Close"
          /\ closing' = TRUE
          /\ ReaderAt("join")
          /\ UNCHANGED <<lastId, controls>>
       \/ /\ m.type = "Other"
          /\ ReaderAt("drop")
          /\ UNCHANGED <<lastId, controls, closing>>
    /\ UNCHANGED <<readerOnly, cap, apps>>

\* Thirty seconds without a message, or the stream is closed.
ReaderTimesOut ==
    /\ reader.pc = "read" /\ (inbox = <<>> \/ shut \/ ~client.up)
    /\ ReaderAt("drop")
    /\ UNCHANGED <<readerOnly, inbox, lastId, cap, apps, controls, closing>>

IsPinned == record.paired /\ record.gen = Pinned

\* paired_generation under the file's lock, then the capability is invoked.
ReaderChecks ==
    /\ reader.pc = "pinned" /\ flock = NoLock
    /\ IF IsPinned /\ MayInvoke(cap)
       THEN cap' = Invoked(cap) /\ ReaderAt("enqueue")
       ELSE UNCHANGED cap /\ ReaderAt("drop")
    /\ UNCHANGED <<readerOnly, inbox, lastId, apps, controls, closing>>

\* lock_identity gives up after two seconds.
LockTimesOut == flock # NoLock

ReaderLockTimesOut ==
    /\ reader.pc = "pinned" /\ LockTimesOut
    /\ ReaderAt("drop")
    /\ UNCHANGED <<readerOnly, inbox, lastId, cap, apps, controls, closing>>

ReaderEnqueues ==
    /\ reader.pc = "enqueue"
    /\ IF Len(apps) < AppMax /\ writer.pc # "ended"
       THEN /\ apps' = Append(apps, Result(reader.id, ProtocolAvailability(HostAnswer)))
            /\ ReaderAt("failure")
       ELSE UNCHANGED apps /\ ReaderAt("drop")
    /\ UNCHANGED <<readerOnly, inbox, lastId, cap, controls, closing>>

\* After every message the reader looks for the writer's failure.
ReaderLooks ==
    /\ reader.pc = "failure"
    /\ ReaderAt(IF shut THEN "drop" ELSE "read")
    /\ UNCHANGED <<readerOnly, inbox, lastId, cap, apps, controls, closing>>

\* SessionWriter::drop: Stop is lost when the control slot is taken.
ReaderDrops ==
    /\ reader.pc = "drop"
    /\ controls' = IF controls = <<>> THEN <<"Stop">> ELSE controls
    /\ ReaderAt("join")
    /\ UNCHANGED <<readerOnly, inbox, lastId, cap, apps, closing>>

\* The writer is joined; only then is the admission given back.
ReaderJoins ==
    /\ reader.pc = "join" /\ writer.pc = "ended"
    /\ ReaderAt("ended")
    /\ UNCHANGED <<readerOnly, inbox, lastId, cap, apps, controls, closing>>

-----------------------------------------------------------------------------
(* The writer.                                                             *)

writerOnly == <<client, inbox, reader, lastId, cap, flock, unpair, record>>

\* Close before Pong before Ping before results, oldest first.
pop(q) ==
    IF q.close THEN <<Frame("Close"), [q EXCEPT !.close = FALSE]>>
    ELSE IF q.pong THEN <<Frame("Pong"), [q EXCEPT !.pong = FALSE]>>
    ELSE IF q.ping THEN <<Frame("Ping"), [q EXCEPT !.ping = FALSE]>>
    ELSE <<Head(q.app), [q EXCEPT !.app = Tail(q.app)]>>

\* Mutant of enqueue_ping_if_idle: an idle stream is not probed.
enqueue_no_ping(q) == q

enqueue_ping_if_idle(q) ==
    IF q.close \/ q.pong \/ q.app # <<>> THEN q ELSE [q EXCEPT !.ping = TRUE]

WriterStops(failed) ==
    /\ writer' = [writer EXCEPT !.pc = "ended"]
    /\ shut' = (shut \/ failed)

\* One turn of the loop: the close slot, the control slot and the application
\* channel are emptied into the queue, and the next message is taken.
WriterPolls ==
    /\ writer.pc = "poll"
    /\ closing' = FALSE /\ controls' = <<>> /\ apps' = <<>>
    /\ LET told == [queue EXCEPT !.close = @ \/ closing, !.pong = @ \/ controls = <<"Pong">>]
           full == [told EXCEPT !.app = @ \o apps]
       IN  IF controls = <<"Stop">>
           THEN WriterStops(FALSE) /\ queue' = told
           ELSE IF Len(full.app) > AppMax
           THEN WriterStops(TRUE) /\ queue' = told
           ELSE IF full # EmptyQueue
           THEN /\ writer' = [pc |-> "gate", msg |-> pop(full)[1]]
                /\ queue' = pop(full)[2]
                /\ UNCHANGED shut
           ELSE /\ queue' = IF idle THEN enqueue_ping_if_idle(full) ELSE full
                /\ UNCHANGED <<writer, shut>>
    /\ UNCHANGED <<writerOnly, idle, gate, sent>>

WriterIdles ==
    /\ writer.pc = "poll" /\ ~idle
    /\ idle' = TRUE
    /\ UNCHANGED <<writerOnly, apps, controls, closing, shut, writer, queue, gate, sent>>

WriterTakesGate ==
    /\ writer.pc = "gate" /\ gate = NoLock
    /\ gate' = "writer"
    /\ writer' = [writer EXCEPT !.pc = "check"]
    /\ UNCHANGED <<writerOnly, apps, controls, closing, shut, queue, idle, sent>>

\* Mutant of WriterChecks: the gate is given back before the write.
WriterChecksAndReleases ==
    /\ writer.pc = "check" /\ flock = NoLock
    /\ gate' = NoLock
    /\ IF IsPinned
       THEN writer' = [writer EXCEPT !.pc = "write"] /\ UNCHANGED shut
       ELSE WriterStops(TRUE)
    /\ UNCHANGED <<writerOnly, apps, controls, closing, queue, idle, sent>>

\* The pairing is read again, under the gate, before anything is written.
WriterChecks ==
    /\ writer.pc = "check" /\ flock = NoLock
    /\ IF IsPinned
       THEN writer' = [writer EXCEPT !.pc = "write"] /\ UNCHANGED <<shut, gate>>
       ELSE WriterStops(TRUE) /\ gate' = NoLock
    /\ UNCHANGED <<writerOnly, apps, controls, closing, queue, idle, sent>>

WriterLockTimesOut ==
    /\ writer.pc = "check" /\ LockTimesOut
    /\ WriterStops(TRUE) /\ gate' = NoLock
    /\ UNCHANGED <<writerOnly, apps, controls, closing, queue, idle, sent>>

\* A stream whose client has left may still take a frame.
WriterWrites ==
    /\ writer.pc = "write"
    /\ sent' = IF writer.msg.type = "Result" THEN Append(sent, writer.msg.id) ELSE sent
    /\ idle' = FALSE /\ gate' = NoLock
    /\ writer' = [writer EXCEPT !.pc = IF writer.msg.type = "Close" THEN "ended" ELSE "poll"]
    /\ UNCHANGED <<writerOnly, apps, controls, closing, shut, queue>>

WriteFails ==
    /\ writer.pc = "write" /\ ~client.up
    /\ WriterStops(TRUE) /\ gate' = NoLock
    /\ UNCHANGED <<writerOnly, apps, controls, closing, queue, idle, sent>>

-----------------------------------------------------------------------------
(* An unpair, and the pairing that may follow it.                          *)

unpairOnly == <<client, inbox, reader, lastId, cap, apps, controls, closing, shut,
                writer, queue, idle, sent>>

UnpairLocks ==
    /\ unpair = "idle" /\ flock = NoLock /\ record = [paired |-> TRUE, gen |-> Pinned]
    /\ flock' = "unpair" /\ unpair' = "locked"
    /\ UNCHANGED <<unpairOnly, gate, record>>

UnpairTakesGate ==
    /\ unpair = "locked" /\ gate = NoLock
    /\ gate' = "unpair" /\ unpair' = "gated"
    /\ UNCHANGED <<unpairOnly, flock, record>>

\* Revoking is durable: trust has ended and the generation has moved on.
UnpairPublishes ==
    /\ unpair = "gated"
    /\ record' = [paired |-> FALSE, gen |-> record.gen + 1]
    /\ gate' = NoLock /\ unpair' = "revoked"
    /\ UNCHANGED <<unpairOnly, flock>>

UnpairReturns ==
    /\ unpair = "revoked"
    /\ flock' = NoLock /\ unpair' = "done"
    /\ UNCHANGED <<unpairOnly, gate, record>>

PairedAgain ==
    /\ unpair = "done" /\ ~record.paired /\ flock = NoLock
    /\ record' = [record EXCEPT !.paired = TRUE]
    /\ UNCHANGED <<unpairOnly, gate, flock, unpair>>

ReaderStep ==
    \/ ReaderReads \/ ReaderTimesOut \/ ReaderChecks \/ ReaderLockTimesOut
    \/ ReaderEnqueues \/ ReaderLooks \/ ReaderDrops \/ ReaderJoins
WriterStep ==
    \/ WriterPolls \/ WriterTakesGate \/ WriterChecks \/ WriterLockTimesOut
    \/ WriterWrites \/ WriteFails
UnpairStep == UnpairTakesGate \/ UnpairPublishes \/ UnpairReturns

SessionNext ==
    \/ ClientSays \/ ClientLeaves \/ ReaderStep \/ WriterStep \/ WriterIdles
    \/ UnpairLocks \/ UnpairStep \/ PairedAgain

\* Both threads and the owner run, time passes, a mutex is not withheld from a
\* thread that keeps asking, a client does not stay for ever and the stream it
\* left ends up refusing what is written.
SessionFairness ==
    /\ WF_sessionVars(ReaderStep)
    /\ WF_sessionVars(WriterStep)
    /\ WF_sessionVars(WriterIdles)
    /\ SF_sessionVars(UnpairTakesGate)
    /\ WF_sessionVars(UnpairStep)
    /\ SF_sessionVars(WriterTakesGate)
    /\ SF_sessionVars(WriteFails)
    /\ WF_sessionVars(ClientLeaves)

SessionSpec == SessionInit /\ [][SessionNext]_sessionVars /\ SessionFairness

-----------------------------------------------------------------------------
(* Results leave in the order of their requests and each of them once,     *)
(* although Close, Pong and Ping overtake them in the queue.               *)
AnswersInOrder == \A i \in DOMAIN sent : sent[i] = i

(* No frame is written once the pairing of the session is revoked, even    *)
(* when the same device has been paired again: the check and the write are *)
(* one step for unpair, which needs the gate.                              *)
WritesArePinned == [][WriterWrites => IsPinned]_sessionVars

(* The writer writes what it should: frames of the pinned pairing only, and *)
(* the results in the order of their requests.                             *)
WritesAreSound == WritesArePinned /\ []AnswersInOrder

(* The admission is given back once the reader is done, even when the Stop *)
(* was lost because a Pong still filled the control slot: then the probe   *)
(* of the idle stream is what ends the writer.                             *)
SessionReleased == (reader.pc \in {"drop", "join"}) ~> (reader.pc = "ended")

(* An unpair that holds the file's lock gets the gate, although the writer *)
(* takes the two in the opposite order.                                    *)
UnpairProceeds == (unpair = "locked") ~> (unpair = "done")

(* Reader, writer and unpair wait for each other's locks, slots and threads, *)
(* and each of these waits ends.                                           *)
SessionSettles == SessionReleased /\ UnpairProceeds
=============================================================================
