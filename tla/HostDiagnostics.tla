-------------------------- MODULE HostDiagnostics --------------------------
(***************************************************************************)
(* How the host records what it does (desktop-host lib.rs): a span for     *)
(* every connection, pairing and identity operation, one for every         *)
(* availability read, kept in a map that reader and writer share, and the  *)
(* publisher, whose bounded queue a thread of its own empties into the run *)
(* recorder (RunRecorder).  A full queue loses the event, and the loss is  *)
(* noted.                                                                  *)
(*                                                                         *)
(* A run is named by what it is about: its random identity is fresh.       *)
(***************************************************************************)
EXTENDS Naturals, Sequences

CONSTANTS
    Work,       \* connections, pairings, a client's reads, identity operations
    Read,       \* availability reads that a connection asks for
    StreamError,    \* what a connection may fail with on the way
    Connector,      \* the connector errors that a read may meet
    WorkKind,       \* the kinds of work there is
    QueueMax        \* events the publisher's queue holds, 32 in the code

ASSUME QueueMaxAssumption == QueueMax \in Nat
ASSUME WorkAssumption ==
    /\ Work \cap Read = {} /\ "none" \notin Work
    /\ WorkKind \subseteq {"ProtocolSession", "ProtocolPairing", "AvailabilityRead",
                            "IdentityInit", "IdentityUnpair"}

VARIABLES
    work,       \* the kind of each, where it is, the error it ends with
    admission,  \* the connection that holds the one session
    read,       \* where each read is, its connection, the connector's error
    spans,      \* the spans in hand; those of reads are availability_diagnostics
    drained,    \* the spans finish_all took out of the map
    queue,      \* events on their way to the recorder
    flagging,   \* a sender found the queue full and is about to say so
    dropped,    \* it has said so
    noted,      \* the recorder's health tells of the loss
    recorder,   \* where the publisher's thread is
    live,       \* live_runs
    recorded    \* the run handed to the recorder last under each identity

diagnosticVars == <<work, admission, read, spans, drained, queue, flagging,
                    dropped, noted, recorder, live, recorded>>

NoSession == "none"
NoError == "none"

-----------------------------------------------------------------------------
(* DiagnosticRecord, and the run it is turned into                         *)

\* The recorder's name for a session's error.
error_type ==
    [PairingTimeout |-> "PairingExpired", Incompatible |-> "VersionMismatch",
     AuthorizationDenied |-> "PermissionDenied", SessionBusy |-> "SessionBusy",
     QueueFull |-> "QueueFull", EndOfStream |-> "EndOfStream",
     FrameOversize |-> "FrameOversize", Timeout |-> "RequestTimeout",
     Protocol |-> "MalformedFrame", Noise |-> "AuthenticationFailed",
     Identity |-> "IdentityStore", PairingRejected |-> "PairingRejected",
     PairingIncomplete |-> "PairingIncomplete", StoreFailed |-> "StoreFailed",
     NonLoopback |-> "InvalidAddress", NonPrivateLan |-> "InvalidAddress",
     Io |-> "ConnectionLost"]

Record(run, kind, outcome, error, connector) ==
    [run |-> run, kind |-> kind, outcome |-> outcome, error |-> error, connector |-> connector]

\* What a piece of work is recorded to have failed with: pairing names a timeout
\* after the handshake; identity operations have the recorder's names already.
WorkError(kind, error) ==
    IF kind = "ProtocolPairing" /\ error = "Timeout" THEN "HandshakeTimeout"
    ELSE IF kind = "AvailabilityRead" /\ error = "ReadFailed" THEN "ReadUnavailable"
    ELSE IF kind \in {"IdentityInit", "IdentityUnpair"} THEN error
    ELSE error_type[error]

Success(run, kind) == Record(run, kind, "success", NoError, NoError)
Failure(run, kind, type) == Record(run, kind, "error", type, NoError)

WorkRecord(w, kind, error) ==
    IF error = NoError THEN Success(w, kind) ELSE Failure(w, kind, WorkError(kind, error))

\* A read that was answered: the connector's error is the only one it can have.
host_availability(r, connector) ==
    Record(r, "HostAvailabilityRead", IF connector = NoError THEN "success" ELSE "error",
           NoError, connector)
host_availability_failure(r, error, connector) ==
    [Failure(r, "HostAvailabilityRead", error_type[error]) EXCEPT !.connector = connector]

Operations ==
    [ProtocolPairing |-> <<"TransportAccept", "NoiseHandshake", "PairingConfirm", "PairingPersist">>,
     ProtocolSession |-> <<"TransportAccept", "NoiseHandshake", "ProtocolNegotiate">>,
     AvailabilityRead |-> <<"AvailabilityRead", "TransportFrameRead", "TransportFrameWrite">>,
     HostAvailabilityRead |-> <<"AvailabilityRead", "TransportFrameRead", "HostCapabilityRoute",
                                "ConnectorAvailabilityRead", "TransportFrameWrite">>,
     IdentityInit |-> <<"ControlRoute", "IdentityInit">>,
     IdentityUnpair |-> <<"ControlRoute", "IdentityUnpair">>]

ConnectorErrors == {"ReadUnavailable", "ConnectorUnavailable", "AvailabilityTimeout", "Cancelled"}

ASSUME ErrorAssumption ==
    StreamError \subseteq DOMAIN error_type /\ Connector \subseteq ConnectorErrors

ConnectorStatus(connector) ==
    CASE connector = "AvailabilityTimeout" -> "Timeout"
      [] connector = "Cancelled" -> "Cancel"
      [] OTHER -> "Error"

\* The connector's step fails with the connector, the last one with the record.
protocol_diagnostic_records(record) ==
    [i \in DOMAIN Operations[record.kind] |->
        IF /\ Operations[record.kind][i] = "ConnectorAvailabilityRead"
           /\ record.connector \in ConnectorErrors
        THEN ConnectorStatus(record.connector)
        ELSE IF i = Len(Operations[record.kind]) /\ record.error # NoError
        THEN IF record.outcome = "success" THEN "Success" ELSE "Error"
        ELSE "Success"]

Unrecorded == [is |-> "none", outcome |-> "none", steps |-> <<>>]

\* started: what is known of a run in progress is that it has not succeeded.
Started(run, kind) == Failure(run, kind, NoError)

\* A run in progress has no results yet.
diagnostic_run(record, terminal) ==
    [is |-> IF terminal THEN "complete" ELSE "partial", outcome |-> record.outcome,
     steps |-> IF terminal THEN protocol_diagnostic_records(record)
               ELSE [i \in DOMAIN Operations[record.kind] |-> "InProgress"]]

-----------------------------------------------------------------------------
(* The publisher, from the side of its users                               *)

NoWork == [kind |-> "none", at |-> "out", error |-> NoError]

DiagnosticsInit ==
    /\ work = [w \in Work |-> NoWork]
    /\ admission = NoSession
    /\ read = [r \in Read |-> [at |-> "none", on |-> NoSession, connector |-> NoError]]
    /\ spans = {} /\ drained = {} /\ queue = <<>>
    /\ flagging = FALSE /\ dropped = FALSE /\ noted = FALSE
    /\ recorder = "receive" /\ live = {}
    /\ recorded = [run \in Work \cup Read |-> Unrecorded]

recorderOnly == <<dropped, noted, recorder, live, recorded>>

QueueHasRoom == Len(queue) < QueueMax

\* try_send: an event that finds no room is gone.
send(event) ==
    /\ queue' = IF QueueHasRoom THEN Append(queue, event) ELSE queue
    /\ flagging' = (flagging \/ ~QueueHasRoom)

\* Without room there is no span, and nothing is recorded of the operation.
start(run, kind) ==
    /\ send([type |-> "Start", record |-> Started(run, kind)])
    /\ spans' = IF QueueHasRoom THEN spans \cup {run} ELSE spans

finish(run, record) ==
    /\ IF run \in spans THEN send([type |-> "Finish", record |-> record])
       ELSE UNCHANGED <<queue, flagging>>
    /\ spans' = spans \ {run}

\* The sender that lost an event raises the flag.
FlagsLoss ==
    /\ flagging /\ flagging' = FALSE /\ dropped' = TRUE
    /\ UNCHANGED <<work, admission, read, spans, drained, queue, noted,
                   recorder, live, recorded>>

-----------------------------------------------------------------------------
(* A piece of work: its span ends with it, that of a FailureDiagnostic     *)
(* also when it is dropped on an early return.                             *)

WorkGoes(w, at, error) == work' = [work EXCEPT ![w].at = at, ![w].error = error]

WorkStarts(w) ==
    /\ work[w] = NoWork /\ recorder \in {"receive", "note"}
    /\ \E kind \in WorkKind :
          /\ start(w, kind)
          /\ work' = [work EXCEPT ![w].kind = kind,
                     ![w].at = IF kind = "ProtocolSession" THEN "negotiate" ELSE "busy"]
    /\ UNCHANGED <<recorderOnly, admission, read, drained>>

\* What each kind of work may fail with; diagnostic.error tells of an unpair that
\* had revoked already.
WorkErrors(kind) ==
    CASE kind = "ProtocolPairing" -> {"Timeout", "StoreFailed"}
      [] kind = "AvailabilityRead" -> StreamError \cup {"ReadFailed"}
      [] kind = "IdentityInit" -> {"IdentityStore"}
      [] kind = "IdentityUnpair" -> {"IdentityStore", "RevocationRecoveryRequired"}

\* A pairing, a client's read or an identity operation returns.
WorkReturns(w) ==
    /\ work[w].at = "busy"
    /\ \E error \in WorkErrors(work[w].kind) \cup {NoError} : WorkGoes(w, "served", error)
    /\ UNCHANGED <<recorderOnly, admission, read, spans, drained, queue, flagging>>

WorkEnds(w) ==
    /\ work[w].at = "served"
    /\ finish(w, WorkRecord(w, work[w].kind, work[w].error))
    /\ WorkGoes(w, "over", NoError)
    /\ UNCHANGED <<recorderOnly, admission, read, drained>>

-----------------------------------------------------------------------------
(* A connection and its reads                                              *)

ReadGoes(r, at) == read' = [read EXCEPT ![r].at = at]

\* The reader handles one message at a time.
ReaderIsFree(s) == \A r \in Read : read[r].on = s => read[r].at \notin {"started", "classified"}

\* The handshake, the hello and the one admission.
SessionIsAdmitted(s) ==
    /\ work[s].at = "negotiate" /\ admission = NoSession
    /\ admission' = s /\ WorkGoes(s, "admitted", NoError)
    /\ UNCHANGED <<recorderOnly, read, spans, drained, queue, flagging>>

\* The pairing is looked at once more and HelloAck is sent; a failure gives the
\* admission back.
SessionIsAcked(s) ==
    /\ work[s].at = "admitted"
    /\ \/ WorkGoes(s, "open", NoError) /\ UNCHANGED admission
       \/ /\ \E error \in StreamError : WorkGoes(s, "served", error)
          /\ admission' = NoSession
    /\ UNCHANGED <<recorderOnly, read, spans, drained, queue, flagging>>

SessionIsRefused(s) ==
    /\ work[s].at = "negotiate"
    /\ \E error \in StreamError \cup (IF admission = NoSession THEN {} ELSE {"SessionBusy"}) :
          WorkGoes(s, "served", error)
    /\ UNCHANGED <<recorderOnly, admission, read, spans, drained, queue, flagging>>

\* start_availability_diagnostic, once the request is accepted.
ReadArrives(s, r) ==
    /\ work[s].at = "open" /\ ReaderIsFree(s) /\ read[r].at = "none"
    /\ start(r, "HostAvailabilityRead")
    /\ read' = [read EXCEPT ![r].at = "started", ![r].on = s]
    /\ UNCHANGED <<recorderOnly, work, admission, drained>>

\* invoke, and classify_availability_diagnostic with what the connector reports;
\* the classification waits in the map for the span to be finished.
ReadIsInvoked(r) ==
    /\ read[r].at = "started" /\ work[read[r].on].at = "open"
    /\ \/ /\ \E connector \in Connector \cup {NoError} :
                read' = [read EXCEPT ![r].at = "classified", ![r].connector = connector]
          /\ UNCHANGED work
       \/ /\ ReadGoes(r, "abandoned") /\ WorkGoes(read[r].on, "closing", "Protocol")
    /\ UNCHANGED <<recorderOnly, admission, spans, drained, queue, flagging>>

\* The answer goes to the writer, or the read ends here with the connection.
ReadIsEnqueued(r) ==
    /\ read[r].at = "classified" /\ work[read[r].on].at = "open"
    /\ \/ /\ ReadGoes(r, "queued")
          /\ UNCHANGED <<work, spans, queue, flagging>>
       \/ /\ ReadGoes(r, "abandoned") /\ WorkGoes(read[r].on, "closing", "QueueFull")
          /\ finish(r, host_availability_failure(r, "QueueFull", read[r].connector))
    /\ UNCHANGED <<recorderOnly, admission, drained>>

\* The writer has sent the answer; it does so until it is joined.
ReadIsAnswered(r) ==
    /\ read[r].at = "queued" /\ work[read[r].on].at \in {"open", "closing"}
    /\ ReadGoes(r, "answered")
    /\ finish(r, host_availability(r, read[r].connector))
    /\ UNCHANGED <<recorderOnly, work, admission, drained>>

SessionCloses(s) ==
    /\ work[s].at = "open" /\ ReaderIsFree(s)
    /\ \E error \in StreamError \cup {NoError} :
          WorkGoes(s, "closing", error)
    /\ UNCHANGED <<recorderOnly, admission, read, spans, drained, queue, flagging>>

\* Mutant of WriterIsJoined: the admission is given back before the map is empty.
WriterIsJoinedAndSessionFree(s) ==
    /\ work[s].at = "closing"
    /\ WorkGoes(s, "drain", work[s].error) /\ admission' = NoSession
    /\ UNCHANGED <<recorderOnly, read, spans, drained, queue, flagging>>

\* run_availability_session_inner returns when its writer has ended; what the
\* writer did not send is never sent.
WriterIsJoined(s) ==
    /\ work[s].at = "closing"
    /\ WorkGoes(s, "drain", work[s].error)
    /\ UNCHANGED <<recorderOnly, admission, read, spans, drained, queue, flagging>>

\* finish_all_availability_diagnostics takes every span out of the map, whichever
\* connection it is of, and finishes one after the other.
Drains(s) ==
    /\ work[s].at = "drain"
    /\ WorkGoes(s, "draining", work[s].error)
    /\ drained' = spans \cap Read /\ spans' = spans \ Read
    /\ UNCHANGED <<recorderOnly, admission, read, queue, flagging>>

DrainsOne(s, r) ==
    /\ work[s].at = "draining" /\ r \in drained
    /\ drained' = drained \ {r}
    /\ send([type |-> "Finish",
             record |-> host_availability_failure(r,
                IF work[s].error = NoError THEN "Io" ELSE work[s].error,
                read[r].connector)])
    /\ UNCHANGED <<recorderOnly, work, admission, read, spans>>

\* The admission is given back before the connection's own span is finished.
SessionIsServed(s) ==
    /\ work[s].at = "draining" /\ drained = {}
    /\ admission' = NoSession /\ WorkGoes(s, "served", work[s].error)
    /\ UNCHANGED <<recorderOnly, read, spans, drained, queue, flagging>>

-----------------------------------------------------------------------------
(* The publisher's thread                                                  *)

\* recv, begin_live_run and the run in progress, or the complete run and
\* end_live_run.  A marker may fail; whether the recorder stores the run is not
\* looked at.
TakesEvent ==
    LET event == Head(queue)
        run == event.record.run
    IN
    /\ recorder \in {"receive", "closed"} /\ queue # <<>>
    /\ queue' = Tail(queue)
    /\ recorder' = IF recorder = "closed" THEN "note last" ELSE "note"
    /\ live' \in IF event.type = "Start" THEN {live, live \cup {run}} ELSE {live \ {run}}
    /\ recorded' = [recorded EXCEPT ![run] = diagnostic_run(event.record, event.type = "Finish")]
    /\ UNCHANGED <<work, admission, read, spans, drained, flagging, dropped, noted>>

\* After every event the thread looks for a loss (publish_health_best_effort).
NotesLoss ==
    /\ recorder \in {"note", "note last"}
    /\ recorder' = IF recorder = "note" THEN "receive" ELSE "closed"
    /\ dropped' = FALSE /\ noted' = (noted \/ dropped)
    /\ UNCHANGED <<work, admission, read, spans, drained, queue, flagging, live, recorded>>

\* The last user of the store is gone: the sender is dropped, the thread joined.
PublisherIsDropped ==
    /\ recorder \in {"receive", "note"} /\ ~flagging
    /\ \A w \in Work : work[w].at \in {"out", "over"}
    /\ recorder' = IF recorder = "receive" THEN "closed" ELSE "note last"
    /\ UNCHANGED <<work, admission, read, spans, drained, queue, flagging,
                   dropped, noted, live, recorded>>

\* The thread ends with the queue, and the markers of unfinished runs with it.
PublisherEnds ==
    /\ recorder = "closed" /\ queue = <<>>
    /\ recorder' = "ended" /\ live' = {}
    /\ UNCHANGED <<work, admission, read, spans, drained, queue, flagging,
                   dropped, noted, recorded>>

DiagnosticsNext ==
    \/ \E w \in Work :
          \/ WorkStarts(w) \/ WorkReturns(w) \/ WorkEnds(w)
          \/ SessionIsAdmitted(w) \/ SessionIsAcked(w) \/ SessionIsRefused(w)
          \/ SessionCloses(w) \/ WriterIsJoined(w) \/ Drains(w) \/ SessionIsServed(w)
          \/ \E r \in Read : ReadArrives(w, r) \/ DrainsOne(w, r)
    \/ \E r \in Read : ReadIsInvoked(r) \/ ReadIsEnqueued(r) \/ ReadIsAnswered(r)
    \/ FlagsLoss \/ TakesEvent \/ NotesLoss \/ PublisherIsDropped \/ PublisherEnds

DiagnosticsSpec == DiagnosticsInit /\ [][DiagnosticsNext]_diagnosticVars

-----------------------------------------------------------------------------
(* Properties                                                              *)

\* A read is recorded as a success exactly when its answer was sent and the
\* connector had one, whichever of writer, reader and finish_all ended its span.
AnsweredReadsSucceed ==
    \A r \in Read : recorded[r].is = "complete" =>
        (recorded[r].outcome = "success" <=> read[r].at = "answered" /\ read[r].connector = NoError)

\* A complete run that failed names the step that failed, and one that succeeded
\* names none.
FailureIsNamed ==
    \A run \in DOMAIN recorded : recorded[run].is = "complete" =>
        (recorded[run].outcome = "error" <=>
            \E i \in DOMAIN recorded[run].steps : recorded[run].steps[i] # "Success")

\* The map holds reads of the admitted connection only: none is left when the
\* next connection is served.
SpansAreOfTheSession ==
    \A r \in Read : r \in spans \cup drained => read[r].on = admission

\* A run is kept live only while it runs, or its end is on its way to the
\* recorder, or the loss of its end is about to be told or was told.
LiveIsRunning ==
    \A run \in live :
        \/ run \in spans \cup drained
        \/ \E i \in DOMAIN queue : queue[i].type = "Finish" /\ queue[i].record.run = run
        \/ flagging \/ dropped \/ noted

\* What is recorded of the host's work is true, whatever was lost on the way.
DiagnosticsAreTrue ==
    AnsweredReadsSucceed /\ FailureIsNamed /\ SpansAreOfTheSession /\ LiveIsRunning

=============================================================================
