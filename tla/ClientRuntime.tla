--------------------------- MODULE ClientRuntime ----------------------------
(***************************************************************************)
(* The hosted simulator's protocol runtime (apps/simulator, runtime.rs):   *)
(* a UI thread that owns the application and the protocol adapter, a       *)
(* network worker that owns the TCP session, the channels between them,    *)
(* and the owner who pairs and unpairs the identity under them.            *)
(*                                                                         *)
(* Every handler of the UI thread is one action.  Random session and       *)
(* operation contexts and effect ids are identities in use nowhere else.   *)
(* The availability feature is module Features; the exchange that pairs is *)
(* module Pairing, of which only the outcome is seen here.                 *)
(***************************************************************************)
EXTENDS Features, Sequences, FiniteSets

CONSTANTS
    CommandMax,     \* capacity of the UI -> worker command queue (8)
    PairMax,        \* pairing requests outstanding at one time (TABLE_MAX)
    ClientGenMax,  \* bounds the number of unpairs
    Answer,         \* what the host may answer
    ClientFaults          \* which of ClientFault may occur

ClientFault == {"lost",       \* connecting or reading fails
              "terminal",   \* the host refuses the Hello for good
              "unpair",     \* the owner unpairs
              "shutdown"}   \* the owner shuts the runtime down

ASSUME CommandAssumption == CommandMax \in Nat \ {0}
ASSUME AnswerAssumption == Answer \subseteq {"Available", "Unavailable", "ReadFailed"}
ASSUME FaultAssumption == ClientFaults \subseteq ClientFault
ASSUME ClientGenAssumption == ClientGenMax \in Nat

VARIABLES
    ui,         \* the UI thread's state
    acks,       \* joins the UI thread owes the owner: the generation whose
                \* revocation it was told of, and whether a shutdown
    worker,     \* the network worker's state
    commands,   \* UI -> worker, bounded
    control,    \* UI -> worker, unbounded
    events,     \* worker -> UI
    requests,   \* owner -> UI
    store       \* the identity store and the owner's unpair

clientVars == <<ui, acks, worker, commands, control, events, requests, store>>

NoId == 0
NoRead == [op |-> NoId, effect |-> NoEffect]

-----------------------------------------------------------------------------
(* The protocol adapter (deskkin-protocol-client).                         *)

NewAdapter == [state |-> "Disconnected", session |-> NoId, active |-> NoRead,
               terminal |-> FALSE]

Connecting(a) == IF a.state = "Stopped" THEN a ELSE [a EXCEPT !.state = "Connecting"]

Authenticated(a, session) ==
    IF a.state = "Stopped" THEN a
    ELSE [a EXCEPT !.session = session, !.state = "Authenticated"]

\* A failed connection keeps session and active read.
ConnectionFailed(a) == IF a.state = "Stopped" THEN a ELSE [a EXCEPT !.state = "Backoff"]

HelloRejected(a) == [a EXCEPT !.state = "Stopped", !.terminal = TRUE]

MayRead(a) == a.state = "Authenticated" /\ a.active = NoRead

Accepts(a, session, op) ==
    a.state = "Authenticated" /\ a.session = session /\ a.active # NoRead /\ a.active.op = op

\* Mutant: the read is not forgotten with the session.
DisconnectedKeepsRead(a) == IF a.state = "Stopped" THEN a ELSE [a EXCEPT !.state = "Backoff"]

Disconnected(a) ==
    IF a.state = "Stopped" THEN a ELSE [NewAdapter EXCEPT !.state = "Backoff"]

StopAdapter(a) == [a EXCEPT !.state = "Stopped", !.session = NoId, !.active = NoRead]

-----------------------------------------------------------------------------
(* What the UI thread's handlers are made of: functions of its state.      *)

\* Timers are single-shot; starting one restarts it and never fails.
ScheduleReconnect(u) ==
    IF u.adapter.state = "Stopped" THEN u
    ELSE [u EXCEPT !.adapter = ConnectionFailed(@), !.reconnect = TRUE]

ArmRefresh(u, e) ==
    [u EXCEPT !.core = TimerArmCompleted(@, e, TRUE), !.refresh = e]

\* Lifecycle::SessionInvalidated, and the refresh timer if it asks for one.
InvalidateCore(u, e) ==
    LET v == [u EXCEPT !.core = Invalidated(@, e)]
    IN IF u.core.state = "Reading" THEN ArmRefresh(v, e) ELSE v

\* protocol_disconnected: the core is told only if the adapter still runs.
ProtocolDisconnected(u, e) ==
    LET v == [u EXCEPT !.connected = FALSE, !.connecting = FALSE, !.pending = NoId,
                       !.adapter = Disconnected(@)]
        w == IF v.reconnect THEN v ELSE ScheduleReconnect(v)
    IN IF u.adapter.state = "Stopped" THEN w ELSE InvalidateCore(w, e)

\* Mutant: the refresh timer is left to the reconnect.
ReadWhileDisconnectedNoRefresh(u, read, e) ==
    LET v == [u EXCEPT !.core = ReadCompleted(@, read, "Unknown", e)]
    IN IF ~u.connecting /\ ~u.adapter.terminal /\ ~u.reconnect THEN ScheduleReconnect(v) ELSE v

\* complete_read_while_disconnected: when a reconnect is due and cannot be
\* scheduled, the function returns before it dispatches the refresh timer.
ReadWhileDisconnected(u, read, e) ==
    LET v == [u EXCEPT !.core = ReadCompleted(@, read, "Unknown", e)]
        due == ~u.connecting /\ ~u.adapter.terminal /\ ~u.reconnect
    IN IF due /\ u.adapter.state = "Stopped" THEN v
       ELSE ArmRefresh(IF due THEN ScheduleReconnect(v) ELSE v, e)

\* protocol_terminal: the timer an interrupted read asks for is refused, which
\* stops the feature.
ProtocolTerminal(u, e) ==
    LET v == [u EXCEPT !.connected = FALSE, !.connecting = FALSE, !.pending = NoId,
                       !.reconnect = FALSE, !.adapter = HelloRejected(@),
                       !.core = Invalidated(@, e)]
    IN [v EXCEPT !.core = TimerArmCompleted(@, e, FALSE)]

-----------------------------------------------------------------------------
(* Identities in use, and messages.                                        *)

\* An identity that is not in use.
Fresh(used) == CHOOSE n \in 1..(Cardinality(used) + 1) : n \notin used
Elements(q) == {q[i] : i \in 1..Len(q)}

EffectsInUse == {ui.core.effect, ui.refresh, ui.adapter.active.effect}
Effect1 == Fresh(EffectsInUse)
Effect2 == Fresh(EffectsInUse \cup {Effect1})

SessionsInUse ==
    {ui.pending, ui.adapter.session, worker.session}
      \cup {m.session : m \in Elements(commands) \cup Elements(events)}
FreshSession == Fresh(SessionsInUse)

OperationsInUse ==
    {ui.adapter.active.op, worker.op}
      \cup {m.op : m \in Elements(commands) \cup Elements(events)}
FreshOperation == Fresh(OperationsInUse)

Commands == [kind : {"Pair", "Connect", "Read"}, session : Nat, op : Nat]
PairCommand == [kind |-> "Pair", session |-> NoId, op |-> NoId]
ConnectCommand(s) == [kind |-> "Connect", session |-> s, op |-> NoId]
ReadCommand(s, op) == [kind |-> "Read", session |-> s, op |-> op]

Event(kind, s, op, result) ==
    [kind |-> kind, session |-> s, op |-> op, result |-> result, gen |-> 0]
OwnerEvent(kind, gen) == [kind |-> kind, gen |-> gen]
Lost == "lost"

\* What a command that meets a revoked worker is answered; a pairing task is
\* finished without an event.
Reject(c) ==
    IF c.kind = "Connect" THEN Event("Connected", c.session, NoId, Lost)
    ELSE Event("ReadCompleted", c.session, c.op, Lost)

Surface(answer) == IF answer = "ReadFailed" THEN "Unknown" ELSE answer

\* Pairing commands accepted and not yet answered.
Pairings ==
    Len(SelectSeq(requests, LAMBDA r : r.kind = "PairStart"))
      + Len(SelectSeq(commands, LAMBDA c : c.kind = "Pair"))
      + Len(SelectSeq(events, LAMBDA e : e.kind = "Paired"))
      + (IF worker.pc \in {"pair", "trusted"} THEN 1 ELSE 0)

\* try_send of the bounded queue; it also fails once the worker is gone.
Room == Len(commands) < CommandMax /\ worker.pc # "stopped"
Command(m) == control' = IF worker.pc = "stopped" THEN control ELSE Append(control, m)

-----------------------------------------------------------------------------
\* run_protocol_desktop: the first connect is queued, then the application
\* starts, its first read finds no connection and the refresh timer runs.
ClientInit ==
    /\ ui = [core |-> [state |-> "Waiting", effect |-> 2, surface |-> "Unknown"],
             refresh |-> 2, reconnect |-> FALSE,
             adapter |-> Connecting(NewAdapter),
             connected |-> FALSE, connecting |-> TRUE, pending |-> 1]
    /\ acks = [revocation |-> 0, shutdown |-> FALSE]
    /\ worker = [pc |-> "control", session |-> NoId, op |-> NoId, gen |-> 0,
                 connected |-> FALSE, revoked |-> FALSE, unpaired |-> FALSE]
    /\ commands = <<ConnectCommand(1)>>
    /\ control = <<>>
    /\ events = <<>>
    /\ requests = <<>>
    /\ \E p \in {"Paired", "Unpaired"} :
          store = [peer |-> p, gen |-> 0, unpair |-> "none", open |-> TRUE]

-----------------------------------------------------------------------------
(* The UI thread: owner requests.                                          *)

Asked(kind) ==
    /\ requests # <<>> /\ Head(requests).kind = kind
    /\ requests' = Tail(requests)

\* Mutant: the core is not told that its session ended.
HandleRevokedSilently ==
    /\ Asked("Revoked")
    /\ ui' = [ui EXCEPT !.connected = FALSE, !.connecting = FALSE, !.reconnect = FALSE,
                        !.adapter = StopAdapter(@)]
    /\ acks' = [acks EXCEPT !.revocation = Head(requests).gen]
    /\ Command("Revoke")
    /\ UNCHANGED <<worker, commands, events, store>>

\* IdentityRevoked.  The pending connect is not forgotten; the join of an
\* earlier unpair is.
HandleRevoked ==
    /\ Asked("Revoked")
    /\ ui' = InvalidateCore([ui EXCEPT !.connected = FALSE, !.connecting = FALSE,
                                       !.reconnect = FALSE,
                                       !.adapter = StopAdapter(@)], Effect1)
    /\ acks' = [acks EXCEPT !.revocation = Head(requests).gen]
    /\ Command("Revoke")
    /\ UNCHANGED <<worker, commands, events, store>>

\* PairStart: a full queue fails the pairing task.
HandlePairStart ==
    /\ Asked("PairStart")
    /\ commands' = IF Room THEN Append(commands, PairCommand) ELSE commands
    /\ UNCHANGED <<ui, acks, worker, control, events, store>>

\* Mutant: the worker is not told to stop.
HandleShutdownSilently ==
    /\ Asked("Shutdown")
    /\ acks' = [acks EXCEPT !.shutdown = TRUE]
    /\ UNCHANGED <<ui, worker, commands, control, events, store>>

\* RuntimeShutdown: joined only once the worker has ended.
HandleShutdown ==
    /\ Asked("Shutdown")
    /\ acks' = [acks EXCEPT !.shutdown = TRUE]
    /\ Command("Shutdown")
    /\ UNCHANGED <<ui, worker, commands, events, store>>

-----------------------------------------------------------------------------
(* The UI thread: network events.                                          *)

Receive(kind) ==
    /\ events # <<>> /\ Head(events).kind = kind
    /\ events' = Tail(events)

\* Paired: only durable trust restarts the adapter; a terminal refusal of the
\* first Hello stops it again.
HandlePaired ==
    /\ Receive("Paired")
    /\ LET result == Head(events).result
           u == [ui EXCEPT !.connected = FALSE, !.connecting = FALSE,
                           !.adapter = NewAdapter]
       IN ui' = CASE result = "untrusted" -> ui
                  [] result = "terminal" -> [u EXCEPT !.adapter = HelloRejected(@)]
                  [] OTHER -> ScheduleReconnect(u)
    /\ UNCHANGED <<acks, worker, commands, control, requests, store>>

\* handle_connect_result: an answer nobody waits for is dropped.
HandleConnected ==
    /\ Receive("Connected")
    /\ LET m == Head(events)
           u == [ui EXCEPT !.connecting = FALSE, !.pending = NoId]
       IN ui' = CASE ui.pending # m.session -> ui
                  [] ui.pending = m.session /\ m.result = "ok" ->
                        [u EXCEPT !.reconnect = FALSE, !.connected = TRUE,
                                  !.adapter = Authenticated(@, m.session)]
                  [] ui.pending = m.session /\ m.result = "terminal" ->
                        ProtocolTerminal(u, Effect1)
                  [] ui.pending = m.session /\ m.result = Lost ->
                        ScheduleReconnect(u)
    /\ UNCHANGED <<acks, worker, commands, control, requests, store>>

\* Mutant: the pairing is trusted to be what it was.
StillPairedUnchecked(generation) == TRUE

StillPaired(generation) == store.peer = "Paired" /\ store.gen = generation

\* handle_read_result: any failure, or a pairing that has ended, disconnects;
\* an answer is applied only to the read it belongs to.
HandleReadResult ==
    /\ Receive("ReadCompleted")
    /\ LET m == Head(events)
           a == ui.adapter
           applied == [ui EXCEPT
               !.adapter.active = NoRead,
               !.core = ReadCompleted(@, a.active.effect, Surface(m.result), Effect1)]
       IN ui' = CASE m.result = Lost \/ ~StillPaired(m.gen) ->
                        ProtocolDisconnected(ui, Effect1)
                  [] m.result # Lost /\ StillPaired(m.gen)
                       /\ ui.connected /\ Accepts(a, m.session, m.op) ->
                        IF applied.core = ui.core THEN applied
                        ELSE ArmRefresh(applied, Effect1)
                  [] OTHER -> ui
    /\ UNCHANGED <<acks, worker, commands, control, requests, store>>

\* Closed: whoever waits for a revocation is told, if it still waits.
HandleClosed ==
    /\ Receive("Closed")
    /\ acks' = [acks EXCEPT !.revocation = 0]
    /\ store' = IF acks.revocation = store.gen /\ store.unpair = "joining"
                THEN [store EXCEPT !.unpair = "joined"] ELSE store
    /\ UNCHANGED <<ui, worker, commands, control, requests>>

HandleWorkerStopped ==
    /\ Receive("WorkerStopped")
    /\ acks' = [acks EXCEPT !.shutdown = FALSE]
    /\ UNCHANGED <<ui, worker, commands, control, requests, store>>

-----------------------------------------------------------------------------
(* The UI thread: timers.                                                  *)

\* Mutant: the session asked for is not remembered.
ReconnectTimerForgets ==
    /\ ui.reconnect
    /\ LET u == [ui EXCEPT !.reconnect = FALSE]
       IN IF ui.connected \/ ui.connecting \/ ~Room
          THEN ui' = u /\ UNCHANGED commands
          ELSE /\ ui' = [u EXCEPT !.adapter = Connecting(@), !.connecting = TRUE]
               /\ commands' = Append(commands, ConnectCommand(FreshSession))
    /\ UNCHANGED <<acks, worker, control, events, requests, store>>

\* attempt_protocol_connect.  A queue that is full leaves the next attempt to
\* the refresh timer.
ReconnectTimer ==
    /\ ui.reconnect
    /\ LET u == [ui EXCEPT !.reconnect = FALSE]
           v == [u EXCEPT !.adapter = Connecting(@)]
       IN IF ui.connected \/ ui.connecting
          THEN ui' = u /\ UNCHANGED commands
          ELSE IF Room
          THEN /\ ui' = [v EXCEPT !.connecting = TRUE, !.pending = FreshSession]
               /\ commands' = Append(commands, ConnectCommand(FreshSession))
          ELSE ui' = [v EXCEPT !.pending = NoId] /\ UNCHANGED commands
    /\ UNCHANGED <<acks, worker, control, events, requests, store>>

\* perform_protocol_read of the effect Effect1.  A read the adapter refuses is
\* dropped; one the queue refuses closes the session.
PerformRead(u) ==
    LET read == [u EXCEPT !.adapter.active =
                             [op |-> FreshOperation, effect |-> Effect1]]
    IN \/ /\ ~u.connected
          /\ ui' = ReadWhileDisconnected(u, Effect1, Effect2)
          /\ UNCHANGED <<commands, control>>
       \/ /\ u.connected /\ ~MayRead(u.adapter)
          /\ ui' = u /\ UNCHANGED <<commands, control>>
       \/ /\ u.connected /\ MayRead(u.adapter) /\ Room
          /\ ui' = read
          /\ commands' = Append(commands, ReadCommand(u.adapter.session, FreshOperation))
          /\ UNCHANGED control
       \/ /\ u.connected /\ MayRead(u.adapter) /\ ~Room
          /\ ui' = ProtocolDisconnected(read, Effect2)
          /\ Command("Close")
          /\ UNCHANGED commands

\* protocol_refresh_due and the read it dispatches.
RefreshTimer ==
    /\ ui.refresh # NoEffect
    /\ LET due == [ui EXCEPT !.refresh = NoEffect,
                             !.core = RefreshDue(@, ui.refresh, Effect1)]
       IN \/ /\ due.core = ui.core
             /\ ui' = due /\ UNCHANGED <<commands, control>>
          \/ due.core # ui.core /\ PerformRead(due)
    /\ UNCHANGED <<acks, worker, events, requests, store>>

-----------------------------------------------------------------------------
(* The network worker.                                                     *)

Send(ms) == events' = events \o ms
Hangup == [worker EXCEPT !.connected = FALSE, !.session = NoId, !.op = NoId, !.gen = 0]

Revoked == [Hangup EXCEPT !.revoked = TRUE]

\* The answers to all that is queued, in the order of the commands.
Rejections(q) ==
    LET answered == {i \in 1..Len(q) : q[i].kind # "Pair"}
        place(k) == CHOOSE i \in answered : Cardinality({j \in answered : j <= i}) = k
    IN [k \in 1..Cardinality(answered) |-> Reject(q[place(k)])]

WorkerControl ==
    /\ worker.pc = "control" /\ control # <<>>
    /\ control' = Tail(control)
    /\ LET m == Head(control)
           closed == Event("Closed", NoId, NoId, "ok")
       IN \/ /\ m = "Close"
             /\ worker' = Hangup /\ Send(<<closed>>) /\ UNCHANGED commands
          \/ /\ m = "Revoke"
             /\ worker' = Revoked
             /\ Send(Rejections(commands) \o <<closed>>)
             /\ commands' = <<>>
          \/ /\ m = "Shutdown"
             /\ worker' = [Hangup EXCEPT !.pc = "stopped"]
             /\ Send(<<Event("WorkerStopped", NoId, NoId, "ok")>>)
             /\ commands' = <<>>
    /\ UNCHANGED <<ui, acks, requests, store>>

\* Nothing to control: wait for a command, for ten milliseconds.
WorkerPoll ==
    /\ \/ worker.pc = "control" /\ control = <<>> /\ worker' = [worker EXCEPT !.pc = "recv"]
       \/ worker.pc = "recv" /\ commands = <<>> /\ worker' = [worker EXCEPT !.pc = "control"]
    /\ UNCHANGED <<ui, acks, commands, control, events, requests, store>>

Take(kind) ==
    /\ worker.pc = "recv"
    /\ commands # <<>> /\ Head(commands).kind = kind
    /\ commands' = Tail(commands)

WorkerReject ==
    /\ worker.revoked
    /\ Take("Connect") \/ Take("Read")
    /\ Send(<<Reject(Head(commands))>>)
    /\ worker' = [worker EXCEPT !.pc = "control"]
    /\ UNCHANGED <<ui, acks, control, requests, store>>

\* run_pair_command looks at the store before the exchange and again after it.
WorkerPair ==
    /\ Take("Pair")
    /\ worker' = [worker EXCEPT !.pc = "pair", !.unpaired = store.peer = "Unpaired"]
    /\ UNCHANGED <<ui, acks, control, events, requests, store>>

\* The exchange reaches durable trust (module Pairing), if it gets that far.
WorkerTrust ==
    /\ worker.pc = "pair" /\ store.peer = "Unpaired"
    /\ store' = [store EXCEPT !.peer = "Paired"]
    /\ worker' = [worker EXCEPT !.pc = "trusted"]
    /\ UNCHANGED <<ui, acks, commands, control, events, requests>>

\* Trust counts even when the first Hello then fails.
WorkerPaired ==
    /\ worker.pc \in {"pair", "trusted"}
    /\ LET pairedNow == worker.unpaired /\ store.peer = "Paired"
           results == IF pairedNow THEN {"ok"} \cup (ClientFaults \cap {"lost", "terminal"})
                      ELSE {"untrusted"}
       IN /\ worker' = [worker EXCEPT !.pc = "control", !.unpaired = FALSE,
                                      !.revoked = @ /\ ~pairedNow]
          /\ \E result \in results : Send(<<Event("Paired", NoId, NoId, result)>>)
    /\ UNCHANGED <<ui, acks, commands, control, requests, store>>

\* ClientSession::connect pins the generation before the Hello is answered.
WorkerConnect ==
    /\ ~worker.revoked
    /\ Take("Connect")
    /\ LET s == Head(commands).session
       IN \/ /\ store.peer = "Paired"
             /\ worker' = [worker EXCEPT !.pc = "connect", !.connected = FALSE,
                                         !.session = s, !.gen = store.gen]
             /\ UNCHANGED events
          \/ /\ store.peer # "Paired" \/ "lost" \in ClientFaults
             /\ worker' = [Hangup EXCEPT !.pc = "control"]
             /\ Send(<<Event("Connected", s, NoId, Lost)>>)
    /\ UNCHANGED <<ui, acks, control, requests, store>>

WorkerConnected ==
    /\ worker.pc = "connect"
    /\ \/ /\ worker' = [worker EXCEPT !.pc = "control", !.connected = TRUE]
          /\ Send(<<Event("Connected", worker.session, NoId, "ok")>>)
       \/ \E result \in ClientFaults \cap {"lost", "terminal"} :
             /\ worker' = [Hangup EXCEPT !.pc = "control"]
             /\ Send(<<Event("Connected", worker.session, NoId, result)>>)
    /\ UNCHANGED <<ui, acks, commands, control, requests, store>>

WorkerRead ==
    /\ ~worker.revoked
    /\ Take("Read")
    /\ worker' = [worker EXCEPT !.pc = "read", !.session = Head(commands).session,
                                !.op = Head(commands).op]
    /\ UNCHANGED <<ui, acks, control, events, requests, store>>

\* read_availability checks the generation before it asks and after the answer.
WorkerAnswered ==
    /\ worker.pc = "read"
    /\ LET reply(result) ==
               Send(<<[Event("ReadCompleted", worker.session, worker.op, result)
                         EXCEPT !.gen = worker.gen]>>)
       IN \/ /\ worker.connected /\ StillPaired(worker.gen)
             /\ worker' = [worker EXCEPT !.pc = "control", !.op = NoId]
             /\ \E answer \in Answer : reply(answer)
          \/ /\ ~worker.connected \/ ~StillPaired(worker.gen) \/ "lost" \in ClientFaults
             /\ worker' = [Hangup EXCEPT !.pc = "control"]
             /\ reply(Lost)
    /\ UNCHANGED <<ui, acks, commands, control, requests, store>>

-----------------------------------------------------------------------------
(* The owner: pair, unpair, shut down.                                     *)

OwnerPair ==
    /\ store.open /\ Pairings < PairMax
    /\ requests' = Append(requests, OwnerEvent("PairStart", 0))
    /\ UNCHANGED <<ui, acks, worker, commands, control, events, store>>

\* Exact unpair: the record turns Revoking and the runtime is told to join.
OwnerUnpair ==
    /\ store.open /\ "unpair" \in ClientFaults
    /\ store.peer = "Paired" /\ store.unpair = "none" /\ store.gen < ClientGenMax
    /\ store' = [store EXCEPT !.peer = "Revoking", !.gen = @ + 1, !.unpair = "joining"]
    /\ requests' = Append(requests, OwnerEvent("Revoked", store'.gen))
    /\ UNCHANGED <<ui, acks, worker, commands, control, events>>

\* The join ends: in time, the pairing is erased; late, recovery is required.
OwnerJoin ==
    /\ store.unpair # "none"
    /\ store' = [store EXCEPT !.unpair = "none",
                              !.peer = IF store.unpair = "joined" THEN "Unpaired" ELSE @]
    /\ UNCHANGED <<ui, acks, worker, commands, control, events, requests>>

\* Recovery does not tell the runtime again.
OwnerRecover ==
    /\ store.open /\ store.peer = "Revoking" /\ store.unpair = "none"
    /\ store' = [store EXCEPT !.peer = "Unpaired"]
    /\ UNCHANGED <<ui, acks, worker, commands, control, events, requests>>

OwnerShutdown ==
    /\ store.open /\ "shutdown" \in ClientFaults /\ store.unpair = "none"
    /\ store' = [store EXCEPT !.open = FALSE]
    /\ requests' = Append(requests, OwnerEvent("Shutdown", 0))
    /\ UNCHANGED <<ui, acks, worker, commands, control, events>>

-----------------------------------------------------------------------------
OwnerEvents == HandleRevoked \/ HandlePairStart \/ HandleShutdown
NetworkEvents ==
    HandlePaired \/ HandleConnected \/ HandleReadResult \/ HandleClosed
        \/ HandleWorkerStopped
Worker ==
    WorkerControl \/ WorkerPoll \/ WorkerReject \/ WorkerPair \/ WorkerTrust
        \/ WorkerPaired \/ WorkerConnect \/ WorkerConnected \/ WorkerRead
        \/ WorkerAnswered
ClientOwner == OwnerPair \/ OwnerUnpair \/ OwnerJoin \/ OwnerRecover \/ OwnerShutdown

ClientNext == OwnerEvents \/ NetworkEvents \/ RefreshTimer \/ ReconnectTimer \/ Worker \/ ClientOwner

ClientSpec == ClientInit /\ [][ClientNext]_clientVars

-----------------------------------------------------------------------------
(* Fairness: the UI thread's repeated timers keep draining both channels,  *)
(* its single-shot timers fire, and the worker's loop never stops.  The    *)
(* owner owes nothing.                                                     *)

ClientFairSpec ==
    /\ ClientSpec
    /\ WF_clientVars(OwnerEvents) /\ WF_clientVars(NetworkEvents)
    /\ WF_clientVars(RefreshTimer) /\ WF_clientVars(ReconnectTimer)
    /\ WF_clientVars(Worker)

-----------------------------------------------------------------------------
\* The state of the runtime's parts, and the bound of the command queue.
ClientTypeOK ==
    /\ ui.core \in [state : {"Stopped", "Reading", "ArmingRefresh", "Waiting"},
                    effect : Nat, surface : {"Unknown", "Available", "Unavailable"}]
    /\ ui.adapter \in [state : {"Disconnected", "Backoff", "Connecting",
                                "Authenticated", "Stopped"},
                       session : Nat, terminal : BOOLEAN,
                       active : [op : Nat, effect : Nat]]
    /\ acks \in [revocation : 0..ClientGenMax, shutdown : BOOLEAN]
    /\ Len(commands) <= CommandMax
    /\ store.peer \in {"Paired", "Revoking", "Unpaired"}

\* The adapter's read in progress is the read the application waits for: no
\* loss, revocation, refusal or new pairing leaves one without the other's
\* identity, so no answer can complete a read that has been given up.
ReadsCorrelated ==
    ui.adapter.active # NoRead => Expects(ui.core, "Reading", ui.adapter.active.effect)

\* Once the UI thread has handled a revocation, what it shows is backed by a
\* live authenticated session of the present pairing (apply_view follows every
\* transition, so the core's surface is what is on the screen).
ShownIsLive ==
    ui.core.surface # "Unknown" /\ (\A r \in Elements(requests) : r.kind # "Revoked")
      => ui.connected /\ ui.adapter.state = "Authenticated" /\ store.peer = "Paired"

\* No availability newly appears while the identity is being unpaired, even
\* one the worker read before the unpair began (with_paired_generation in
\* handle_read_result).
NothingShownAfterUnpair ==
    [][ui'.core.surface \notin {"Unknown", ui.core.surface} => store.peer = "Paired"]_clientVars

\* An unpair that was joined has reached the worker: no session of the old
\* pairing is open or being opened, but for one the worker is about to close
\* (an earlier Close may have acknowledged the revocation).
RevocationClosed ==
    store.unpair = "joined" /\ (worker.connected \/ worker.pc = "connect")
      => "Revoke" \in Elements(control)

\* The invariant of the runtime: its types, that no answer reaches a read that was
\* given up, and that no session of a pairing outlives the unpair that was joined.
ClientInv == ClientTypeOK /\ ReadsCorrelated /\ RevocationClosed

\* "The portable core remains the sole owner of refresh state ... the existing
\* core timer determines the next read attempt": the core always waits for a
\* timer that runs or for a read that is in progress.
RefreshIsDriven ==
    /\ ui.core.state # "ArmingRefresh"
    /\ ui.core.state = "Waiting" => ui.refresh = ui.core.effect
    /\ ui.core.state = "Reading" => ui.adapter.active.effect = ui.core.effect

\* "without making a late result from a closed session valid": the runtime
\* counts itself connected only while its adapter is authenticated.
ConnectedIsAuthenticated == ui.connected => ui.adapter.state = "Authenticated"

\* "Terminal incompatibility, missing required features, and authorization
\* denial require an explicit new connect": a terminally refused runtime asks
\* for no connection by itself.
TerminalNeedsNewConnect ==
    [][ui.adapter.terminal /\ ui'.adapter.terminal
         => {c \in Elements(commands') : c.kind = "Connect"} \subseteq Elements(commands)]_clientVars

\* The refresh timer fires for ever, however often the connection is lost,
\* until the owner shuts the runtime down.
KeepsReading == []store.open => []<><<RefreshTimer>>_clientVars

\* A runtime that stays paired shows its host's availability again and again.
AvailabilityShown ==
    <>[](store.peer = "Paired") => []<>(ui.core.surface # "Unknown")

\* The owner's shutdown is joined, and only after the worker has stopped.
\* finish_owner_control waits for it without a timeout.
ShutdownJoined ==
    ~store.open ~> /\ worker.pc = "stopped"
                   /\ ~acks.shutdown
                   /\ \A r \in Elements(requests) : r.kind # "Shutdown"
=============================================================================
