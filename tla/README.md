# Deskkin in TLA+

Deskkin is a desktop companion: an application core that shows whether its
owner is available, a device (or a simulator on the desktop) that presents it,
and a desktop host that the device pairs with and reads the availability from
over an authenticated connection. This directory holds TLA+ models of the parts
where the order of events decides whether the system is right, the TLC runs
that check them on small instances, and proofs that TLAPS checks.

`PROJECT.json` lists the components, the runs, the source lines of every
definition, one deliberate fault per checked property, and the hazards the
properties are meant for.

    tlc -config MCFaults.cfg MCFaults     # any run of PROJECT.json
    tlapm PairingProofs.tla               # any *Proofs module

## The system

| Part | State it keeps | Operations | Talks to |
|---|---|---|---|
| identity store (`desktop-host/src/lib.rs`, `identity_actor.rs`) | private key, generation, peer record, in a file | init, publish a peer record, unpair in two phases | pairing, sessions, owner |
| pairing responder (`desktop-host`) | one thread per connection, a window with a deadline | accept, confirm digits, prepare, commit, trust | initiator by messages, store |
| pairing initiator (`desktop-host` for the simulator, `core-s3-service` for the device) | one thread | connect, confirm, prepare, commit, trust, Hello | responder, store |
| host accept loop (`desktop-host`) | window, reservation, permits, connection threads, acknowledgements owed | accept, reserve, expire, revoke, join, shut down | owner control, connection threads, identity actor |
| host session (`desktop-host`, `deskkin-host-capabilities`) | reader, writer, their queues, the effect in flight | read, answer, ping, pong, close, stop | client by messages, the store's locks |
| owner control (`owner_control.rs`) | table of commands, workers, decisions, socket | pair, decide, unpair, query, shut down | store, loop or runtime by events |
| profiles (`profile.rs`) | stored profiles, two file locks | set, delete, list, status, stop, run | running hosts through lock and socket |
| application (`deskkin-application`, `application-features`) | two features, their awaited effects, the view | start, stop, invalidate, command, effect answer | the shell, by effects |
| protocol adapter (`deskkin-protocol-client`) | connection state, session, the read in progress, backoff | connecting, authenticated, read, result, disconnected, stop | the runtime |
| simulator runtime (`simulator/src/runtime.rs`) | UI thread, two timers, a network worker, three channels | handlers of owner and network events, timers, the worker's loop | all of the above |
| device service (`core-s3-service/src/lib.rs`) | service stage, contact with the host, view, records in flash | control commands, pairing, availability loop, recovery | host, the other processor |
| device control (`core-s3-service/src/adapter.c`) | UART reader, two queues, completions | submit, complete, time out, purge | owner, service worker |
| two-processor exchange (`deskkin-core-s3`, `core-s3-amp`) | touch ring, published slots | publish, copy, check again | renderer |
| renderer (`core-s3-amp/renderer`) | two band buffers, two queues, the frame in progress | begin band, submit, transfer, complete | display |
| boot (`core-s3-amp/src/main.c`) | stages of both processors, memory that changes owner | start, hand over, join, add to the heap | both processors |
| run recorder (`local-run-recorder`) | run files, markers, a lock | begin, publish, recover, retain, release, delete | files |
| host diagnostics (`desktop-host/src/lib.rs`) | spans, the reads' map, a bounded queue, its thread | begin, finish, drain, publish, note a loss | sessions, run recorder |
| presentation (`deskkin-presentation`) | occlusion, pixels | draw | renderer |

What is hard in it: a pairing is a distributed commit between two stores, and
either side may crash, time out, be unpaired or meet a rival at any step; the
simulator's UI thread and its worker exchange results that may be out of date
when they are handled; an unpair must reach sessions that are open, being
opened or waiting for the same locks; the device may lose power between any two
flash writes; its processors share memory without a lock; and the application
must not take the late answer of an abandoned effect for a new one.

## Modules

Every `*.tla` below is one component, its variables the component's state and
its actions the component's operations; the `MC*` modules give TLC an instance.

### Pairing

* `PairingTrust` says what pairing promises, without messages: a peer record
  climbs Unpaired, Pending, Committing, Paired, each rung conditioned on what
  the other store has published, and leaves only through Revoking, which opens
  a new generation. `peer` and `gen` are the durable records; `consent` and
  `log` are history.
* `Pairing` is the protocol. `rpc[t]` and `ipc[t]` say where the responder's
  and the initiator's thread of transaction `t` stands; `toR` and `toI` are the
  connection's two directions. An action is the code between two blocking
  points: one message read and what follows it, one publication, one
  confirmation. The host and the hosted simulator check the stored record
  before they publish (`set_peer`, `ValidPeerTransition`); the device does not
  (`publish_peer`). `BeginUnpair` and `FinishUnpair` are the two phases of
  unpairing on either side.
* `KeepsTrust` is the refinement: the variables of `PairingTrust` are variables
  of `Pairing`, so the mapping is the identity and the abstract specification
  is a property of the protocol.

`Faults` chooses what may go wrong: `stop` (a thread ends between any two
steps: crash, broken connection), `deadline` (the window has closed when the
code looks), `busy` (the pairing window is not reserved for this connection),
`store` (a publication fails), `unpair`.

Abstractions. Keys are determined by the transaction: what Noise authenticates
is taken for granted, and transactions (16 random bytes) do not collide. The
message queues are ordered and break, but lose nothing in the middle, as TCP
under Noise does. A publication is one step that succeeds or fails; what is
below it is the business of the next two modules.

### The stores

* `PeerRegister` is what the identity store promises: one record, visible
  before it is durable, that changes by the legal steps of a peer.
* `IdentityFile` is the store as files: lock, scan, read, temporary file,
  sync, rename, sync of the directory. Users die at any step, file operations
  fail, and a loss of power takes back what was not synced (`disk` is what
  would be left). `ImplementsRegister` maps `canonical` to the visible and
  `disk` to the durable record.
* `DeviceStore` is the device's identity and Wi-Fi configuration in flash: two
  slots and an intent each, `select_slot`, the three writes of a publication,
  provisioning, pairing, unpairing and the recovery of an interrupted unpair,
  with `Reboot` possible before and after each write. `ram` is the copy that
  the status commands answer from.

### The host

* `HostLoop` is `host_accept_loop` with the threads it starts, the owner's
  events and the identity actor. The loop is one task (`lpc`), the connection
  threads are `conn`, the two-second limit of the identity lock is a step that
  may happen whenever the lock is taken. `attempts` and `stolen` are history.
* `HostCapabilities` holds the connector's lifecycle as operators on its state;
  `HostSession` uses them. It is one admitted session: reader, writer, the
  bounded application channel, the control slot for one message, the close
  slot, the session gate and the file's lock, an unpair beside them.
* `OwnerControl` is the command table: `table`, the workers' `updates`, the
  prompts of pairing threads and the decisions sent to them, expiry after ten
  minutes, and clients that repeat a command under the same identity.
* `ProfileLifecycle` has one process per command. The operation lock, the owner
  locks, the sockets and the discovery of a live owner are its state; a process
  may crash anywhere, which frees its locks and leaves its files.
* `RunRecorder` has one process per recorder: live marker, record in progress,
  terminal record, recovery of what a crash left, retention, the byte limit and
  the administration commands, each under the store's lock. A record carries the
  date that the system clock showed, any date: the clock may stand still or be
  set back, and of records with one date any may be removed first.
* `HostDiagnostics` is what the host records of its own work: a span for every
  connection, pairing and identity operation, one for every availability read,
  and the publisher, whose bounded queue loses events when it is full.

### Application and client

* `Features` holds the two features as functions of their state, shared by
  `Application`, `ClientRuntime` and `DeviceSession`.
* `Application` is `Application::transition` with an arbitrary shell: any
  effect ever requested may be answered late, twice, in any order or never. An
  action is an accepted input; an input that one feature rejects publishes
  nothing and is a stuttering step. `LastId` stands for `u64::MAX`: at the end
  of the identities the transitions that need one are refused. `history`
  remembers the effects given up, the request that produced what is shown, and
  the newest request made before the latest invalidation. The view is a
  function of the features' state and has no variable of its own.
* `ClientRuntime` is the simulator's protocol runtime: `ui` is the UI thread's
  state (the availability feature, the adapter, the flags and timers), `worker`
  the network worker, `commands`, `control`, `events`, `requests` the channels,
  `acks` the joins the UI thread owes the owner, `store` the identity and the
  owner's unpair. Every handler of the UI thread is one action with everything
  it calls; the worker's loop is split where it blocks or looks at the store
  again.

Abstractions of the client. Session contexts, operations and effect ids are the
least identity nowhere in use; an operation and its request id are one. The
delays of the backoff are left out, as are spans and recording. Slint timers
start when asked. The window being closed by its user is not modelled, only the
owner's shutdown. Of the exchange that pairs, the runtime sees whether it
reached trust and how its first Hello ended. A read of the identity that gives
up after two seconds of waiting for the file's lock has the outcome of a read of
a revoked identity. The request counter's overflow is not reached.

### The device

* `DeviceControl`: the UART reader hands one frame at a time to the worker
  through a queue for commands and one reserved for control; the worker's
  completions come back through a third. Timeouts purge and answer. Touches
  store over `UI_ACTION`.
* `DeviceSession`: the worker's contact with its host, from Hello to the loop
  that asks, awaits, shows and rests, polling for commands between.
* `AmpChannel`: one generation-published slot, written and copied in two parts
  so that a copy may be torn. `channel` says which of the five it is; they
  differ in their retries, in what they do with a bad copy, and in whether the
  copy goes into the record in use. `LatestValue` is its abstract form.
* `AmpTouch`: the ring of touch samples with its publication words.
* `FrameBands`: the renderer and the display thread with two band buffers, two
  queues and the reported stage. Pixels are named by frame and band.
* `DeviceBoot`: both processors' threads from power on, the publications that
  each waits for, and the stacks that become heap.

## Runs

TLC explores six instances that must hold and six that end in a counterexample.
Four of the six (`faults`, `session`, `tools`, `device`) hold several components
that do not interact: variable `part` is chosen in the first state, the chosen
part moves by its own next-state relation, and the others rest. Their state
space is the sum, not the product, of the parts', and each part's fairness is
asked of its own behaviours only.

| Run | Instance | Shows |
|---|---|---|
| rivals | a device and a simulator compete for one host, two transactions, generations up to 2, all faults, fair | the two sides agree (`Agreement`); `Pairing` implements `PairingTrust` (`KeepsTrust`); every thread ends |
| faults | client: queue of 1, two unpairs, lost and refused connections | `ClientInv`: no answer reaches a read that was given up and no session outlives a joined unpair; what is shown is live; nothing newly appears during an unpair |
| | pairing: one device, two transactions, all faults | consent, and generations that pin one transaction, when a device pairs again |
| | file: two users, one unpair | what was acknowledged is durable; the files implement the register |
| | store: two hosts, 9 publications, 2 generations, 2 configurations | what the device reported holds after failed writes and loss of power; a generation names one host |
| | channel: 4 publications, each of the five slots | a slot implements the latest value |
| | application: 6 identities per feature | no stale effect, nothing stale shown |
| | diagnostics: a session and an unpair, one read, a queue of 2 | what is recorded of the host's work is true, whatever was lost on the way (`DiagnosticsAreTrue`) |
| session | session: channel of 1, two requests, one unpair and a new pairing | the writer writes only for the pinned pairing and in order; reader, writer and unpair get on |
| | control: a table of 1, a work command and a pairing, two transactions | a repeated command runs once; a pairing is confirmed only by its own decision; the table frees itself |
| | client: queue of 1, lost connections, a shutdown | reading goes on for ever; a shutdown is joined |
| | pairing: the rivals, no faults | a pairing confirmed by both people completes |
| host | two connections, two permits, one pairing command, one unpair, signals, shutdown | a revocation reaches every session before it is acknowledged; whoever opens a window is answered; the host stops |
| tools | profiles: three commands, one name, two roles | a running host keeps its profile and its socket and the recorded stages are true (`CommandsAreSafe`); the operation lock is given back |
| | recorder: two processes, two runs, two dates, room for two records and one kept of each failed outcome | a live run is never called a crash, the limit holds, a retained record stays |
| device | control: five frames (shutdown, invalid, run, unpair, status), queue of 1, two touches | what the owner was told of a command is true |
| | contact: two messages on the way, two run commands | the device goes by live answers; no host holds it past a command or a deadline |
| | touch: ring of 2, six samples | every touch arrives once and whole or is counted |
| | bands: three bands, queues of 2 | frames are whole in transfer and on the panel; each is presented or a fault is reported |
| | boot: both processors | no memory has two owners; the boot ends in service or in a named error |
| | client: queue of 3, no faults | availability is shown again and again |

The bounds. Two transactions are enough for the cases the pairing code
distinguishes: one before, one after an unpair, or two at once. Two generations
allow an unpair and a second one. Six identities let the application start, be
interrupted in a read, restart and run out. A command queue of one makes the
full queue ordinary (the code's is eight); three is more than one runtime ever
has outstanding without an overflow. Eight identities are more than are ever in
use together; TLC would fail on the `CHOOSE` of a fresh one otherwise. Two users
of the file are a writer and whoever interferes; the third adds only waiting. Nine
publications let the device's store pair, be interrupted, recover, pair with
another host and be unpaired again. Four publications let a reader be overtaken in
each of its three attempts. A ring of two with six samples wraps three times,
and may be overrun more than once during a copy. Three bands over two buffers
reuse a buffer inside a frame and across frames. A table of one, a channel of
one and room for two records make the full case ordinary (16, 8 and megabytes in
the code); two dates let two records be older, newer or of one age, and one queued
event of two makes the publisher's full queue (32) ordinary. With two connections one may hold the reservation that the other one
wants; three commands are a host, its change and its stop.

No passing run checks for deadlock: a pairing, a boot, a shut-down runtime, a
command process and a bounded number of publications end. What must not
stop is stated as liveness.

Fairness, and why the code justifies it.

* `Pairing`: each transaction's threads are scheduled, a read notices that its
  peer has left, and both people answer (weak fairness per transaction). Crashes
  may happen but are never relied upon.
* `ClientRuntime`: the UI thread's repeating timer drains both channels, the
  single-shot timers fire, and the worker's loop, whose every wait has a limit,
  goes on. Nothing is assumed of the owner.
* `HostLoop`: the loop, the owner's thread and the connection threads run and a
  window's minute passes; an open session may last for ever, and no signal,
  client or command need come.
* `HostSession`: both threads run and the idle timer fires. Strong fairness for
  taking the session gate (a mutex is not withheld for ever from a thread that
  keeps asking) and for the failure of a write to a stream that its client has
  left.
* `OwnerControl`: somebody asks again, workers report, ten minutes pass, a
  pairing task gives up at its deadline.
* `ProfileLifecycle`: a process that runs goes on; hosts stop when they were
  asked to.
* `DeviceSession`: the worker looks for commands and its deadline passes;
  nothing is assumed of the host. `FrameBands`: the renderer is scheduled;
  the display may hang. `DeviceBoot`: the threads of the first processor run
  and the radio's initialisation returns; the second processor may never answer.

### Where the code and its documents differ

Six runs end in a counterexample on purpose.

* `client_wedge`. After an unpair the adapter is stopped without a terminal
  reason. The next refresh asks for a reconnect, which the stopped adapter
  refuses, and the early return drops the refresh timer the core has just asked
  for (`runtime.rs:919`). The core waits in ArmingRefresh; pairing again
  reconnects but does not start reading. The comment at `runtime.rs:425` gives
  the next read attempt to the core's timer.
* `client_late`. A revocation does not clear `pending_session`, so a connect
  result that was already queued sets `connected` while the adapter is stopped
  (`runtime.rs:672`). `docs/architecture.md:295` denies validity to late results
  of closed sessions. No availability is shown because of it: `ShownIsLive` and
  `NothingShownAfterUnpair` hold.
* `client_terminal`. A pairing whose first Hello is refused for good leaves a
  running reconnect timer running, and the timer connects
  (`runtime.rs:759`). `docs/architecture.md:301` asks for an explicit new
  connect.
* `window`. `README.md:115` lets an opened window authorize one attempt. A
  connection thread learns of the window when it is accepted and reserves it
  later; the end of a first attempt frees the reservation for a second thread
  that was accepted before (`lib.rs:3186`). Consent is still asked for.
* `stranded`. `docs/architecture.md:313` calls pairing and unpairing
  crash-recoverable. A loss of power between the intent and the record leaves
  an intent that matches no slot; every publication is refused while it stands,
  and no unpair recovers it (`core-s3-service/src/lib.rs:388`).
* `torn`. `docs/architecture.md:223` promises stable snapshots. The renderer
  copies the snapshot into the record it draws from, and goes on with it after
  three unstable copies (`renderer/src/adapter.c:463`).

Two smaller observations hold in the model and are not runs of their own. The
first `Closed` event acknowledges a revocation, also one that answers the
`Close` of a full command queue. An unpair can therefore be joined before the
worker has reached its `Revoke`; `RevocationClosed` says that this is the only
way in which a session outlives a joined unpair, and that the `Revoke` is then
on its way. And a touch that falls between a shutdown command and the worker's
next look at `UI_ACTION` erases the shutdown; `ShutdownHolds` excepts it.

## Proofs

All theorems hold for every value of the constants that the named assumptions
admit: any devices, transactions, generations, faults, identities, publications,
connections, processes, hosts and capacities. The assumptions are in the modules
that declare the constants. Most of them only keep a marker value apart from the
members of a set (`NoTxAssumption`, `UserAssumption`, `FrameAssumption`,
`HostKeyAssumption`, `RecordingAssumption`, `KindsAssumption`, `HostAssumption`,
`WorkAssumption`) or say that a bound is a number (`GenerationAssumption`,
`LastIdAssumption`, `PublishAssumption`, `UnpairAssumption`, `ByteAssumption`,
`DateAssumption`, `ProcAssumption`, `CommandAssumption`, `ClientGenAssumption`,
`QueueMaxAssumption`), or that a selection is made from the set it belongs to
(`OwnerAssumption`, `HostedAssumption`, `OwnedAssumption`, `FaultsAssumption`,
`FaultAssumption`). Five say more. `CapacityAssumption`: the touch ring has a slot. `AnswerAssumption`:
the host answers a read with one of the three results it has.
`ErrorAssumption`: what a connection fails with has a name for the recorder
(`error_type` matches every error), and the connector's errors are the four it has.
`BandAssumption`: a frame has two bands and a queue two places.
`CompletionAssumption`: the completion queue holds two (`worker_completions` holds
eight), because one frame that was given up on and the one waited for may both
complete.

Each theorem of the form `Spec => []Inv` rests on an inductive invariant that
says, beside `Inv`, what the steps that could break it rely on.

* `PairingTrustProofs`. `TrustInv` is inductive. `MutualTrust` alone is not: a
  step to Paired is conditioned on the other store's publications, so the proof
  needs that a device commits only after the host (`HostCommitsFirst`). Pinning
  a generation needs the log tied to the records (`RecordIsLogged`,
  `LogWithinGeneration`), and `NoHalfTrust` needs that no store falls behind its
  own log (`RecordIsLatest`). From it: `TrustIsMutual`, `TrustIsPinned`.
* `PairingProofs`. `IInv` says what a message in flight vouches for
  (`MessagesVouch`) and what a thread's position implies about the stores
  (`ResponderMayBe`, `InitiatorMayBe`), and that a device runs one initiator at
  a time. `Invariance` proves it; `DeviceNeedsNoGuard` is its corollary that the
  device may publish without reading its record again. `Refinement` shows that
  every step is a step of `PairingTrust` or leaves the stores alone, and
  `PairingAgrees` and `PairingIsPinned` carry the abstract theorems over.
* `ApplicationProofs`. `AppInv` adds to the properties that identities in use
  were allocated and that a read under way is newer than the latest
  invalidation (`Allocated`). From it: `FeaturesInLockStep`, `NoStaleEffect`,
  `NothingStaleShown`.
* `ApplicationProofs`, the client runtime. What is on the screen is backed by a live
  session, or nothing is shown, or a revocation waits among the owner's requests
  (`ShownIsBacked`, with `Dark`). The step that could break it is that of news of a
  new pairing, which starts the adapter afresh while the core keeps its surface.
  `NewsFindsDark` says that such news finds nothing shown and that no answer of the
  new pairing goes before it in the channel, and `PairingFindsDark` says the same
  for as long as the worker is pairing. `EventIsSound` ties an answer on its way to
  the generation it was read for; `Linked` the read in progress to a live session
  and to the core; `RevokeIsUnderWay` the acknowledgement of a revocation to the
  worker's session. `RejectionsArePlain` needs a count of places: what a revoked
  worker answers is one answer for each command that is owed one. From it:
  `ClientStaysSound`, `WhatIsShownIsLive`, and the action property
  `NothingIsShownAfterUnpair`.
* `AmpProofs`, the slot. That the publication word is the same before and after
  a copy says something only because generations never repeat: `WriterInv` ties
  the two parts of the payload and the word to the writer's step, and
  `ReaderInv` bounds the generation a reader started from and says that, as
  long as the word still shows it, what was copied is of that generation.
  `ValidIsLatest` draws the conclusion. From it: `NoReplacementIsAFault`, and
  `SlotIsLatestValue`, the refinement.
* `AmpProofs`, the touch ring. `TouchInv` has the same shape for a ring: a
  published slot holds the sample it names in the slot that is its own
  (`PublishedIsWhole`), the one under the writer's pen is not published
  (`UnderThePen`), and what the reader has copied is of the sample it wants as
  long as the slot still shows it (`CopyIsTheSlot`). That two generations share a
  slot only a whole capacity apart is what makes the count of the dropped exact.
  From it: `TouchesAreAccountedFor`.
* `HostFileProofs`, the identity. `FileInv`: whoever is past the lock holds it
  (`Holds`), and publishes a legal change of what is there now, from a temporary
  file that is its own and synced when it is renamed (`PublishesNext`). Without
  the lock the change prepared would be of something older. From it:
  `FilesAreARegister`, the refinement of `PeerRegister`.
  `AcknowledgedSurvives` needs no strengthening: `AckedIsDurable` is inductive.
* `HostFileProofs`, the run recorder. `RecorderInv`: one process is past the lock
  (`LockIsHeld`); the marker of a run whose process lives is locked by that
  process until `end_live_run` has let go of it (`MarkersAreHeld`); a process
  publishes its own runs only (`OwnRun`); and what is stored, and what is about to
  be renamed into place, calls nothing a crash that its own process would deny
  (`RecordIsSound`, `WriteIsSound`). The last one must speak of the write that is
  pending: recovery decides on a record, and a step or a crash later renames it.
  Room for the pending record is part of it, which is what `StoreIsBounded` needs.
  From it: `RecordsStaySound` and `RetainedRecordsStay`.
* `HostFileProofs`, the profile commands. `ProfileInv` says of each process what the
  operation lock (`HoldsOperation`), the owner lock of its role (`HoldsLock`) and the
  socket under it (`OwnsSocket`) stand for, that a host was launched from what is
  stored (`KeepsProfile`), and that a command about to change a profile has found no
  host of it, or has that role still to look at (`ChecksProfile`). `Within` is what a
  step of one process may do to the others, and `OthersSound` that they do not notice:
  the lock that a command finds free says that the role has no host, and none can
  start while the command holds the operation lock. `KeepsStages` follows the stages of
  a run to its record. From it: `CommandsStaySafe`.
* `HostFileProofs`, the diagnostics. `DiagnosticsInv`: one connection is served at a
  time and what it ends with has a name (`WorkIsSound`); the spans in the map, and
  those `finish_all` has taken out of it, are of unanswered reads of that connection
  (`SpanIsServed`); an end that is on its way speaks of a read that nothing more
  happens to (`EventIsTrue`, `Settled`), so that it is still true when the thread
  records it (`RecordIsTrue`); and behind the start of a run in the queue comes its
  end, unless the run goes on or the loss is told (`StartHasEnd`, `LiveHasEnd`).
  `DiagnosticsAreTrue` alone says nothing of the queue. From it:
  `DiagnosticsStayTrue`.
* `HostProofs`, owner control. `OwnerInv` counts: every run of an identity but the
  remembered one was forgotten (`RunsAreRemembered`), which needs that only what
  is at rest grows old (`WorkIsInTable`); a yes in a decision channel is the
  owner's for that transaction (`DecisionsAreOwners`). From it: `RetriesRunOnce`,
  `PairingNeedsTheOwner`.
* `HostProofs`, the accept loop. `HostInv`: a thread that has not returned is one
  that the loop can shut (`ThreadsAreKept`), events and acknowledgements belong to
  generations so far (`EventsAreKnown`, `AcksAreKnown`), so that an
  acknowledgement cannot be mistaken for that of the next unpair, and while unpair
  waits nobody pairs (`UnpairIsAlone`). From it: `RevocationReachesSessions`, and
  the action property `UnpairIsJoined`.
* `HostProofs`, the session. `SessionInv`: the writer or the unpair holds the gate,
  and the writer from its check of the pairing to its write (`GateIsHeld`); the
  frame being written, the queue, the channel and the request the reader holds
  carry consecutive identities (`Sequenced`). Once the writer has ended the last
  part is given up: nothing more is sent, and the reader may still answer. From it:
  `FramesAreOfThePairing`.
* `DeviceProofs`, the control channel. `CommandInv` follows a frame through the
  queues and the worker and back: only the frame waited for is in a queue
  (`QueuedIsAwaited`), the worker has at most one that was given up on
  (`FewOutstanding`), and the one waited for comes behind it (`AwaitedIsLast`); a
  reported shutdown is still in `UI_ACTION` or has taken effect
  (`StoppedOrStopping`). From it: `OwnerIsToldTheTruth`.
* `DeviceProofs`, the contact. `ContactInv`: one read is on its way, as a request
  or as its answer, and the loop waits for it (`OneRead`), in step with the
  feature (`FeatureInStep`). From it: `DeviceShowsLiveAnswers`.
* `DeviceProofs`, the display. The last two bands submitted, named by `BandBack`,
  `FrameBack` and `BufferBack`, are all that can be lent. `BandsInv` says how many
  are (`Lending`), that completions, transfer and queue hold exactly these, oldest
  first, and that the display expects the first unwritten one (`Ordered`), what the
  buffers hold (`Labelled`), what that has put on the panel (`Painted`) and what
  can still be written after `Presented` (`Reported`). When the renderer has
  stopped only `RequestsAreWhole` is kept: a completion that failed is taken
  without its buffer coming back. From it: `PanelShowsWholeFrames`, for two or more
  bands and two or more places in a queue (`BandAssumption`; the code has 8 and 2).
  With one band a frame the second buffer would hold the frame after next, and with
  one place the second band would not fit: TLC refutes both.
* `DeviceProofs`, the start. `BootInv`: each main thread goes before the one that
  takes its stack (`MainIsFirst`, `AppMainIsFirst`), the coordinator before the
  service (`ServiceStackIsLent`). From it: `StacksHaveDeadOwners`. The module has no
  constants, so TLC's run is complete as well; the proof gives the reason.
* `DeviceStoreProofs`. `StoreInv`: a record lies in the slot that its number names
  (`SlotsAreNamed`), the newest one is the one last reported or newer
  (`NothingLost`), an intent announces the newest record or the next
  (`IntentIsNext`), and every job, at each of its writes, carries that number
  (`WriteIsNext`, `JobIsSound`). The pairing thread publishes from a copy of the
  identity while a revocation may fail beside it: `ContactIsFresh` says that only
  a revocation can have come between, and with the very number the copy will use.
  `PinnedBefore` compares the generations pinned so far with the newest record.
  From it: `ReportsAreKept`, `GenerationIsOneHosts`.

Only model-checked: all liveness, which needs fairness and ENABLED.

## Not modelled, and the plan

Left out for good, because no order of events could make them wrong or because
TLC cannot tell their values apart: pixels and occlusion, drivers, flashing
scripts, report formatting, argument parsing, file modes, the byte layout of the
wire, the scenario driver, the world and the native runtime of the simulator
(one thread that drives the application synchronously), the interoperability
tests. Left out with a reason to know: the delays of the backoffs; a 32-bit
generation that wraps to 0, which means unpublished (2^32 publications); a
64-bit generation read as two words; the recovery of the Wi-Fi configuration's
intent, which the code does not have; a retained run in progress, whose terminal
record says that it is not.
