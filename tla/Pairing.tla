------------------------------ MODULE Pairing ------------------------------
(***************************************************************************)
(* The pairing protocol: the desktop host's responder thread               *)
(* (apps/desktop-host, pair_responder_stream_reserved_inner) against the   *)
(* two initiators, the hosted simulator (pair_initiator_until_inner) and   *)
(* the CoreS3 device (core-s3-service, pair_session).                      *)
(*                                                                         *)
(* A connection carries one transaction, so threads and queues are indexed *)
(* by it.  The Noise transport delivers in order and unaltered or breaks;  *)
(* a thread may stop between any two of its steps (timeout, broken         *)
(* connection, crash), what it sent may still be read, and what it made    *)
(* durable stays.  Deadlines, the answer of the pairing window's reserve() *)
(* and store failures are nondeterministic; Faults says which may happen.  *)
(***************************************************************************)
EXTENDS PairingTrust, Sequences

CONSTANTS
    Hosted,     \* the initiators that are hosted simulators
    Faults      \* which of AllFaults may occur

AllFaults == {"stop", "deadline", "busy", "store", "unpair"}

ASSUME HostedAssumption == Hosted \subseteq Device
ASSUME FaultsAssumption == Faults \subseteq AllFaults

VARIABLES
    rpc,    \* rpc[t]: where the responder thread of t stands
    ipc,    \* ipc[t]: where the initiator of t stands
    toR,    \* toR[t]: messages on their way to the responder
    toI     \* toI[t]: messages on their way to the initiator

vars == <<peer, gen, consent, log, rpc, ipc, toR, toI>>

Message == {"Begin", "Confirmed", "Rejected", "Prepared", "Commit",
            "Committed", "Complete", "Hello", "HelloAck", "HelloReject",
            "Close"}

\* What each reading thread insists on; anything else ends it.
ResponderExpects ==
    [begin |-> "Begin", awaitDecision |-> "Confirmed",
     awaitPrepared |-> "Prepared", awaitCommit |-> "Commit",
     awaitCommitted |-> "Committed", awaitHello |-> "Hello"]
InitiatorExpects ==
    [awaitDecision |-> "Confirmed", awaitPrepared |-> "Prepared",
     awaitCommitted |-> "Committed", awaitComplete |-> "Complete",
     awaitAck |-> "HelloAck"]

ResponderPc == DOMAIN ResponderExpects \cup
    {"idle", "confirm", "setPending", "setCommitting", "setPaired", "done"}
InitiatorPc == DOMAIN InitiatorExpects \cup
    {"idle", "handshake", "confirm", "declined", "setPending",
     "setCommitting", "setPaired", "done"}

Running(pc) == pc \notin {"idle", "done"}

\* The state of the threads, of the queues between them and of the stores.
TypeOK ==
    /\ TrustTypeOK
    /\ rpc \in [Tx -> ResponderPc]
    /\ ipc \in [Tx -> InitiatorPc]
    /\ toR \in [Tx -> Seq(Message)]
    /\ toI \in [Tx -> Seq(Message)]

-----------------------------------------------------------------------------
Init ==
    /\ TrustInit
    /\ rpc = [t \in Tx |-> "idle"]
    /\ ipc = [t \in Tx |-> "idle"]
    /\ toR = [t \in Tx |-> <<>>]
    /\ toI = [t \in Tx |-> <<>>]

ToResponder(t, ms) == toR' = [toR EXCEPT ![t] = @ \o ms]
ToInitiator(t, ms) == toI' = [toI EXCEPT ![t] = @ \o ms]
ResponderAt(t, pc) == rpc' = [rpc EXCEPT ![t] = pc]
InitiatorAt(t, pc) == ipc' = [ipc EXCEPT ![t] = pc]

\* The thread reads exactly the message it expects.
ResponderReads(t, pc) ==
    /\ rpc[t] = pc
    /\ toR[t] # <<>> /\ Head(toR[t]) = ResponderExpects[pc]
    /\ toR' = [toR EXCEPT ![t] = Tail(@)]
InitiatorReads(t, pc) ==
    /\ ipc[t] = pc
    /\ toI[t] # <<>> /\ Head(toI[t]) = InitiatorExpects[pc]
    /\ toI' = [toI EXCEPT ![t] = Tail(@)]

\* Go on, or find the pairing deadline passed and close.
ResponderInTime(t, pc, ms) ==
    \/ ResponderAt(t, pc) /\ ToInitiator(t, ms)
    \/ /\ "deadline" \in Faults
       /\ ResponderAt(t, "done") /\ ToInitiator(t, <<"Close">>)

\* IdentityStore::set_peer accepts only the next rung of the same transaction.
ValidPeerTransition(current, next) ==
    \/ current = Unpaired /\ next.state = "Pending"
    \/ /\ current.tx = next.tx
       /\ \/ current.state = "Pending" /\ next.state = "Committing"
          \/ current.state = "Committing" /\ next.state = "Paired"

-----------------------------------------------------------------------------
(* The responder thread.                                                   *)

\* An incoming connection: only an unpaired host goes on to the handshake.
ResponderAccept(t) ==
    /\ ipc[t] = "handshake" /\ rpc[t] = "idle"
    /\ ResponderAt(t, IF peer[Host] = Unpaired THEN "begin" ELSE "done")
    /\ UNCHANGED <<durable, ipc, toR, toI>>

\* PairingBegin: past the deadline, or without the window's one reservation,
\* the connection is closed; otherwise the owner is asked.
ResponderBegin(t) ==
    /\ ResponderReads(t, "begin")
    /\ \/ ResponderInTime(t, "confirm", <<>>)
       \/ /\ "busy" \in Faults
          /\ ResponderAt(t, "done") /\ ToInitiator(t, <<"Close">>)
    /\ UNCHANGED <<durable, ipc>>

\* Mutant of ResponderConfirm: the peer's decision is awaited first.
ResponderConfirmSilently(t) ==
    /\ rpc[t] = "confirm"
    /\ consent' = [consent EXCEPT !["responder"] = @ \cup {t}]
    /\ ResponderAt(t, "awaitDecision")
    /\ UNCHANGED <<peer, gen, log, ipc, toR, toI>>

\* The host owner's answer is sent at once; a late one is followed by Close.
ResponderConfirm(t) ==
    /\ rpc[t] = "confirm"
    /\ \/ /\ consent' = [consent EXCEPT !["responder"] = @ \cup {t}]
          /\ \/ /\ ResponderAt(t, "awaitDecision")
                /\ ToInitiator(t, <<"Confirmed">>)
             \/ /\ "deadline" \in Faults
                /\ ResponderAt(t, "done")
                /\ ToInitiator(t, <<"Confirmed", "Close">>)
       \/ /\ ResponderAt(t, "done")
          /\ ToInitiator(t, <<"Rejected">>)
          /\ UNCHANGED consent
    /\ UNCHANGED <<peer, gen, log, ipc, toR>>

ResponderDecision(t) ==
    /\ ResponderReads(t, "awaitDecision")
    /\ ResponderAt(t, "awaitPrepared")
    /\ UNCHANGED <<durable, ipc, toI>>

ResponderPrepared(t) ==
    /\ ResponderReads(t, "awaitPrepared")
    /\ ResponderInTime(t, "setPending", <<>>)
    /\ UNCHANGED <<durable, ipc>>

ResponderCommit(t) ==
    /\ ResponderReads(t, "awaitCommit")
    /\ ResponderInTime(t, "setCommitting", <<>>)
    /\ UNCHANGED <<durable, ipc>>

\* Mutant of ResponderCommitted: trust without the device's first Hello.
ResponderCommittedSuffices(t) ==
    /\ ResponderReads(t, "awaitCommitted")
    /\ ResponderInTime(t, "setPaired", <<"Complete">>)
    /\ UNCHANGED <<durable, ipc>>

ResponderCommitted(t) ==
    /\ ResponderReads(t, "awaitCommitted")
    /\ ResponderInTime(t, "awaitHello", <<"Complete">>)
    /\ UNCHANGED <<durable, ipc>>

ResponderHello(t) ==
    /\ ResponderReads(t, "awaitHello")
    /\ ResponderAt(t, "setPaired")
    /\ UNCHANGED <<durable, ipc, toI>>

\* set_peer, then the reply.  The publication may fail before the rename
\* (nothing changes) or after it (the record is durable and the caller is told
\* it failed); a failure is answered with Close.
ResponderStore(t, pc, state, replies, next) ==
    LET record == [state |-> state, tx |-> t]
        valid == ValidPeerTransition(peer[Host], record)
    IN /\ rpc[t] = pc
       /\ \/ /\ valid
             /\ Publish(Host, state, t)
             /\ \/ \E m \in replies : ToInitiator(t, <<m>>) /\ ResponderAt(t, next)
                \/ /\ "store" \in Faults
                   /\ ToInitiator(t, <<"Close">>) /\ ResponderAt(t, "done")
                \/ /\ "stop" \in Faults
                   /\ UNCHANGED toI /\ ResponderAt(t, "done")
          \/ /\ ~valid \/ "store" \in Faults
             /\ ToInitiator(t, <<"Close">>) /\ ResponderAt(t, "done")
             /\ UNCHANGED durable
       /\ UNCHANGED <<ipc, toR>>

ResponderSetPending(t) ==
    ResponderStore(t, "setPending", "Pending", {"Prepared"}, "awaitCommit")

ResponderSetCommitting(t) ==
    ResponderStore(t, "setCommitting", "Committing", {"Committed"}, "awaitCommitted")

\* Trust is completed whether or not the Hello itself is acceptable.
ResponderSetPaired(t) ==
    ResponderStore(t, "setPaired", "Paired", {"HelloAck", "HelloReject"}, "done")

\* Any other message, a rejection included, ends the thread.
ResponderUnexpected(t) ==
    /\ rpc[t] \in DOMAIN ResponderExpects
    /\ toR[t] # <<>> /\ Head(toR[t]) # ResponderExpects[rpc[t]]
    /\ toR' = [toR EXCEPT ![t] = Tail(@)]
    /\ ResponderAt(t, "done")
    /\ UNCHANGED <<durable, ipc, toI>>

\* Mutant of ResponderAlone: the end of the stream is not noticed.
ResponderAloneUnnoticed(t) == FALSE

\* The initiator has left and nothing it sent is unread: the read fails.
ResponderAlone(t) ==
    rpc[t] \in DOMAIN ResponderExpects /\ toR[t] = <<>> /\ ipc[t] = "done"

\* A read or write fails or times out, or the process dies.
ResponderStop(t) ==
    /\ "stop" \in Faults \/ ResponderAlone(t)
    /\ Running(rpc[t])
    /\ ResponderAt(t, "done")
    /\ UNCHANGED <<durable, ipc, toR, toI>>

-----------------------------------------------------------------------------
(* The initiator starts only from an unpaired store.  The device has one   *)
(* service thread, so one connection at a time; nothing but the shared     *)
(* identity store orders the pairing attempts of a hosted simulator.       *)

InitiatorConnect(t) ==
    /\ ipc[t] = "idle"
    /\ peer[Owner[t]] = Unpaired
    /\ \A u \in Tx :
          Owner[t] \notin Hosted /\ Owner[u] = Owner[t] => ~Running(ipc[u])
    /\ InitiatorAt(t, "handshake")
    /\ UNCHANGED <<durable, rpc, toR, toI>>

\* The handshake needs a responder that went on to it.
InitiatorBegin(t) ==
    /\ ipc[t] = "handshake" /\ rpc[t] = "begin"
    /\ InitiatorAt(t, "confirm") /\ ToResponder(t, <<"Begin">>)
    /\ UNCHANGED <<durable, rpc, toI>>

\* The person at the device answers before the peer's decision is read.
InitiatorConfirm(t) ==
    /\ ipc[t] = "confirm"
    /\ \/ /\ consent' = [consent EXCEPT !["initiator"] = @ \cup {t}]
          /\ InitiatorAt(t, "awaitDecision")
       \/ InitiatorAt(t, "declined") /\ UNCHANGED consent
    /\ UNCHANGED <<peer, gen, log, rpc, toR, toI>>

\* A failing initiator says so only if it is hosted.
Farewell(t) == IF Owner[t] \in Hosted THEN <<"Close">> ELSE <<>>

\* Only the hosted initiator has a deadline for the pairing as a whole.
InitiatorInTime(t, pc, ms, late) ==
    \/ InitiatorAt(t, pc) /\ ToResponder(t, ms)
    \/ /\ "deadline" \in Faults /\ Owner[t] \in Hosted
       /\ InitiatorAt(t, "done") /\ ToResponder(t, late)

\* The peer's decision, then one's own.  The hosted initiator leaves on any
\* message that is not a decision; the device takes it for a rejection.
InitiatorDecision(t) ==
    /\ ipc[t] \in {"awaitDecision", "declined"}
    /\ toI[t] # <<>>
    /\ toI' = [toI EXCEPT ![t] = Tail(@)]
    /\ LET remote == Head(toI[t])
           own == IF ipc[t] = "awaitDecision" THEN "Confirmed" ELSE "Rejected"
       IN \/ /\ Owner[t] \in Hosted /\ remote \notin {"Confirmed", "Rejected"}
             /\ InitiatorAt(t, "done") /\ UNCHANGED toR
          \/ /\ Owner[t] \in Hosted => remote \in {"Confirmed", "Rejected"}
             /\ IF own = "Confirmed" /\ remote = "Confirmed"
                THEN InitiatorInTime(t, "setPending", <<own>>, <<own, "Close">>)
                ELSE InitiatorAt(t, "done") /\ ToResponder(t, <<own>>)
    /\ UNCHANGED <<durable, rpc>>

\* Mutant of InitiatorPrepared: commits without waiting for the host to.
InitiatorPreparedSuffices(t) ==
    /\ InitiatorReads(t, "awaitPrepared")
    /\ InitiatorInTime(t, "setCommitting", <<"Commit">>, <<"Close">>)
    /\ UNCHANGED <<durable, rpc>>

InitiatorPrepared(t) ==
    /\ InitiatorReads(t, "awaitPrepared")
    /\ InitiatorInTime(t, "awaitCommitted", <<"Commit">>, <<"Close">>)
    /\ UNCHANGED <<durable, rpc>>

InitiatorCommitted(t) ==
    /\ InitiatorReads(t, "awaitCommitted")
    /\ InitiatorAt(t, "setCommitting")
    /\ UNCHANGED <<durable, rpc, toR>>

InitiatorComplete(t) ==
    /\ InitiatorReads(t, "awaitComplete")
    /\ InitiatorInTime(t, "setPaired", <<>>, <<"Close">>)
    /\ UNCHANGED <<durable, rpc>>

\* The hosted initiator goes through set_peer.  The device publishes the
\* identity it loaded when it connected and has no transition check: it relies
\* on its service thread being the only one that touches the store.
InitiatorStore(t, pc, state, message, next) ==
    LET record == [state |-> state, tx |-> t]
        valid == Owner[t] \in Hosted => ValidPeerTransition(peer[Owner[t]], record)
    IN /\ ipc[t] = pc
       /\ \/ /\ valid
             /\ Publish(Owner[t], state, t)
             /\ \/ ToResponder(t, <<message>>) /\ InitiatorAt(t, next)
                \/ /\ "store" \in Faults
                   /\ ToResponder(t, Farewell(t)) /\ InitiatorAt(t, "done")
                \/ /\ "stop" \in Faults
                   /\ UNCHANGED toR /\ InitiatorAt(t, "done")
          \/ /\ ~valid \/ "store" \in Faults
             /\ ToResponder(t, Farewell(t)) /\ InitiatorAt(t, "done")
             /\ UNCHANGED durable
       /\ UNCHANGED <<rpc, toI>>

InitiatorSetPending(t) ==
    InitiatorStore(t, "setPending", "Pending", "Prepared", "awaitPrepared")

InitiatorSetCommitting(t) ==
    InitiatorStore(t, "setCommitting", "Committing", "Committed", "awaitComplete")

InitiatorSetPaired(t) ==
    InitiatorStore(t, "setPaired", "Paired", "Hello", "awaitAck")

\* The first session starts on the pairing connection.
InitiatorAck(t) ==
    /\ InitiatorReads(t, "awaitAck")
    /\ InitiatorAt(t, "done")
    /\ UNCHANGED <<durable, rpc, toR>>

InitiatorUnexpected(t) ==
    /\ ipc[t] \in DOMAIN InitiatorExpects \ {"awaitDecision"}
    /\ toI[t] # <<>> /\ Head(toI[t]) # InitiatorExpects[ipc[t]]
    /\ toI' = [toI EXCEPT ![t] = Tail(@)]
    /\ InitiatorAt(t, "done")
    /\ UNCHANGED <<durable, rpc, toR>>

InitiatorAlone(t) ==
    /\ ipc[t] \in DOMAIN InitiatorExpects \cup {"declined", "handshake"}
    /\ toI[t] = <<>> /\ rpc[t] = "done"

InitiatorStop(t) ==
    /\ "stop" \in Faults \/ InitiatorAlone(t)
    /\ Running(ipc[t])
    /\ InitiatorAt(t, "done")
    /\ UNCHANGED <<durable, rpc, toR, toI>>

-----------------------------------------------------------------------------
(* Owners ending trust.                                                    *)

\* The public key in store s's record: Noise authenticates who drew t.
RemoteKey(s) == IF s = Host THEN Owner[peer[s].tx] ELSE Host

\* Mutants of BeginUnpair: the generation does not move; the device's pairing
\* goes on.
BeginUnpairInPlace(s, remote) ==
    /\ "unpair" \in Faults
    /\ peer[s].state \in Binding
    /\ remote = RemoteKey(s)
    /\ peer' = [peer EXCEPT ![s] = [state |-> "Revoking", tx |-> @.tx]]
    /\ ipc' = [t \in Tx |->
                 IF Owner[t] = s /\ s \notin Hosted /\ Running(ipc[t])
                 THEN "done" ELSE ipc[t]]
    /\ UNCHANGED <<gen, consent, log, rpc, toR, toI>>
\* Exact unpair, first publication.  The device serves the command on the very
\* thread that pairs, so its connection ends with it; threads of the host and
\* of a hosted simulator go on and meet the store as they find it.
BeginUnpair(s, remote) ==
    /\ "unpair" \in Faults
    /\ peer[s].state \in Binding
    /\ remote = RemoteKey(s)
    /\ gen[s] < MaxGeneration
    /\ peer' = [peer EXCEPT ![s] = [state |-> "Revoking", tx |-> @.tx]]
    /\ gen' = [gen EXCEPT ![s] = @ + 1]
    /\ ipc' = [t \in Tx |->
                 IF Owner[t] = s /\ s \notin Hosted /\ Running(ipc[t])
                 THEN "done" ELSE ipc[t]]
    /\ UNCHANGED <<consent, log, rpc, toR, toI>>

\* Second publication, in the same call or when a later one finds the record
\* still Revoking.
FinishUnpair(s, remote) ==
    /\ peer[s].state = "Revoking"
    /\ remote = RemoteKey(s)
    /\ peer' = [peer EXCEPT ![s] = Unpaired]
    /\ UNCHANGED <<gen, consent, log, rpc, ipc, toR, toI>>

-----------------------------------------------------------------------------
ResponderGoesOn(t) ==
    \/ ResponderAccept(t) \/ ResponderBegin(t) \/ ResponderConfirm(t)
    \/ ResponderDecision(t) \/ ResponderPrepared(t) \/ ResponderSetPending(t)
    \/ ResponderCommit(t) \/ ResponderSetCommitting(t) \/ ResponderCommitted(t)
    \/ ResponderHello(t) \/ ResponderSetPaired(t) \/ ResponderUnexpected(t)
ResponderNext(t) == ResponderGoesOn(t) \/ ResponderStop(t)

InitiatorGoesOn(t) ==
    \/ InitiatorConnect(t) \/ InitiatorBegin(t) \/ InitiatorConfirm(t)
    \/ InitiatorDecision(t) \/ InitiatorSetPending(t) \/ InitiatorPrepared(t)
    \/ InitiatorCommitted(t) \/ InitiatorSetCommitting(t) \/ InitiatorComplete(t)
    \/ InitiatorSetPaired(t) \/ InitiatorAck(t) \/ InitiatorUnexpected(t)
InitiatorNext(t) == InitiatorGoesOn(t) \/ InitiatorStop(t)

OwnerNext ==
    \E s, remote \in Store : BeginUnpair(s, remote) \/ FinishUnpair(s, remote)

Next == (\E t \in Tx : ResponderNext(t) \/ InitiatorNext(t)) \/ OwnerNext

Spec == Init /\ [][Next]_vars

\* Threads are scheduled, a read notices that its peer has left, and both people
\* answer.  A thread need not crash.
PairingGoesOn(t) ==
    \/ ResponderGoesOn(t) \/ (ResponderAlone(t) /\ ResponderStop(t))
    \/ InitiatorGoesOn(t) \/ (InitiatorAlone(t) /\ InitiatorStop(t))

FairSpec == Spec /\ \A t \in Tx : WF_vars(PairingGoesOn(t))

-----------------------------------------------------------------------------
(* Pairing keeps the message-free promise: every step of the protocol is a *)
(* step PairingTrust allows, or changes nothing durable.                   *)
KeepsTrust == TrustSpec

(* However a pairing is cut short, host and device agree on it: neither trusts *)
(* before the other has got far enough, read off the history and off the   *)
(* two records alone (PairingTrust).                                       *)
Agreement == MutualTrust /\ NoHalfTrust

(* No record without both people's confirmation, and no generation that    *)
(* stands for two transactions: what a session pins is one pairing.        *)
ConsentAndGeneration == TrustByConsent /\ GenerationPinsTransaction

(* A running device holds exactly the record its next publication builds on, *)
(* although pair_session never re-reads the store.                         *)
DeviceRecordMatches(t, pc) ==
    LET here(state) == peer[Owner[t]] = [state |-> state, tx |-> t]
    IN /\ pc \in {"handshake", "confirm", "declined", "awaitDecision",
                  "setPending"} => peer[Owner[t]] = Unpaired
       /\ pc \in {"awaitPrepared", "awaitCommitted", "setCommitting"}
            => here("Pending")
       /\ pc \in {"awaitComplete", "setPaired"} => here("Committing")
       /\ pc = "awaitAck" => here("Paired")

DeviceRecordMatchesThread ==
    \A t \in Tx : Owner[t] \notin Hosted => DeviceRecordMatches(t, ipc[t])

(* Without faults the exchange cannot get stuck: once both people confirmed *)
(* one transaction the host ends up trusting some device, and whatever both *)
(* sides then hold is the same.                                            *)
PairingCompletes ==
    \A t \in Tx :
        (t \in consent["initiator"] /\ t \in consent["responder"])
            ~> \E u \in Tx : /\ peer[Host] = [state |-> "Paired", tx |-> u]
                             /\ peer[Owner[u]] = peer[Host]

(* Every pairing thread ends: neither side waits for ever for the other.   *)
ThreadsEnd ==
    \A t \in Tx : Running(rpc[t]) ~> (rpc[t] = "done" /\ ~Running(ipc[t]))

-----------------------------------------------------------------------------
(* The inductive strengthening the proofs use: what a message in flight and *)
(* a thread's position say about the stores.                                *)

InFlight(q, m) == \E i \in 1..Len(q) : q[i] = m

\* A transaction no publication of store s has named yet.
Untouched(s, t) == \A e \in log : ~(e.store = s /\ e.tx = t)

MessagesVouch(t) ==
    /\ InFlight(toR[t], "Confirmed") => t \in consent["initiator"]
    /\ InFlight(toR[t], "Prepared") => Published(Owner[t], "Pending", t)
    /\ InFlight(toR[t], "Hello") => Published(Owner[t], "Paired", t)
    /\ InFlight(toI[t], "Confirmed") => t \in consent["responder"]
    /\ InFlight(toI[t], "Committed") => Published(Host, "Committing", t)

ResponderMayBe(t, pc) ==
    /\ pc \in {"awaitDecision", "awaitPrepared", "setPending"}
         => t \in consent["responder"]
    /\ pc \in {"awaitPrepared", "setPending"} => t \in consent["initiator"]
    /\ pc = "setPending" => Published(Owner[t], "Pending", t)
    /\ pc = "setPaired" => Published(Owner[t], "Paired", t)
    /\ pc \in {"idle", "begin", "confirm", "awaitDecision", "awaitPrepared",
               "setPending"} => Untouched(Host, t)

InitiatorMayBe(t, pc) ==
    /\ pc \in {"awaitDecision", "setPending"} => t \in consent["initiator"]
    /\ pc = "setPending" => t \in consent["responder"]
    /\ pc = "setCommitting" => Published(Host, "Committing", t)
    /\ pc \in {"idle", "handshake", "confirm", "declined", "awaitDecision",
               "setPending"} => Untouched(Owner[t], t)
    /\ Owner[t] \notin Hosted => DeviceRecordMatches(t, pc)

OneInitiator ==
    \A t, u \in Tx :
        /\ Owner[t] \notin Hosted /\ Owner[t] = Owner[u]
        /\ Running(ipc[t]) /\ Running(ipc[u])
        => t = u

\* The inductive invariant of the protocol's threads, queues and stores.
IInv ==
    /\ TypeOK
    /\ \A t \in Tx : /\ MessagesVouch(t)
                     /\ ResponderMayBe(t, rpc[t])
                     /\ InitiatorMayBe(t, ipc[t])
    /\ OneInitiator
=============================================================================
