------------------------------ MODULE HostLoop ------------------------------
(***************************************************************************)
(* The desktop host's accept loop (host_accept_loop) with the threads it   *)
(* starts for connections, the owner control thread that feeds it events,  *)
(* and the identity actor that unpairs.                                    *)
(*                                                                         *)
(* The loop is one async task: between two of its steps any thread may     *)
(* move.  It, the actor and the connection threads also share the identity *)
(* file's lock, which unpair keeps while it waits for the loop to join the *)
(* revoked sessions; every wait for that lock gives up after two seconds.  *)
(***************************************************************************)
EXTENDS Naturals, Sequences, FiniteSets

CONSTANTS
    Conn,           \* TCP connections that may reach the listener
    PairCommand,    \* owner commands that open a pairing window
    NoCommand,      \* stands for None
    PreauthMax,     \* permits of the preauth semaphore (4 in the code)
    UnpairMax       \* bound on how often the owner unpairs

ASSUME UnpairAssumption == UnpairMax \in Nat

VARIABLES
    lpc,        \* where the loop stands
    events,     \* OwnerEvents on their way to the loop
    listening,  \* the listener is still there
    window,     \* pairing_window
    active,     \* active_pairing_task
    pstate,     \* pairing_state: consumed, waiting to transfer, finished
    kept,       \* connections: the streams the loop can still shut down
    tasks,      \* the JoinSet
    completed,  \* connection_completed: ids on their way to the loop
    ackOwed,    \* revocation_ack, shutdown_ack
    conn,       \* the connection threads
    session,    \* authenticated: one session at a time
    result,     \* what the owner last heard of each pairing command
    expired,    \* commands whose window's minute has passed
    cancelled,  \* commands whose task was cancelled
    owner,      \* the owner control thread
    listing,    \* a control thread waits for the actor, holding the state
    actor,      \* the identity actor: it unpairs or has nothing to do
    acked,      \* acknowledgements that arrived
    peerState,  \* the durable peer record
    pairGen,    \* the durable generation
    attempts,   \* history: reservations made under each command
    stolen      \* history: a reservation was made after its window was gone

loopVars == <<lpc, events, listening, window, active, pstate, kept, tasks,
              completed, ackOwed, conn, session, result, expired, cancelled,
              owner, listing, actor, acked, peerState, pairGen, attempts,
              stolen>>

PairingState == [consumed : BOOLEAN, waiting : BOOLEAN, finished : BOOLEAN]
NoReservation == [consumed |-> FALSE, waiting |-> FALSE, finished |-> FALSE]

\* A connection thread: pairing, refusing a rival or serving a session.
PairPc == {"check", "begin", "reserve", "prompt", "decide", "prepare",
           "trust", "finish", "paired"}
ServePc == {"verify", "admit", "session"}
ConnPc == PairPc \cup ServePc \cup {"away", "backlog", "busy", "ended"}
Reserved == {"prompt", "decide", "prepare", "trust", "finish", "paired"}
Thread == [pc : ConnPc, task : PairCommand \cup {NoCommand}, open : BOOLEAN,
           gen : 0..UnpairMax]
Terminal == {"failed", "paired"}

\* Whom the loop owes an acknowledgement: the unpair that opened a generation,
\* or the owner that is shutting down.
Ack == [type : {"revoked", "shutdown"}, gen : 0..UnpairMax]
AckOf(type) == [type |-> type, gen |-> IF type = "revoked" THEN pairGen ELSE 0]

\* The states of the loop, its threads and its channels.
LoopTypeOK ==
    /\ lpc \in {"join", "events", "peer", "ack", "accept",
                "signal", "error", "exit"}
    /\ listening \in BOOLEAN /\ listing \in BOOLEAN /\ stolen \in BOOLEAN
    /\ {window, active} \subseteq PairCommand \cup {NoCommand}
    /\ pstate \in PairingState
    /\ kept \subseteq Conn /\ tasks \subseteq Conn /\ completed \subseteq kept
    /\ ackOwed \subseteq Ack /\ acked \subseteq Ack
    /\ conn \in [Conn -> Thread]
    /\ session \in Conn \cup {NoCommand}
    /\ result \in [PairCommand -> {"none", "accepted", "waiting", "prompt"} \cup Terminal]
    /\ owner \in {"serving", "stopping", "waiting", "done"}
    /\ actor \in {"idle", "await"}
    /\ peerState \in {"Unpaired", "Pending", "Paired", "Revoking"}

LoopInit ==
    /\ lpc = "join" /\ events = <<>> /\ listening = TRUE
    /\ window = NoCommand /\ active = NoCommand /\ pstate = NoReservation
    /\ kept = {} /\ tasks = {} /\ completed = {} /\ ackOwed = {} /\ acked = {}
    /\ conn = [c \in Conn |-> [pc |-> "away", task |-> NoCommand, open |-> TRUE, gen |-> 0]]
    /\ session = NoCommand
    /\ result = [p \in PairCommand |-> "none"]
    /\ expired = {} /\ cancelled = {}
    /\ owner = "serving" /\ listing = FALSE /\ actor = "idle"
    /\ peerState \in {"Unpaired", "Paired"} /\ pairGen = 0
    /\ attempts = [p \in PairCommand |-> 0] /\ stolen = FALSE

\* The file's lock is free unless unpair waits for its acknowledgement.
LockFree == actor = "idle"
LoopEnded == lpc \in {"error", "exit"}

Hears(p, response) == result' = [result EXCEPT ![p] = response]
Outcome(success) == IF success THEN "paired" ELSE "failed"

-----------------------------------------------------------------------------
(* The loop.                                                               *)

LoopJoin ==
    /\ lpc = "join"
    /\ tasks' = {c \in tasks : conn[c].pc # "ended"}
    /\ kept' = kept \ completed
    /\ completed' = {}
    /\ lpc' = "events"
    /\ UNCHANGED <<events, listening, window, active, pstate, ackOwed, conn,
                   session, result, expired, cancelled, owner, listing, actor,
                   acked, peerState, pairGen, attempts, stolen>>

\* Mutant of ShutDown: the streams stay open.
ShutDownNothing == UNCHANGED conn

\* Shutdown::Both on every connection the loop still holds.
ShutDown == conn' = [c \in Conn |->
    IF c \in kept THEN [conn[c] EXCEPT !.open = FALSE] ELSE conn[c]]

\* The two events that end everything: a revocation and the shutdown.
LoopEnds(e) ==
    /\ cancelled' = cancelled \cup ({window, active} \ {NoCommand})
    /\ ShutDown
    /\ ackOwed' = {a \in ackOwed : a.type # e.type} \cup {[type |-> e.type, gen |-> e.gen]}
    /\ listening' = (listening /\ e.type # "shutdown")
    /\ UNCHANGED <<lpc, window, pstate, active, result>>

\* What PairingWindowOpen becomes once the peer record has been read.
OpenWindow(p, free) ==
    /\ IF free
       THEN /\ pstate' = NoReservation /\ window' = p
            /\ Hears(p, "waiting")
       ELSE /\ Hears(p, "failed")
            /\ UNCHANGED <<pstate, window>>
    /\ lpc' = "events"
    /\ UNCHANGED <<active, cancelled, conn, ackOwed, listening>>

LoopEvent ==
    /\ lpc = "events" /\ events # <<>>
    /\ LET e == Head(events)
           vacant == window = NoCommand /\ active = NoCommand
       IN  /\ \/ e.type \in {"revoked", "shutdown"} /\ LoopEnds(e)
              \/ e.type = "PairStart" /\ OpenWindow(e.task, FALSE)
              \/ e.type = "PairingWindowOpen" /\ ~vacant /\ OpenWindow(e.task, FALSE)
              \/ /\ e.type = "PairingWindowOpen" /\ vacant
                 /\ lpc' = "peer"
                 /\ UNCHANGED <<window, active, pstate, cancelled, conn,
                                ackOwed, listening, result>>
           /\ events' = IF lpc' = "peer" THEN events ELSE Tail(events)
    /\ UNCHANGED <<kept, tasks, completed, session, expired, owner, listing,
                   actor, acked, peerState, pairGen, attempts, stolen>>

\* store.peer() on the loop itself.
LoopReadsPeer ==
    /\ lpc = "peer" /\ LockFree
    /\ OpenWindow(Head(events).task, peerState = "Unpaired")
    /\ events' = Tail(events)
    /\ UNCHANGED <<kept, tasks, completed, session, expired, owner, listing,
                   actor, acked, peerState, pairGen, attempts, stolen>>

\* The lock is not free for two seconds, or the owner does not answer the
\* loop's own Shutdown command: the loop returns the error.
LoopFails ==
    /\ \/ lpc = "peer" /\ ~LockFree
       \/ lpc = "signal" /\ (listing \/ owner # "serving")
    /\ lpc' = "error"
    /\ UNCHANGED <<events, listening, window, active, pstate, kept, tasks,
                   completed, ackOwed, conn, session, result, expired,
                   cancelled, owner, listing, actor, acked, peerState, pairGen,
                   attempts, stolen>>

\* Mutant of LoopSettles: an expired window is closed without an answer.
LoopSettlesSilently ==
    /\ lpc = "events" /\ events = <<>>
    /\ LET transfers == pstate.waiting /\ active = NoCommand
           moved == [pstate EXCEPT !.waiting = @ /\ ~transfers]
           state == IF moved.finished THEN NoReservation ELSE moved
           over == ~state.consumed /\ window \in expired
       IN  /\ window' = IF transfers \/ over THEN NoCommand ELSE window
           /\ active' = IF state.consumed
                        THEN IF transfers THEN window ELSE active
                        ELSE NoCommand
           /\ pstate' = state
    /\ lpc' = "ack"
    /\ UNCHANGED <<result, events, listening, kept, tasks, completed, ackOwed,
                   conn, session, expired, cancelled, owner, listing, actor,
                   acked, peerState, pairGen, attempts, stolen>>

\* Under pairing_state's mutex: a reservation takes the window over, a finished
\* one is cleared, an expired window that nobody reserved is closed.
LoopSettles ==
    /\ lpc = "events" /\ events = <<>>
    /\ LET transfers == pstate.waiting /\ active = NoCommand
           moved == [pstate EXCEPT !.waiting = @ /\ ~transfers]
           state == IF moved.finished THEN NoReservation ELSE moved
           over == ~transfers /\ ~state.consumed /\ window \in expired
       IN  /\ window' = IF transfers \/ over THEN NoCommand ELSE window
           /\ active' = IF state.consumed
                        THEN IF transfers THEN window ELSE active
                        ELSE NoCommand
           /\ pstate' = state
           /\ IF over THEN Hears(window, "failed") ELSE UNCHANGED result
    /\ lpc' = "ack"
    /\ UNCHANGED <<events, listening, kept, tasks, completed, ackOwed,
                   conn, session, expired, cancelled, owner, listing, actor,
                   acked, peerState, pairGen, attempts, stolen>>

\* Mutant of Due: a revocation is acknowledged at once.
DueAtOnce == {a \in ackOwed : kept = {} \/ a.type = "revoked"}

\* The acknowledgements that nothing holds back any more.
Due == {a \in ackOwed : kept = {} /\ (a.type = "shutdown" => tasks = {})}

LoopAcknowledges ==
    /\ lpc = "ack"
    /\ ackOwed' = ackOwed \ Due
    /\ acked' = acked \cup Due
    /\ lpc' = IF owner = "done" THEN "exit" ELSE IF listening THEN "accept" ELSE "join"
    /\ UNCHANGED <<events, listening, window, active, pstate, kept, tasks,
                   completed, conn, session, result, expired, cancelled,
                   owner, listing, actor, peerState, pairGen, attempts, stolen>>

\* SIGINT or SIGTERM: the loop calls its own owner control and waits.
LoopSignal ==
    /\ lpc = "accept" /\ owner = "serving"
    /\ lpc' = "signal"
    /\ UNCHANGED <<events, listening, window, active, pstate, kept, tasks,
                   completed, ackOwed, conn, session, result, expired,
                   cancelled, owner, listing, actor, acked, peerState, pairGen,
                   attempts, stolen>>

LoopSignalled ==
    /\ lpc = "signal" /\ ~listing /\ owner = "serving"
    /\ owner' = "stopping"
    /\ lpc' = "join"
    /\ UNCHANGED <<events, listening, window, active, pstate, kept, tasks,
                   completed, ackOwed, conn, session, result, expired,
                   cancelled, listing, actor, acked, peerState, pairGen,
                   attempts, stolen>>

HoldsPermit(c) == conn[c].pc \notin {"away", "backlog", "session", "ended"}
PermitLeft == Cardinality({c \in Conn : HoldsPermit(c)}) < PreauthMax

\* An accepted connection pairs while a window is open, is refused while an
\* attempt is running, and is served otherwise.
LoopAccept(c) ==
    /\ lpc = "accept" /\ conn[c].pc = "backlog"
    /\ IF ~PermitLeft
       THEN /\ conn' = [conn EXCEPT ![c].pc = "ended", ![c].open = FALSE]
            /\ UNCHANGED <<kept, tasks>>
       ELSE /\ conn' = [conn EXCEPT
                  ![c].pc = IF window # NoCommand THEN "check"
                            ELSE IF pstate.consumed THEN "busy" ELSE "verify",
                  ![c].task = window]
            /\ kept' = kept \cup {c} /\ tasks' = tasks \cup {c}
    /\ lpc' = "join"
    /\ UNCHANGED <<events, listening, window, active, pstate, completed,
                   ackOwed, session, result, expired, cancelled, owner,
                   listing, actor, acked, peerState, pairGen, attempts, stolen>>

LoopIdle ==
    /\ lpc = "accept" /\ \A c \in Conn : conn[c].pc # "backlog"
    /\ lpc' = "join"
    /\ UNCHANGED <<events, listening, window, active, pstate, kept, tasks,
                   completed, ackOwed, conn, session, result, expired,
                   cancelled, owner, listing, actor, acked, peerState, pairGen,
                   attempts, stolen>>

-----------------------------------------------------------------------------
(* The connection threads.                                                 *)

threadOnly == <<lpc, events, listening, window, active, kept, tasks, ackOwed,
                expired, cancelled, owner, listing, actor, acked>>

At(c, pc) == conn' = [conn EXCEPT ![c].pc = pc]

\* The thread returns and its id is on its way to the loop.
Ends(c) ==
    /\ conn' = [conn EXCEPT ![c].pc = "ended", ![c].open = FALSE]
    /\ completed' = completed \cup {c}

Connect(c) ==
    /\ conn[c].pc = "away" /\ listening /\ ~LoopEnded
    /\ At(c, "backlog")
    /\ UNCHANGED <<threadOnly, pstate, completed, session, result, peerState,
                   pairGen, attempts, stolen>>

PairCheck(c) ==
    /\ conn[c].pc = "check" /\ LockFree /\ peerState = "Unpaired"
    /\ At(c, "begin")
    /\ UNCHANGED <<threadOnly, pstate, completed, session, result, peerState,
                   pairGen, attempts, stolen>>

\* PairingBegin arrived before the window's deadline.
PairBegin(c) ==
    /\ conn[c].pc = "begin" /\ conn[c].open /\ conn[c].task \notin expired
    /\ At(c, "reserve")
    /\ UNCHANGED <<threadOnly, pstate, completed, session, result, peerState,
                   pairGen, attempts, stolen>>

reserve_pairing_window == [pstate EXCEPT !.consumed = TRUE, !.waiting = TRUE]

PairReserve(c) ==
    /\ conn[c].pc = "reserve" /\ ~pstate.consumed
    /\ pstate' = reserve_pairing_window
    /\ attempts' = [attempts EXCEPT ![conn[c].task] = @ + 1]
    /\ stolen' = (stolen \/ window # conn[c].task)
    /\ At(c, "prompt")
    /\ UNCHANGED <<threadOnly, completed, session, result, peerState, pairGen>>

\* OwnerPairingTask::confirm shows the digits, then waits for the decision.
PairPrompt(c) ==
    /\ conn[c].pc = "prompt"
    /\ Hears(conn[c].task, "prompt")
    /\ At(c, "decide")
    /\ UNCHANGED <<threadOnly, pstate, completed, session, peerState, pairGen,
                   attempts, stolen>>

PairConfirmed(c) ==
    /\ conn[c].pc = "decide" /\ conn[c].task \notin cancelled \cup expired
    /\ At(c, "prepare")
    /\ UNCHANGED <<threadOnly, pstate, completed, session, result, peerState,
                   pairGen, attempts, stolen>>

\* The three publications of the responder, Pending standing for two of them.
PairPublish(c) ==
    /\ LockFree
    /\ \/ /\ conn[c].pc = "prepare" /\ peerState = "Unpaired"
          /\ peerState' = "Pending" /\ At(c, "trust")
       \/ /\ conn[c].pc = "trust" /\ peerState = "Pending"
          /\ peerState' = "Paired" /\ (At(c, "paired") \/ At(c, "finish"))
    /\ UNCHANGED <<threadOnly, pstate, completed, session, result, pairGen,
                   attempts, stolen>>

\* A lost peer, a deadline, a refusal, a failed publication or a lock timeout;
\* a thread that holds the reservation still has to give it back.
PairFails(c) ==
    /\ conn[c].pc \in PairPc \ {"finish", "paired"}
    /\ IF conn[c].pc \in Reserved
       THEN At(c, "finish") /\ UNCHANGED completed
       ELSE Ends(c)
    /\ UNCHANGED <<threadOnly, pstate, session, result, peerState, pairGen,
                   attempts, stolen>>

PairFinish(c) ==
    /\ conn[c].pc \in {"finish", "paired"}
    /\ Hears(conn[c].task, Outcome(conn[c].pc = "paired" \/ peerState = "Paired"))
    /\ pstate' = [pstate EXCEPT !.finished = TRUE]
    /\ Ends(c)
    /\ UNCHANGED <<threadOnly, session, peerState, pairGen, attempts, stolen>>

BusyReject(c) ==
    /\ conn[c].pc = "busy"
    /\ Ends(c)
    /\ UNCHANGED <<threadOnly, pstate, session, result, peerState, pairGen,
                   attempts, stolen>>

\* verify_pinned_peer pins the generation the session belongs to.
ServeVerify(c) ==
    /\ conn[c].pc = "verify" /\ LockFree /\ peerState = "Paired"
    /\ conn' = [conn EXCEPT ![c].pc = "admit", ![c].gen = pairGen]
    /\ UNCHANGED <<threadOnly, pstate, completed, session, result, peerState,
                   pairGen, attempts, stolen>>

StillPinned(c) == LockFree /\ peerState = "Paired" /\ pairGen = conn[c].gen

ServeAdmit(c) ==
    /\ conn[c].pc = "admit" /\ session = NoCommand /\ StillPinned(c)
    /\ session' = c
    /\ At(c, "session")
    /\ UNCHANGED <<threadOnly, pstate, completed, result, peerState, pairGen,
                   attempts, stolen>>

\* The session is over: the client left, the stream was shut down or a check
\* failed.  Before admission the thread may also time out or be refused.
ServeEnds(c) ==
    /\ conn[c].pc \in ServePc
    /\ Ends(c)
    /\ session' = IF session = c THEN NoCommand ELSE session
    /\ UNCHANGED <<threadOnly, pstate, result, peerState, pairGen, attempts, stolen>>

ThreadStep(c) ==
    \/ PairCheck(c) \/ PairBegin(c) \/ PairReserve(c) \/ PairPrompt(c)
    \/ PairConfirmed(c) \/ PairPublish(c) \/ PairFails(c) \/ PairFinish(c)
    \/ BusyReject(c) \/ ServeVerify(c) \/ ServeAdmit(c) \/ ServeEnds(c)

-----------------------------------------------------------------------------
(* The owner control thread and the identity actor.                        *)

ownerOnly == <<lpc, listening, window, active, pstate, kept, tasks, completed,
               ackOwed, conn, session, cancelled, attempts, stolen>>

Event(type, p) == [type |-> type, task |-> p, gen |-> 0]

\* accept_pairing_event; on the host PairStart is answered with a refusal.
OwnerOpens(p, type) ==
    /\ owner = "serving" /\ ~listing /\ result[p] = "none"
    /\ IF LoopEnded
       THEN Hears(p, "failed") /\ UNCHANGED events
       ELSE Hears(p, "accepted") /\ events' = Append(events, Event(type, p))
    /\ UNCHANGED <<ownerOnly, expired, owner, listing, actor, acked, peerState, pairGen>>

WindowExpires(p) ==
    /\ result[p] # "none" /\ p \notin expired
    /\ expired' = expired \cup {p}
    /\ UNCHANGED <<ownerOnly, events, result, owner, listing, actor, acked,
                   peerState, pairGen>>

\* IdentityList: the control state stays locked until the actor answers.
OwnerLists ==
    /\ owner = "serving" /\ ~listing /\ actor = "await"
    /\ listing' = TRUE
    /\ UNCHANGED <<ownerOnly, events, result, expired, owner, actor, acked,
                   peerState, pairGen>>
OwnerListed ==
    /\ listing /\ actor = "idle"
    /\ listing' = FALSE
    /\ UNCHANGED <<ownerOnly, events, result, expired, owner, actor, acked,
                   peerState, pairGen>>

\* The actor revokes durably and tells the loop, keeping the file's lock.
UnpairRevokes ==
    /\ owner = "serving" /\ actor = "idle" /\ pairGen < UnpairMax
    /\ peerState \in {"Pending", "Paired"}
    /\ peerState' = "Revoking" /\ pairGen' = pairGen + 1
    /\ IF LoopEnded THEN UNCHANGED events
                    ELSE events' = Append(events,
                        [Event("revoked", NoCommand) EXCEPT !.gen = pairGen'])
    /\ actor' = "await"
    /\ UNCHANGED <<ownerOnly, result, expired, owner, listing, acked>>

UnpairJoined ==
    /\ actor = "await" /\ AckOf("revoked") \in acked
    /\ actor' = "idle" /\ peerState' = "Unpaired"
    /\ UNCHANGED <<ownerOnly, events, result, expired, owner, listing, acked, pairGen>>

\* Two seconds without an acknowledgement: RevokedRecoveryRequired.
UnpairTimesOut ==
    /\ actor = "await" /\ AckOf("revoked") \notin acked
    /\ actor' = "idle"
    /\ UNCHANGED <<ownerOnly, events, result, expired, owner, listing, acked,
                   peerState, pairGen>>

\* The next unpair finds Revoking and only erases it.
UnpairRecovers ==
    /\ owner = "serving" /\ actor = "idle" /\ peerState = "Revoking"
    /\ peerState' = "Unpaired"
    /\ UNCHANGED <<ownerOnly, events, result, expired, owner, listing, actor,
                   acked, pairGen>>

\* A Shutdown command, or the loop failed and cancels its owner.
OwnerStops ==
    /\ owner = "serving" /\ ~listing
    /\ owner' = "stopping"
    /\ UNCHANGED <<ownerOnly, events, result, expired, listing, actor, acked,
                   peerState, pairGen>>

\* finish_owner_control: control threads and workers are joined, then the loop
\* is told, unless it has already returned.
OwnerTellsLoop ==
    /\ owner = "stopping" /\ ~listing /\ actor = "idle"
    /\ IF LoopEnded
       THEN owner' = "done" /\ UNCHANGED events
       ELSE owner' = "waiting" /\ events' = Append(events, Event("shutdown", NoCommand))
    /\ UNCHANGED <<ownerOnly, result, expired, listing, actor, acked, peerState, pairGen>>

OwnerJoined ==
    /\ owner = "waiting" /\ (AckOf("shutdown") \in acked \/ LoopEnded)
    /\ owner' = "done"
    /\ UNCHANGED <<ownerOnly, events, result, expired, listing, actor, acked,
                   peerState, pairGen>>

LoopStep ==
    \/ LoopJoin \/ LoopEvent \/ LoopReadsPeer \/ LoopFails
    \/ LoopSettles \/ LoopAcknowledges \/ LoopSignalled \/ LoopIdle
    \/ \E c \in Conn : LoopAccept(c)

OwnerStep ==
    \/ OwnerListed \/ UnpairJoined \/ UnpairTimesOut \/ OwnerTellsLoop \/ OwnerJoined

LoopNext ==
    \/ LoopStep \/ LoopSignal
    \/ \E c \in Conn : Connect(c) \/ ThreadStep(c)
    \/ \E p \in PairCommand :
          \/ WindowExpires(p)
          \/ \E type \in {"PairingWindowOpen", "PairStart"} : OwnerOpens(p, type)
    \/ OwnerStep \/ OwnerLists \/ UnpairRevokes \/ UnpairRecovers \/ OwnerStops

\* The loop and the threads run; a minute passes; every read and
\* write of a thread has a deadline, but an open session may last for ever;
\* signals, clients and the owner's commands may never come.
LoopFairness ==
    /\ WF_loopVars(LoopStep)
    /\ WF_loopVars(OwnerStep)
    /\ \A c \in Conn : WF_loopVars(ThreadStep(c) /\ (conn[c].pc = "session" => ~conn[c].open))
    /\ \A p \in PairCommand : WF_loopVars(WindowExpires(p))

LoopSpec == LoopInit /\ [][LoopNext]_loopVars /\ LoopFairness

-----------------------------------------------------------------------------
(* README.md:115 says that opening the host pairing window authorizes one  *)
(* attempt: no command's window is reserved twice (reserve_pairing_window, *)
(* and the reset of pairing_state once a reservation has finished).        *)
OneAttemptPerWindow == \A p \in PairCommand : attempts[p] <= 1

(* A session that outlived its pairing is already shut down, or the        *)
(* revocation is still on its way to the loop.  Admission, revocation and  *)
(* the loop's map of connections are three threads' business.              *)
RevokedIsShut ==
    \A c \in Conn :
        conn[c].pc = "session" /\ (peerState # "Paired" \/ pairGen # conn[c].gen)
            => \/ ~conn[c].open \/ LoopEnded
               \/ \E i \in DOMAIN events : events[i].type = "revoked"

(* The invariant of the loop: its types, and that a revocation reaches     *)
(* every session of the pairing it ends.                                   *)
LoopInv == LoopTypeOK /\ RevokedIsShut

(* When unpair is told that the sessions are joined, none of them is left: *)
(* the acknowledgement cannot overtake a connection thread.                *)
UnpairLeavesNoSession ==
    [][UnpairJoined => \A c \in Conn : conn[c].pc # "session"]_loopVars

(* Whoever opens a window is answered, unless the loop has returned or a   *)
(* thread reserved after its window was gone: expiry, transfer, finish and *)
(* refusal each answer, in every order the loop and the threads allow.     *)
WindowAnswered ==
    \A p \in PairCommand :
        result[p] \in {"accepted", "waiting", "prompt"} ~>
            (result[p] \in Terminal \/ LoopEnded \/ stolen)

(* A shutdown is joined whatever connections, pairings and unpairs are     *)
(* under way: the loop, the owner and the actor wait for each other, and   *)
(* every such wait ends.                                                   *)
HostStops == (owner = "stopping") ~> (LoopEnded /\ owner = "done")
=============================================================================
