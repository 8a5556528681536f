----------------------------- MODULE HostProofs -----------------------------
(***************************************************************************)
(* Proofs about the desktop host.  Of the owner control socket, for any    *)
(* number of commands, prompts, records in the table and updates on their  *)
(* way: a repeated command runs once, and no pairing goes on without the   *)
(* owner's word.  Of the accept loop, for any number of connections,       *)
(* windows and unpairs: a revocation reaches every session of the pairing  *)
(* it ends, and is acknowledged when none is left.  Of a session, for any  *)
(* number of requests: its frames are of the pairing it was admitted with. *)
(***************************************************************************)
EXTENDS OwnerControl, HostLoop, HostSession, TLAPS

Decision == [tx : Transaction, yes : BOOLEAN]

ControlTypeOK ==
    /\ DOMAIN table \subseteq CommandId
    /\ ran \in [CommandId -> Nat] /\ forgotten \in [CommandId -> Nat]
    /\ decisions \in [PairId -> Seq(Decision)]

\* Every run of an identity but the remembered one was forgotten in its time.
RunsAreRemembered == \A id \in CommandId :
    ran[id] = forgotten[id] + IF id \in DOMAIN table THEN 1 ELSE 0

\* What is at work is in the table, and only what is at rest grows old there.
WorkIsInTable == running \subseteq DOMAIN table /\ aged \subseteq DOMAIN table \ running

\* A yes in a decision channel is the owner's, for that transaction.
DecisionsAreOwners == \A id \in PairId : \A i \in DOMAIN decisions[id] :
    decisions[id][i].yes => <<id, decisions[id][i].tx>> \in agreed

OwnerInv ==
    /\ ControlTypeOK /\ RunsAreRemembered /\ WorkIsInTable
    /\ DecisionsAreOwners /\ ConfirmedByOwner

-----------------------------------------------------------------------------

\* The table is empty and nothing was decided.
LEMMA OwnerStarts == ControlInit => OwnerInv
<1> SUFFICES ASSUME ControlInit PROVE OwnerInv
    OBVIOUS
<1>1. DOMAIN table = {}
    BY DEF ControlInit
<1>2. ControlTypeOK
    BY <1>1 DEF ControlInit, ControlTypeOK
<1>3. RunsAreRemembered /\ WorkIsInTable
    BY <1>1 DEF ControlInit, RunsAreRemembered, WorkIsInTable
<1>4. DecisionsAreOwners /\ ConfirmedByOwner
    BY DEF ControlInit, DecisionsAreOwners, ConfirmedByOwner
<1> QED BY <1>2, <1>3, <1>4 DEF OwnerInv

\* apply_completions and expire_terminal: what leaves the table was at rest for
\* ten minutes, is counted as forgotten and is no longer counted as aged.
LEMMA TakesInForgets ==
    ASSUME OwnerInv, TakesIn
    PROVE  /\ DOMAIN Current \subseteq DOMAIN table
           /\ running \subseteq DOMAIN Current
           /\ aged' \subseteq DOMAIN Current \ running
           /\ forgotten' \in [CommandId -> Nat]
           /\ \A id \in CommandId :
                 ran[id] = forgotten'[id] + IF id \in DOMAIN Current THEN 1 ELSE 0
<1> DEFINE gone == DOMAIN table \ DOMAIN Current
<1>1. DOMAIN Applied = DOMAIN table
    BY DEF Applied
<1>2. DOMAIN Current = DOMAIN table \ Expired(Applied)
    BY DEF Current
<1>3. Expired(Applied) \subseteq aged
    BY DEF Expired
<1>4. gone \subseteq aged /\ DOMAIN Current \subseteq DOMAIN table
    BY <1>2, <1>3
<1>5. running \subseteq DOMAIN table /\ aged \subseteq DOMAIN table \ running
    BY DEF OwnerInv, WorkIsInTable
<1>6. running \subseteq DOMAIN Current
    BY <1>4, <1>5
<1>7. aged' = aged \ gone
    BY DEF TakesIn
<1>8. aged' \subseteq DOMAIN Current \ running
    BY <1>5, <1>7
<1>9. forgotten' = [id \in CommandId |-> forgotten[id] + IF id \in aged \cap gone THEN 1 ELSE 0]
    BY DEF TakesIn
<1>10. forgotten \in [CommandId -> Nat] /\ ran \in [CommandId -> Nat]
    BY DEF OwnerInv, ControlTypeOK
<1>11. forgotten' \in [CommandId -> Nat]
    BY <1>9, <1>10
<1>12. ASSUME NEW id \in CommandId
       PROVE  ran[id] = forgotten'[id] + IF id \in DOMAIN Current THEN 1 ELSE 0
  <2>1. ran[id] = forgotten[id] + IF id \in DOMAIN table THEN 1 ELSE 0
      BY DEF OwnerInv, RunsAreRemembered
  <2>2. forgotten[id] \in Nat
      BY <1>10
  <2>3. CASE id \in gone
    <3>1. forgotten'[id] = forgotten[id] + 1 /\ id \in DOMAIN table /\ id \notin DOMAIN Current
        BY <1>4, <1>9, <2>3
    <3> QED BY <2>1, <2>2, <3>1
  <2>4. CASE id \notin gone
    <3>1. forgotten'[id] = forgotten[id] + 0 /\ (id \in DOMAIN table <=> id \in DOMAIN Current)
        BY <1>4, <1>9, <2>4
    <3> QED BY <2>1, <2>2, <3>1
  <2> QED BY <2>3, <2>4
<1> QED BY <1>4, <1>6, <1>8, <1>11, <1>12

\* A query only brings the table up to date.
LEMMA QueryKeeps == OwnerInv /\ Query => OwnerInv'
<1> SUFFICES ASSUME OwnerInv, Query PROVE OwnerInv'
    OBVIOUS
<1>1. TakesIn /\ table' = Current
      /\ UNCHANGED <<running, decisions, ran, agreed, confirmed>>
    BY DEF Query
<1>2. /\ DOMAIN Current \subseteq DOMAIN table /\ running \subseteq DOMAIN Current
      /\ aged' \subseteq DOMAIN Current \ running /\ forgotten' \in [CommandId -> Nat]
      /\ \A id \in CommandId : ran[id] = forgotten'[id] + IF id \in DOMAIN Current THEN 1 ELSE 0
    BY <1>1, TakesInForgets
<1>3. ControlTypeOK'
    BY <1>1, <1>2 DEF OwnerInv, ControlTypeOK
<1>4. RunsAreRemembered' /\ WorkIsInTable'
    BY <1>1, <1>2 DEF RunsAreRemembered, WorkIsInTable
<1>5. DecisionsAreOwners' /\ ConfirmedByOwner'
    BY <1>1 DEF OwnerInv, DecisionsAreOwners, ConfirmedByOwner
<1> QED BY <1>3, <1>4, <1>5 DEF OwnerInv

\* A command that is carried out was not in the table: one more run, one more
\* record.
LEMMA AcceptKeeps == \A id \in CommandId : OwnerInv /\ Accept(id) => OwnerInv'
<1> SUFFICES ASSUME NEW id \in CommandId, OwnerInv, Accept(id) PROVE OwnerInv'
    OBVIOUS
<1>1. TakesIn /\ id \notin DOMAIN Current /\ running' = running \cup {id}
      /\ ran' = [ran EXCEPT ![id] = @ + 1] /\ UNCHANGED <<agreed, confirmed>>
      /\ decisions' = [x \in PairId |-> IF x = id THEN <<>> ELSE decisions[x]]
    BY DEF Accept, IsNew
<1>2. DOMAIN table' = DOMAIN Current \cup {id}
    BY DEF Accept
<1>3. /\ DOMAIN Current \subseteq DOMAIN table /\ running \subseteq DOMAIN Current
      /\ aged' \subseteq DOMAIN Current \ running /\ forgotten' \in [CommandId -> Nat]
      /\ \A x \in CommandId : ran[x] = forgotten'[x] + IF x \in DOMAIN Current THEN 1 ELSE 0
    BY <1>1, TakesInForgets
<1>4. DOMAIN table \subseteq CommandId /\ ran \in [CommandId -> Nat]
      /\ decisions \in [PairId -> Seq(Decision)]
    BY DEF OwnerInv, ControlTypeOK
<1>5. ControlTypeOK'
  <2>1. ran' \in [CommandId -> Nat] /\ decisions' \in [PairId -> Seq(Decision)]
      BY <1>1, <1>4
  <2>2. DOMAIN table' \subseteq CommandId
      BY <1>2, <1>3, <1>4
  <2> QED BY <1>3, <2>1, <2>2 DEF ControlTypeOK
<1>6. RunsAreRemembered'
  <2> SUFFICES ASSUME NEW x \in CommandId
               PROVE  ran'[x] = forgotten'[x] + IF x \in DOMAIN table' THEN 1 ELSE 0
      BY DEF RunsAreRemembered
  <2>1. ran[x] = forgotten'[x] + (IF x \in DOMAIN Current THEN 1 ELSE 0) /\ forgotten'[x] \in Nat
      BY <1>3
  <2>2. CASE x = id
    <3>1. ran'[x] = ran[x] + 1 /\ x \in DOMAIN table' /\ x \notin DOMAIN Current
        BY <1>1, <1>2, <1>4, <2>2
    <3> QED BY <2>1, <3>1
  <2>3. CASE x # id
    <3>1. ran'[x] = ran[x] /\ (x \in DOMAIN table' <=> x \in DOMAIN Current)
        BY <1>1, <1>2, <1>4, <2>3
    <3> QED BY <2>1, <3>1
  <2> QED BY <2>2, <2>3
<1>7. WorkIsInTable'
    BY <1>1, <1>2, <1>3 DEF WorkIsInTable
<1>8. DecisionsAreOwners' /\ ConfirmedByOwner'
    BY <1>1 DEF OwnerInv, DecisionsAreOwners, ConfirmedByOwner
<1> QED BY <1>5, <1>6, <1>7, <1>8 DEF OwnerInv

\* The owner's word is noted with the decision that carries it.
LEMMA DecideKeeps ==
    \A id \in PairId, tx \in Transaction, yes \in BOOLEAN :
        OwnerInv /\ Decide(id, tx, yes) => OwnerInv'
<1> SUFFICES ASSUME NEW id \in PairId, NEW tx \in Transaction, NEW yes \in BOOLEAN,
                    OwnerInv, Decide(id, tx, yes)
             PROVE  OwnerInv'
    OBVIOUS
<1> DEFINE d == [tx |-> tx, yes |-> yes]
<1>1. TakesIn /\ UNCHANGED <<running, ran, confirmed>>
      /\ decisions' = [decisions EXCEPT ![id] = Append(@, d)]
      /\ agreed' = IF yes THEN agreed \cup {<<id, tx>>} ELSE agreed
    BY DEF Decide
<1>2. DOMAIN table' = DOMAIN Current
    BY DEF Decide
<1>3. /\ DOMAIN Current \subseteq DOMAIN table /\ running \subseteq DOMAIN Current
      /\ aged' \subseteq DOMAIN Current \ running /\ forgotten' \in [CommandId -> Nat]
      /\ \A x \in CommandId : ran[x] = forgotten'[x] + IF x \in DOMAIN Current THEN 1 ELSE 0
    BY <1>1, TakesInForgets
<1>4. decisions \in [PairId -> Seq(Decision)] /\ d \in Decision
    BY DEF OwnerInv, ControlTypeOK, Decision
<1>5. d.yes = yes /\ d.tx = tx
    OBVIOUS
<1> HIDE DEF d
<1>6. ControlTypeOK'
  <2>1. decisions' \in [PairId -> Seq(Decision)]
      BY <1>1, <1>4
  <2> QED BY <1>1, <1>2, <1>3, <2>1 DEF OwnerInv, ControlTypeOK
<1>7. RunsAreRemembered' /\ WorkIsInTable'
    BY <1>1, <1>2, <1>3 DEF RunsAreRemembered, WorkIsInTable
<1>8. agreed \subseteq agreed'
    BY <1>1
<1>9. DecisionsAreOwners'
  <2> SUFFICES ASSUME NEW x \in PairId, NEW i \in DOMAIN decisions'[x], decisions'[x][i].yes
               PROVE  <<x, decisions'[x][i].tx>> \in agreed'
      BY DEF DecisionsAreOwners
  <2>1. decisions[x] \in Seq(Decision)
      BY <1>4
  <2>2. CASE i \in DOMAIN decisions[x] /\ decisions'[x][i] = decisions[x][i]
      BY <1>8, <2>2 DEF OwnerInv, DecisionsAreOwners
  <2>3. CASE x = id /\ i = Len(decisions[id]) + 1
    <3>1. decisions'[x][i] = d
        BY <1>1, <1>4, <2>1, <2>3
    <3> QED BY <1>1, <1>5, <2>3, <3>1
  <2>4. CASE x # id
      BY <1>1, <1>4, <2>2, <2>4
  <2>5. CASE x = id /\ i # Len(decisions[id]) + 1
    <3>1. decisions'[x] = Append(decisions[x], d)
        BY <1>1, <1>4, <2>5
    <3>2. i \in DOMAIN decisions[x] /\ decisions'[x][i] = decisions[x][i]
        BY <1>4, <2>1, <2>5, <3>1
    <3> QED BY <2>2, <3>2
  <2> QED BY <2>3, <2>4, <2>5
<1>10. ConfirmedByOwner'
    BY <1>1, <1>8 DEF OwnerInv, ConfirmedByOwner
<1> QED BY <1>6, <1>7, <1>9, <1>10 DEF OwnerInv

\* A worker or a pairing thread that ends, waits or prompts leaves the table and
\* the decisions alone, and what it sets to work is in the table.
LEMMA WorkKeeps ==
    ASSUME OwnerInv, running' \subseteq DOMAIN table, running' \cap aged = {},
           UNCHANGED <<table, decisions, aged, ran, forgotten, agreed, confirmed>>
    PROVE  OwnerInv'
<1>1. ControlTypeOK' /\ RunsAreRemembered'
    BY DEF OwnerInv, ControlTypeOK, RunsAreRemembered
<1>2. WorkIsInTable'
    BY DEF OwnerInv, WorkIsInTable
<1>3. DecisionsAreOwners' /\ ConfirmedByOwner'
    BY DEF OwnerInv, DecisionsAreOwners, ConfirmedByOwner
<1> QED BY <1>1, <1>2, <1>3 DEF OwnerInv

\* The pairing thread takes the first decision, and goes on only if it is a yes
\* for its own transaction.
LEMMA DecidedKeeps == \A id \in PairId : OwnerInv /\ TaskDecided(id) => OwnerInv'
<1> SUFFICES ASSUME NEW id \in PairId, OwnerInv, TaskDecided(id) PROVE OwnerInv'
    OBVIOUS
<1> DEFINE d == Head(decisions[id])
<1>1. decisions[id] # <<>> /\ UNCHANGED <<table, running, aged, ran, forgotten, agreed>>
      /\ decisions' = [decisions EXCEPT ![id] = Tail(@)]
      /\ confirmed' = IF d.yes /\ d.tx = confirm[id] THEN confirmed \cup {<<id, d.tx>>}
                                                     ELSE confirmed
    BY DEF TaskDecided
<1>2. decisions \in [PairId -> Seq(Decision)] /\ decisions[id] \in Seq(Decision)
    BY DEF OwnerInv, ControlTypeOK
<1>3. d = decisions[id][1] /\ 1 \in DOMAIN decisions[id]
    BY <1>1, <1>2
<1>4. d.yes => <<id, d.tx>> \in agreed
    BY <1>3 DEF OwnerInv, DecisionsAreOwners
<1> HIDE DEF d
<1>5. ControlTypeOK'
  <2>1. Tail(decisions[id]) \in Seq(Decision)
      BY <1>1, <1>2
  <2>2. decisions' \in [PairId -> Seq(Decision)]
      BY <1>1, <1>2, <2>1
  <2> QED BY <1>1, <2>2 DEF OwnerInv, ControlTypeOK
<1>6. RunsAreRemembered' /\ WorkIsInTable'
    BY <1>1 DEF OwnerInv, RunsAreRemembered, WorkIsInTable
<1>7. DecisionsAreOwners'
  <2> SUFFICES ASSUME NEW x \in PairId, NEW i \in DOMAIN decisions'[x], decisions'[x][i].yes
               PROVE  <<x, decisions'[x][i].tx>> \in agreed
      BY <1>1 DEF DecisionsAreOwners
  <2>1. CASE x = id
    <3>1. decisions'[x] = Tail(decisions[x])
        BY <1>1, <1>2, <2>1
    <3>2. i + 1 \in DOMAIN decisions[x] /\ decisions'[x][i] = decisions[x][i + 1]
        BY <1>1, <1>2, <2>1, <3>1
    <3> QED BY <3>2 DEF OwnerInv, DecisionsAreOwners
  <2>2. CASE x # id
      BY <1>1, <1>2, <2>2 DEF OwnerInv, DecisionsAreOwners
  <2> QED BY <2>1, <2>2
<1>8. ConfirmedByOwner'
    BY <1>1, <1>4 DEF OwnerInv, ConfirmedByOwner
<1> QED BY <1>5, <1>6, <1>7, <1>8 DEF OwnerInv

\* The other steps of workers, pairing threads and the clock.
LEMMA BackgroundKeeps ==
    ASSUME NEW id \in CommandId, OwnerInv,
           \/ WorkerCompletes(id) \/ TaskGivesUp(id) \/ TaskFinishes(id) \/ TaskWaits(id)
           \/ TenMinutes(id)
    PROVE  OwnerInv'
<1>1. running \subseteq DOMAIN table /\ aged \subseteq DOMAIN table \ running
    BY DEF OwnerInv, WorkIsInTable
<1>2. CASE TenMinutes(id)
  <2>1. UNCHANGED <<table, running, decisions, ran, forgotten, agreed, confirmed>>
        /\ aged' = aged \cup {id} /\ id \in DOMAIN table \ running
      BY <1>2 DEF TenMinutes
  <2>2. ControlTypeOK' /\ RunsAreRemembered'
      BY <2>1 DEF OwnerInv, ControlTypeOK, RunsAreRemembered
  <2>3. WorkIsInTable'
      BY <1>1, <2>1 DEF WorkIsInTable
  <2>4. DecisionsAreOwners' /\ ConfirmedByOwner'
      BY <2>1 DEF OwnerInv, DecisionsAreOwners, ConfirmedByOwner
  <2> QED BY <2>2, <2>3, <2>4 DEF OwnerInv
<1>3. CASE WorkerCompletes(id) \/ TaskGivesUp(id) \/ TaskFinishes(id) \/ TaskWaits(id)
  <2>1. UNCHANGED <<table, decisions, aged, ran, forgotten, agreed, confirmed>>
        /\ running' \subseteq running
      BY <1>3 DEF WorkerCompletes, TaskGivesUp, TaskFinishes, TaskWaits
  <2>2. running' \subseteq DOMAIN table /\ running' \cap aged = {}
      BY <1>1, <2>1
  <2> QED BY <2>1, <2>2, WorkKeeps
<1> QED BY <1>2, <1>3

\* A late connection of the same window sets its command to work again, while
\* its record is in the table and has not aged.
LEMMA PromptsKeeps ==
    \A id \in PairId, tx \in Transaction : OwnerInv /\ TaskPrompts(id, tx) => OwnerInv'
<1> SUFFICES ASSUME NEW id \in PairId, NEW tx \in Transaction, OwnerInv, TaskPrompts(id, tx)
             PROVE  OwnerInv'
    OBVIOUS
<1>1. UNCHANGED <<table, decisions, aged, ran, forgotten, agreed, confirmed>>
      /\ running' = running \cup {id} /\ id \in DOMAIN table /\ id \notin aged
    BY DEF TaskPrompts
<1>2. running' \subseteq DOMAIN table /\ running' \cap aged = {}
    BY <1>1 DEF OwnerInv, WorkIsInTable
<1> QED BY <1>1, <1>2, WorkKeeps

-----------------------------------------------------------------------------

\* The table, the workers, the histories and the decision channels of
\* owner_control.rs stay in step.
THEOREM OwnerInvariance == ControlSpec => []OwnerInv
<1>1. OwnerInv /\ [ControlNext]_controlVars => OwnerInv'
  <2> SUFFICES ASSUME OwnerInv, [ControlNext]_controlVars PROVE OwnerInv'
      OBVIOUS
  <2>1. CASE Query
      BY <2>1, QueryKeeps
  <2>2. ASSUME NEW id \in CommandId, Accept(id) \/ Background(id) \/ TaskWaits(id) \/ TenMinutes(id)
        PROVE  OwnerInv'
    <3>1. CASE Accept(id)
        BY <3>1, AcceptKeeps
    <3>2. CASE TaskDecided(id)
      <4>1. id \in PairId
          BY <3>2 DEF TaskDecided
      <4> QED BY <3>2, <4>1, DecidedKeeps
    <3>3. CASE \/ WorkerCompletes(id) \/ TaskGivesUp(id) \/ TaskFinishes(id) \/ TaskWaits(id)
               \/ TenMinutes(id)
        BY <3>3, BackgroundKeeps
    <3> QED BY <2>2, <3>1, <3>2, <3>3 DEF Background
  <2>3. ASSUME NEW id \in PairId, NEW tx \in Transaction,
               TaskPrompts(id, tx) \/ \E yes \in BOOLEAN : Decide(id, tx, yes)
        PROVE  OwnerInv'
      BY <2>3, PromptsKeeps, DecideKeeps
  <2>4. CASE UNCHANGED controlVars
      BY <2>4 DEF controlVars, OwnerInv, ControlTypeOK, RunsAreRemembered, WorkIsInTable,
                  DecisionsAreOwners, ConfirmedByOwner
  <2> QED BY <2>1, <2>2, <2>3, <2>4 DEF ControlNext
<1> QED BY <1>1, OwnerStarts, PTL DEF ControlSpec

\* A command a client repeats because its answer was lost is not carried out
\* again as long as the table remembers it, and a command at work is remembered.
THEOREM RetriesRunOnce == ControlSpec => []RunsOnce
<1>1. OwnerInv => RunsOnce
  <2> SUFFICES ASSUME OwnerInv, NEW id \in CommandId
               PROVE  ran[id] <= forgotten[id] + 1 /\ (id \in running => id \in DOMAIN table)
      BY DEF RunsOnce
  <2>1. ran[id] = forgotten[id] + (IF id \in DOMAIN table THEN 1 ELSE 0) /\ forgotten[id] \in Nat
      BY DEF OwnerInv, RunsAreRemembered, ControlTypeOK
  <2>2. ran[id] <= forgotten[id] + 1
      BY <2>1
  <2> QED BY <2>2 DEF OwnerInv, WorkIsInTable
<1> QED BY <1>1, OwnerInvariance, PTL

\* A pairing thread that goes on has the owner's yes for its own transaction,
\* also when the decision of an earlier prompt is still in its channel.
THEOREM PairingNeedsTheOwner == ControlSpec => []ConfirmedByOwner
<1>1. OwnerInv => ConfirmedByOwner
    BY DEF OwnerInv
<1> QED BY <1>1, OwnerInvariance, PTL



-----------------------------------------------------------------------------
(* The accept loop                                                         *)

OwnerEvent == [type : {"revoked", "shutdown", "PairStart", "PairingWindowOpen"},
               task : PairCommand \cup {NoCommand}, gen : 0..UnpairMax]
Idling == {"away", "backlog", "ended"}

\* The queue holds events of the generations so far, and the loop reads the
\* peer's record only for a command that opens a window.
EventsAreKnown ==
    /\ events \in Seq(OwnerEvent) /\ pairGen \in 0..UnpairMax
    /\ \A i \in DOMAIN events :
          /\ events[i].gen <= pairGen
          /\ events[i].type \in {"PairStart", "PairingWindowOpen"} => events[i].task \in PairCommand
    /\ lpc = "peer" => events # <<>> /\ Head(events).type = "PairingWindowOpen"

\* Acknowledgements are of the generations so far.
AcksAreKnown == \A a \in ackOwed \cup acked : a.gen <= pairGen

\* A thread that has not returned can be shut down by the loop, and one that
\* pairs does so for a command.
ThreadsAreKept ==
    /\ \A c \in Conn : conn[c].pc \notin Idling => c \in kept
    /\ \A c \in completed : conn[c].pc = "ended"
    /\ \A c \in Conn : conn[c].pc \in PairPc => conn[c].task \in PairCommand

\* While unpair holds the lock the peer is being revoked, and once it is told
\* that its sessions are joined there is none.
UnpairIsAlone == actor = "await" =>
    /\ peerState = "Revoking"
    /\ AckOf("revoked") \in acked => \A c \in Conn : conn[c].pc # "session"

HostInv ==
    /\ LoopTypeOK /\ EventsAreKnown /\ AcksAreKnown /\ ThreadsAreKept /\ UnpairIsAlone /\ RevokedIsShut


\* A thread moves to another place, or returns.
LEMMA ThreadMoves ==
    ASSUME conn \in [Conn -> Thread], NEW c \in Conn, NEW pc \in ConnPc, At(c, pc)
    PROVE  /\ conn' \in [Conn -> Thread] /\ \A d \in Conn : d # c => conn'[d] = conn[d]
           /\ conn'[c].pc = pc /\ conn'[c].task = conn[c].task /\ conn'[c].gen = conn[c].gen
           /\ conn'[c].open = conn[c].open
<1> DEFINE o == [conn[c] EXCEPT !.pc = pc]
<1>1. conn[c] \in Thread
    OBVIOUS
<1>2. o \in Thread /\ o.pc = pc /\ o.task = conn[c].task /\ o.gen = conn[c].gen /\ o.open = conn[c].open
    BY <1>1 DEF Thread
<1>3. conn' = [conn EXCEPT ![c] = o]
    BY DEF At
<1> HIDE DEF o
<1> QED BY <1>2, <1>3

\* A thread that ends takes its session and nothing else with it.
LEMMA ThreadEnds ==
    ASSUME conn \in [Conn -> Thread], NEW c \in Conn,
           conn' = [conn EXCEPT ![c].pc = "ended", ![c].open = FALSE]
    PROVE  /\ conn' \in [Conn -> Thread] /\ \A d \in Conn : d # c => conn'[d] = conn[d]
           /\ conn'[c].pc = "ended"
<1> DEFINE o == [conn[c] EXCEPT !.pc = "ended", !.open = FALSE]
<1>1. conn[c] \in Thread /\ "ended" \in ConnPc
    BY DEF ConnPc
<1>2. o \in Thread /\ o.pc = "ended"
    BY <1>1 DEF Thread
<1>3. conn' = [conn EXCEPT ![c] = o]
    OBVIOUS
<1> HIDE DEF o
<1> QED BY <1>2, <1>3

\* Whatever one thread does: it was known to the loop or only now comes up to
\* it, a new session is one of the pairing in force, and no other thread, event
\* or acknowledgement is touched.
LEMMA ThreadKeeps ==
    ASSUME HostInv, NEW c \in Conn, UNCHANGED threadOnly, UNCHANGED pairGen,
           conn' \in [Conn -> Thread], \A d \in Conn : d # c => conn'[d] = conn[d],
           conn[c].pc \in Idling => conn[c].pc = "away" /\ conn'[c].pc = "backlog",
           \/ completed' = completed /\ conn'[c].pc # "ended"
           \/ completed' = completed \cup {c} /\ conn'[c].pc = "ended" /\ conn[c].pc \notin Idling,
           conn'[c].pc \in PairPc => conn'[c].task = conn[c].task /\ conn[c].pc \in PairPc,
           conn'[c].pc = "session" => LockFree /\ peerState = "Paired" /\ pairGen = conn'[c].gen,
           \/ peerState' = peerState
           \/ LockFree /\ peerState # "Paired" /\ peerState' \in {"Pending", "Paired"} /\ conn'[c].pc # "session",
           pstate' \in PairingState,
           session' \in Conn \cup {NoCommand}, stolen' \in BOOLEAN,
           result' \in [PairCommand -> {"none", "accepted", "waiting", "prompt"} \cup Terminal]
    PROVE  HostInv'
<1>1. UNCHANGED <<lpc, events, listening, window, active, kept, tasks, ackOwed,
                  expired, cancelled, owner, listing, actor, acked>>
    BY DEF threadOnly
<1>2. conn[c].pc \notin Idling => c \in kept
    BY DEF HostInv, ThreadsAreKept
<1>3. completed' \subseteq kept
    BY <1>2 DEF HostInv, LoopTypeOK
<1>4. LoopTypeOK'
    <2>1. peerState' \in {"Unpaired", "Pending", "Paired", "Revoking"}
        BY DEF HostInv, LoopTypeOK
    <2> QED BY <1>1, <1>3, <2>1 DEF HostInv, LoopTypeOK
<1>5. EventsAreKnown' /\ AcksAreKnown'
    BY <1>1 DEF HostInv, EventsAreKnown, AcksAreKnown
<1>6. ThreadsAreKept'
    <2>1. \A d \in Conn : conn'[d].pc \notin Idling => d \in kept
        BY <1>2 DEF HostInv, ThreadsAreKept, Idling
    <2>2. \A d \in completed' : conn'[d].pc = "ended"
        <3>1. \A d \in completed : d \in Conn /\ conn[d].pc = "ended"
            BY DEF HostInv, ThreadsAreKept, LoopTypeOK
        <3>2. c \notin completed
            BY <3>1 DEF Idling
        <3> QED BY <3>1, <3>2
    <2>3. \A d \in Conn : conn'[d].pc \in PairPc => conn'[d].task \in PairCommand
        BY DEF HostInv, ThreadsAreKept
    <2> QED BY <1>1, <2>1, <2>2, <2>3 DEF ThreadsAreKept
<1>7. UnpairIsAlone'
    <2>1. AckOf("revoked")' = AckOf("revoked")
        BY DEF AckOf
    <2>2. ASSUME actor = "await"
          PROVE  /\ peerState' = "Revoking"
                 /\ AckOf("revoked") \in acked => \A d \in Conn : conn'[d].pc # "session"
        BY <2>2 DEF HostInv, UnpairIsAlone, LockFree
    <2> QED BY <1>1, <2>1, <2>2 DEF UnpairIsAlone
<1>8. RevokedIsShut'
    <2> SUFFICES ASSUME NEW d \in Conn, conn'[d].pc = "session",
                        peerState' # "Paired" \/ pairGen # conn'[d].gen
                 PROVE  ~conn'[d].open \/ LoopEnded' \/ \E i \in DOMAIN events' : events'[i].type = "revoked"
        BY DEF RevokedIsShut
    <2>1. d # c
        OBVIOUS
    <2>2. conn[d] = conn'[d] /\ (peerState # "Paired" \/ pairGen # conn[d].gen)
        BY <2>1
    <2>3. ~conn[d].open \/ LoopEnded \/ \E i \in DOMAIN events : events[i].type = "revoked"
        BY <2>2 DEF HostInv, RevokedIsShut
    <2> QED BY <1>1, <2>2, <2>3 DEF LoopEnded
<1> QED BY <1>4, <1>5, <1>6, <1>7, <1>8 DEF HostInv

\* What the owner hears is one of the answers.
LEMMA HearsAnAnswer ==
    ASSUME result \in [PairCommand -> {"none", "accepted", "waiting", "prompt"} \cup Terminal],
           NEW p, NEW a \in {"none", "accepted", "waiting", "prompt"} \cup Terminal, Hears(p, a)
    PROVE  result' \in [PairCommand -> {"none", "accepted", "waiting", "prompt"} \cup Terminal]
BY DEF Hears

\* A thread that only moves on.
LEMMA MoveKeeps ==
    ASSUME HostInv, NEW c \in Conn, NEW pc \in ConnPc \ {"ended"}, At(c, pc), UNCHANGED threadOnly,
           UNCHANGED <<completed, pairGen>>,
           conn[c].pc \in Idling => conn[c].pc = "away" /\ pc = "backlog",
           pc \in PairPc => conn[c].pc \in PairPc,
           pc = "session" => LockFree /\ peerState = "Paired" /\ pairGen = conn[c].gen,
           \/ peerState' = peerState
           \/ LockFree /\ peerState # "Paired" /\ peerState' \in {"Pending", "Paired"} /\ pc # "session",
           pstate' \in PairingState,
           session' \in Conn \cup {NoCommand}, stolen' \in BOOLEAN,
           result' \in [PairCommand -> {"none", "accepted", "waiting", "prompt"} \cup Terminal]
    PROVE  HostInv'
<1>1. conn \in [Conn -> Thread]
    BY DEF HostInv, LoopTypeOK
<1>2. /\ conn' \in [Conn -> Thread] /\ \A d \in Conn : d # c => conn'[d] = conn[d]
      /\ conn'[c].pc = pc /\ conn'[c].task = conn[c].task /\ conn'[c].gen = conn[c].gen
    BY <1>1, ThreadMoves
<1> QED BY <1>2, ThreadKeeps

\* A thread that returns.
LEMMA EndKeeps ==
    ASSUME HostInv, NEW c \in Conn, Ends(c), UNCHANGED threadOnly, UNCHANGED <<pairGen, peerState, stolen>>,
           conn[c].pc \notin Idling,
           pstate' \in PairingState,
           session' \in Conn \cup {NoCommand},
           result' \in [PairCommand -> {"none", "accepted", "waiting", "prompt"} \cup Terminal]
    PROVE  HostInv'
<1>1. conn \in [Conn -> Thread] /\ stolen' \in BOOLEAN
    BY DEF HostInv, LoopTypeOK
<1>2. /\ conn' \in [Conn -> Thread] /\ \A d \in Conn : d # c => conn'[d] = conn[d]
      /\ conn'[c].pc = "ended" /\ completed' = completed \cup {c}
    BY <1>1, ThreadEnds DEF Ends
<1>3. "ended" \notin PairPc
    BY DEF PairPc
<1> QED BY <1>1, <1>2, <1>3, ThreadKeeps

\* A client connects; a connection checks the record, waits for PairingBegin,
\* reserves the window and asks the owner.
LEMMA PairStepsKeep ==
    ASSUME HostInv, NEW c \in Conn,
           \/ Connect(c) \/ PairCheck(c) \/ PairBegin(c) \/ PairReserve(c) \/ PairPrompt(c) \/ PairConfirmed(c)
    PROVE  HostInv'
<1>1. /\ pstate \in PairingState
      /\ session \in Conn \cup {NoCommand} /\ stolen \in BOOLEAN
      /\ result \in [PairCommand -> {"none", "accepted", "waiting", "prompt"} \cup Terminal]
    BY DEF HostInv, LoopTypeOK
<1>2. /\ {"begin", "reserve", "prompt", "decide", "prepare", "backlog"} \subseteq ConnPc \ {"ended"}
      /\ {"check", "begin", "reserve", "prompt", "decide"} \subseteq PairPc
      /\ {"check", "begin", "reserve", "prompt", "decide"} \cap Idling = {} /\ "backlog" \notin PairPc
    BY DEF ConnPc, PairPc, Idling
<1>3. CASE Connect(c)
    BY <1>1, <1>2, <1>3, MoveKeeps DEF Connect
<1>4. CASE PairCheck(c)
    BY <1>1, <1>2, <1>4, MoveKeeps DEF PairCheck
<1>5. CASE PairBegin(c)
    BY <1>1, <1>2, <1>5, MoveKeeps DEF PairBegin
<1>6. CASE PairReserve(c)
    <2>1. pstate' \in PairingState
        BY <1>1, <1>6 DEF PairReserve, reserve_pairing_window, PairingState
    <2>2. stolen' \in BOOLEAN
        BY <1>6 DEF PairReserve
    <2>3. /\ At(c, "prompt") /\ UNCHANGED threadOnly /\ conn[c].pc = "reserve"
          /\ UNCHANGED <<completed, session, result, peerState, pairGen>>
        BY <1>6 DEF PairReserve
    <2> QED BY <1>1, <1>2, <2>1, <2>2, <2>3, MoveKeeps
<1>7. CASE PairPrompt(c)
    <2>1. result' \in [PairCommand -> {"none", "accepted", "waiting", "prompt"} \cup Terminal]
        BY <1>1, <1>7, HearsAnAnswer DEF PairPrompt
    <2> QED BY <1>1, <1>2, <1>7, <2>1, MoveKeeps DEF PairPrompt
<1>8. CASE PairConfirmed(c)
    BY <1>1, <1>2, <1>8, MoveKeeps DEF PairConfirmed
<1> QED BY <1>3, <1>4, <1>5, <1>6, <1>7, <1>8

\* The record is published, and the reservation given back.
LEMMA PairEndsKeep ==
    ASSUME HostInv, NEW c \in Conn, PairPublish(c) \/ PairFails(c) \/ PairFinish(c) \/ BusyReject(c)
    PROVE  HostInv'
<1>1. /\ pstate \in PairingState
      /\ session \in Conn \cup {NoCommand} /\ stolen \in BOOLEAN
      /\ result \in [PairCommand -> {"none", "accepted", "waiting", "prompt"} \cup Terminal]
    BY DEF HostInv, LoopTypeOK
<1>2. /\ {"trust", "paired", "finish"} \subseteq ConnPc \ {"ended"}
      /\ {"prepare", "trust", "paired", "finish"} \subseteq PairPc
      /\ (PairPc \cup {"busy"}) \cap Idling = {} /\ Reserved \subseteq PairPc
    BY DEF ConnPc, PairPc, Idling, Reserved
<1>3. CASE PairPublish(c)
    <2>1. /\ LockFree /\ UNCHANGED threadOnly
          /\ UNCHANGED <<pstate, completed, session, result, pairGen, stolen>>
        BY <1>3 DEF PairPublish
    <2>2. \/ conn[c].pc = "prepare" /\ peerState = "Unpaired" /\ peerState' = "Pending" /\ At(c, "trust")
          \/ /\ conn[c].pc = "trust" /\ peerState = "Pending" /\ peerState' = "Paired"
             /\ At(c, "paired") \/ At(c, "finish")
        BY <1>3 DEF PairPublish
    <2>3. CASE conn[c].pc = "prepare" /\ peerState = "Unpaired" /\ peerState' = "Pending" /\ At(c, "trust")
        BY <1>1, <1>2, <2>1, <2>3, MoveKeeps
    <2>4. CASE conn[c].pc = "trust" /\ peerState = "Pending" /\ peerState' = "Paired" /\ At(c, "paired")
        BY <1>1, <1>2, <2>1, <2>4, MoveKeeps
    <2>5. CASE conn[c].pc = "trust" /\ peerState = "Pending" /\ peerState' = "Paired" /\ At(c, "finish")
        BY <1>1, <1>2, <2>1, <2>5, MoveKeeps
    <2> QED BY <2>2, <2>3, <2>4, <2>5
<1>4. CASE PairFails(c)
    <2>1. /\ conn[c].pc \in PairPc /\ UNCHANGED threadOnly
          /\ UNCHANGED <<pstate, session, result, peerState, pairGen, stolen>>
        BY <1>4 DEF PairFails
    <2>2. CASE At(c, "finish") /\ UNCHANGED completed
        BY <1>1, <1>2, <2>1, <2>2, MoveKeeps
    <2>3. CASE Ends(c)
        BY <1>1, <1>2, <2>1, <2>3, EndKeeps
    <2> QED BY <1>4, <2>2, <2>3 DEF PairFails
<1>5. CASE PairFinish(c)
    <2>1. /\ conn[c].pc \in PairPc /\ UNCHANGED threadOnly /\ Ends(c)
          /\ UNCHANGED <<session, peerState, pairGen, stolen>>
        BY <1>2, <1>5 DEF PairFinish
    <2>2. pstate' \in PairingState
        BY <1>1, <1>5 DEF PairFinish, PairingState
    <2>3. result' \in [PairCommand -> {"none", "accepted", "waiting", "prompt"} \cup Terminal]
        <3>1. PICK a \in Terminal : Hears(conn[c].task, a)
            BY <1>5 DEF PairFinish, Outcome, Terminal
        <3> QED BY <1>1, <3>1, HearsAnAnswer
    <2> QED BY <1>1, <1>2, <2>1, <2>2, <2>3, EndKeeps
<1>6. CASE BusyReject(c)
    BY <1>1, <1>2, <1>6, EndKeeps DEF BusyReject
<1> QED BY <1>3, <1>4, <1>5, <1>6

\* A session is verified, admitted and over.
LEMMA ServeKeeps ==
    ASSUME HostInv, NEW c \in Conn, ServeVerify(c) \/ ServeAdmit(c) \/ ServeEnds(c)
    PROVE  HostInv'
<1>1. /\ pstate \in PairingState
      /\ session \in Conn \cup {NoCommand} /\ stolen \in BOOLEAN /\ conn \in [Conn -> Thread]
      /\ result \in [PairCommand -> {"none", "accepted", "waiting", "prompt"} \cup Terminal]
    BY DEF HostInv, LoopTypeOK
<1>2. /\ {"admit", "session"} \subseteq ConnPc \ {"ended"} /\ ServePc \cap Idling = {}
      /\ ServePc \cap PairPc = {} /\ {"verify", "admit", "session"} = ServePc
    BY DEF ConnPc, PairPc, ServePc, Idling
<1>3. CASE ServeVerify(c)
    <2>1. /\ conn[c].pc = "verify" /\ conn' = [conn EXCEPT ![c].pc = "admit", ![c].gen = pairGen]
          /\ UNCHANGED threadOnly
          /\ UNCHANGED <<pstate, completed, session, result, peerState, pairGen, stolen>>
        BY <1>3 DEF ServeVerify
    <2> DEFINE o == [conn[c] EXCEPT !.pc = "admit", !.gen = pairGen]
    <2>2. o \in Thread /\ o.pc = "admit"
        <3>1. conn[c] \in Thread /\ pairGen \in 0..UnpairMax /\ "admit" \in ConnPc
            BY <1>1, <1>2 DEF HostInv, EventsAreKnown
        <3> QED BY <3>1 DEF Thread
    <2>3. conn' = [conn EXCEPT ![c] = o]
        BY <2>1
    <2> HIDE DEF o
    <2>4. conn' \in [Conn -> Thread] /\ conn'[c].pc = "admit" /\ \A d \in Conn : d # c => conn'[d] = conn[d]
        BY <1>1, <2>2, <2>3
    <2>5. "admit" \notin PairPc /\ conn[c].pc \notin Idling
        BY <1>2, <2>1
    <2> QED BY <1>1, <2>1, <2>4, <2>5, ThreadKeeps
<1>4. CASE ServeAdmit(c)
    BY <1>1, <1>2, <1>4, MoveKeeps DEF ServeAdmit, StillPinned
<1>5. CASE ServeEnds(c)
    <2>1. /\ conn[c].pc \in ServePc /\ Ends(c) /\ UNCHANGED threadOnly
          /\ UNCHANGED <<pstate, result, peerState, pairGen, stolen>>
          /\ session' \in Conn \cup {NoCommand}
        BY <1>1, <1>5 DEF ServeEnds
    <2> QED BY <1>1, <1>2, <2>1, EndKeeps
<1> QED BY <1>3, <1>4, <1>5


\* An event is put into the loop's queue.
LEMMA Queued ==
    ASSUME NEW S, NEW q \in Seq(S), NEW e \in S
    PROVE  /\ Append(q, e) \in Seq(S) /\ Append(q, e) # <<>>
           /\ q # <<>> => Head(Append(q, e)) = Head(q)
           /\ \A i \in DOMAIN q : i \in DOMAIN Append(q, e) /\ Append(q, e)[i] = q[i]
           /\ \A i \in DOMAIN Append(q, e) : i \in DOMAIN q \/ Append(q, e)[i] = e
           /\ \E i \in DOMAIN Append(q, e) : Append(q, e)[i] = e
<1>1. /\ Append(q, e) \in Seq(S) /\ Len(Append(q, e)) = Len(q) + 1 /\ Len(q) \in Nat
      /\ DOMAIN q = 1..Len(q) /\ DOMAIN Append(q, e) = 1..(Len(q) + 1)
    OBVIOUS
<1>2. \A i \in 1..Len(q) : Append(q, e)[i] = q[i]
    OBVIOUS
<1>3. Append(q, e)[Len(q) + 1] = e
    OBVIOUS
<1>4. Append(q, e) # <<>>
    BY <1>1
<1>5. q # <<>> => Head(Append(q, e)) = Head(q)
    BY <1>1, <1>2
<1>6. \A i \in 1..(Len(q) + 1) : i \in 1..Len(q) \/ i = Len(q) + 1
    BY <1>1
<1>7. Len(q) + 1 \in 1..(Len(q) + 1) /\ 1..Len(q) \subseteq 1..(Len(q) + 1)
    BY <1>1
<1> QED BY <1>1, <1>2, <1>3, <1>4, <1>5, <1>6, <1>7

\* The loop takes the first event from its queue.
LEMMA Dequeued ==
    ASSUME NEW S, NEW q \in Seq(S), q # <<>>
    PROVE  /\ Tail(q) \in Seq(S) /\ 1 \in DOMAIN q /\ Head(q) = q[1] /\ Head(q) \in S
           /\ \A i \in DOMAIN Tail(q) : \E k \in DOMAIN q : Tail(q)[i] = q[k]
           /\ \A k \in DOMAIN q : q[k] = Head(q) \/ \E i \in DOMAIN Tail(q) : Tail(q)[i] = q[k]
<1>1. /\ Tail(q) \in Seq(S) /\ Len(q) \in Nat \ {0} /\ DOMAIN q = 1..Len(q) /\ Head(q) = q[1]
      /\ DOMAIN Tail(q) = 1..(Len(q) - 1)
    OBVIOUS
<1>2. \A i \in 1..(Len(q) - 1) : Tail(q)[i] = q[i + 1]
    OBVIOUS
<1>3. \A i \in 1..(Len(q) - 1) : i + 1 \in 1..Len(q)
    BY <1>1
<1>4. \A k \in 1..Len(q) : k = 1 \/ (k - 1 \in 1..(Len(q) - 1) /\ (k - 1) + 1 = k)
    BY <1>1
<1>5. 1 \in 1..Len(q)
    BY <1>1
<1>6. q[1] \in S
    BY <1>1, <1>5
<1> QED BY <1>1, <1>2, <1>3, <1>4, <1>5, <1>6

\* What an event in the queue has to be.
KnownEvent(e, g) ==
    /\ e \in OwnerEvent /\ e.gen <= g
    /\ e.type \in {"PairStart", "PairingWindowOpen"} => e.task \in PairCommand

\* The owner thread and the actor, in a step that revokes nothing: an event is
\* queued or not, an unpair ends or not, a revoked peer is forgotten or not.
LEMMA OwnerKeeps ==
    ASSUME HostInv, UNCHANGED ownerOnly, UNCHANGED <<pairGen, acked>>,
           \/ events' = events
           \/ \E e : KnownEvent(e, pairGen) /\ events' = Append(events, e),
           actor' \in {actor, "idle"},
           peerState' = peerState \/ (peerState' = "Unpaired" /\ peerState = "Revoking" /\ actor' = "idle"),
           owner' \in {"serving", "stopping", "waiting", "done"}, listing' \in BOOLEAN,
           result' \in [PairCommand -> {"none", "accepted", "waiting", "prompt"} \cup Terminal]
    PROVE  HostInv'
<1>1. UNCHANGED <<lpc, listening, window, active, pstate, kept, tasks, completed,
                  ackOwed, conn, session, cancelled, attempts, stolen>>
    BY DEF ownerOnly
<1>2. LoopTypeOK'
    <2>1. actor' \in {"idle", "await"} /\ peerState' \in {"Unpaired", "Pending", "Paired", "Revoking"}
        BY DEF HostInv, LoopTypeOK
    <2> QED BY <1>1, <2>1 DEF HostInv, LoopTypeOK
<1>3. /\ EventsAreKnown'
      /\ (\E i \in DOMAIN events : events[i].type = "revoked") =>
             \E i \in DOMAIN events' : events'[i].type = "revoked"
    <2>1. CASE events' = events
        BY <1>1, <2>1 DEF HostInv, EventsAreKnown
    <2>2. CASE \E e : KnownEvent(e, pairGen) /\ events' = Append(events, e)
        <3>1. PICK e : KnownEvent(e, pairGen) /\ events' = Append(events, e)
            BY <2>2
        <3>2. events \in Seq(OwnerEvent) /\ e \in OwnerEvent
            BY <3>1 DEF HostInv, EventsAreKnown, KnownEvent
        <3>3. /\ events' \in Seq(OwnerEvent) /\ events' # <<>>
              /\ events # <<>> => Head(events') = Head(events)
              /\ \A i \in DOMAIN events : i \in DOMAIN events' /\ events'[i] = events[i]
              /\ \A i \in DOMAIN events' : i \in DOMAIN events \/ events'[i] = e
            BY <3>1, <3>2, Queued
        <3>4. \A i \in DOMAIN events' :
                 /\ events'[i].gen <= pairGen
                 /\ events'[i].type \in {"PairStart", "PairingWindowOpen"} => events'[i].task \in PairCommand
            BY <3>1, <3>3 DEF HostInv, EventsAreKnown, KnownEvent
        <3>5. lpc = "peer" => events' # <<>> /\ Head(events').type = "PairingWindowOpen"
            BY <3>3 DEF HostInv, EventsAreKnown
        <3>6. EventsAreKnown'
            BY <1>1, <3>3, <3>4, <3>5 DEF HostInv, EventsAreKnown
        <3> QED BY <3>3, <3>6
    <2> QED BY <2>1, <2>2
<1>4. AcksAreKnown' /\ ThreadsAreKept'
    BY <1>1 DEF HostInv, AcksAreKnown, ThreadsAreKept
<1>5. UnpairIsAlone'
    <2>1. AckOf("revoked")' = AckOf("revoked")
        BY DEF AckOf
    <2> QED BY <1>1, <2>1 DEF HostInv, UnpairIsAlone
<1>6. RevokedIsShut'
    BY <1>1, <1>3 DEF HostInv, RevokedIsShut, LoopEnded
<1> QED BY <1>2, <1>3, <1>4, <1>5, <1>6 DEF HostInv

\* The owner's commands and the ends of its waits.
LEMMA OwnerStepsKeep ==
    ASSUME HostInv,
           \/ OwnerStep \/ OwnerLists \/ UnpairRecovers \/ OwnerStops
           \/ \E p \in PairCommand : \/ WindowExpires(p)
                                     \/ \E type \in {"PairingWindowOpen", "PairStart"} : OwnerOpens(p, type)
    PROVE  HostInv'
<1>1. /\ owner \in {"serving", "stopping", "waiting", "done"} /\ listing \in BOOLEAN
      /\ result \in [PairCommand -> {"none", "accepted", "waiting", "prompt"} \cup Terminal]
      /\ actor \in {"idle", "await"} /\ pairGen \in 0..UnpairMax
    BY DEF HostInv, LoopTypeOK, EventsAreKnown
<1>2. 0 \in 0..UnpairMax /\ 0 <= pairGen
    BY <1>1, UnpairAssumption
<1>3. \A type \in {"shutdown", "PairStart", "PairingWindowOpen"} : \A p \in PairCommand \cup {NoCommand} :
          (type # "shutdown" => p \in PairCommand) => KnownEvent(Event(type, p), pairGen)
    BY <1>2 DEF KnownEvent, Event, OwnerEvent
<1>4. CASE OwnerListed \/ OwnerLists
    BY <1>1, <1>4, OwnerKeeps DEF OwnerListed, OwnerLists
<1>5. CASE UnpairJoined
    <2>1. peerState = "Revoking"
        BY <1>5 DEF HostInv, UnpairIsAlone, UnpairJoined
    <2> QED BY <1>1, <1>5, <2>1, OwnerKeeps DEF UnpairJoined
<1>6. CASE UnpairTimesOut
    BY <1>1, <1>6, OwnerKeeps DEF UnpairTimesOut
<1>7. CASE UnpairRecovers
    BY <1>1, <1>7, OwnerKeeps DEF UnpairRecovers
<1>8. CASE OwnerStops
    BY <1>1, <1>8, OwnerKeeps DEF OwnerStops
<1>9. CASE OwnerTellsLoop
    <2>1. /\ UNCHANGED ownerOnly /\ UNCHANGED <<result, expired, listing, actor, acked, peerState, pairGen>>
          /\ owner' \in {"done", "waiting"}
          /\ events' = events \/ events' = Append(events, Event("shutdown", NoCommand))
        BY <1>9 DEF OwnerTellsLoop
    <2>2. KnownEvent(Event("shutdown", NoCommand), pairGen)
        BY <1>3
    <2> QED BY <1>1, <2>1, <2>2, OwnerKeeps
<1>10. CASE OwnerJoined
    BY <1>1, <1>10, OwnerKeeps DEF OwnerJoined
<1>11. CASE \E p \in PairCommand : WindowExpires(p)
    BY <1>1, <1>11, OwnerKeeps DEF WindowExpires
<1>12. CASE \E p \in PairCommand : \E type \in {"PairingWindowOpen", "PairStart"} : OwnerOpens(p, type)
    <2>1. PICK p \in PairCommand, type \in {"PairingWindowOpen", "PairStart"} : OwnerOpens(p, type)
        BY <1>12
    <2>2. /\ UNCHANGED ownerOnly /\ UNCHANGED <<expired, owner, listing, actor, acked, peerState, pairGen>>
          /\ events' = events \/ events' = Append(events, Event(type, p))
          /\ Hears(p, "failed") \/ Hears(p, "accepted")
        BY <2>1 DEF OwnerOpens
    <2>3. KnownEvent(Event(type, p), pairGen)
        BY <1>3
    <2>4. result' \in [PairCommand -> {"none", "accepted", "waiting", "prompt"} \cup Terminal]
        BY <1>1, <2>2, HearsAnAnswer DEF Terminal
    <2> QED BY <1>1, <2>2, <2>3, <2>4, OwnerKeeps
<1> QED BY <1>4, <1>5, <1>6, <1>7, <1>8, <1>9, <1>10, <1>11, <1>12 DEF OwnerStep

\* The actor revokes: no acknowledgement is of the new generation yet, and every
\* session is about to be shut down.
LEMMA RevokeKeeps ==
    ASSUME HostInv, UnpairRevokes
    PROVE  HostInv'
<1>1. /\ UNCHANGED <<lpc, listening, window, active, pstate, kept, tasks, completed,
                     ackOwed, conn, session, cancelled, attempts, stolen>>
      /\ UNCHANGED <<result, expired, owner, listing, acked>>
      /\ peerState' = "Revoking" /\ pairGen' = pairGen + 1 /\ actor' = "await" /\ pairGen < UnpairMax
    BY DEF UnpairRevokes, ownerOnly
<1>2. pairGen \in Nat /\ pairGen + 1 \in 0..UnpairMax /\ pairGen \in 0..UnpairMax
    BY <1>1, UnpairAssumption DEF HostInv, EventsAreKnown
<1>3. LoopTypeOK'
    BY <1>1 DEF HostInv, LoopTypeOK
<1>4. /\ EventsAreKnown'
      /\ LoopEnded \/ \E i \in DOMAIN events' : events'[i].type = "revoked"
    <2>1. \A i \in DOMAIN events : events[i].gen <= pairGen + 1 /\ events[i] \in OwnerEvent
        <3>1. \A i \in DOMAIN events : events[i] \in OwnerEvent /\ events[i].gen <= pairGen
            BY DEF HostInv, EventsAreKnown
        <3>2. \A i \in DOMAIN events : events[i].gen \in Nat
            BY <3>1, UnpairAssumption DEF OwnerEvent
        <3> QED BY <1>2, <3>1, <3>2
    <2>2. CASE LoopEnded
        <3>1. events' = events
            BY <2>2 DEF UnpairRevokes
        <3> QED BY <1>1, <1>2, <2>1, <2>2, <3>1 DEF HostInv, EventsAreKnown
    <2>3. CASE ~LoopEnded
        <3> DEFINE e == [Event("revoked", NoCommand) EXCEPT !.gen = pairGen + 1]
        <3>1. events' = Append(events, e)
            BY <1>1, <2>3 DEF UnpairRevokes
        <3>2. e \in OwnerEvent /\ e.type = "revoked" /\ e.gen = pairGen + 1
            BY <1>2 DEF Event, OwnerEvent
        <3> HIDE DEF e
        <3>3. /\ events' \in Seq(OwnerEvent) /\ events' # <<>>
              /\ events # <<>> => Head(events') = Head(events)
              /\ \A i \in DOMAIN events : i \in DOMAIN events' /\ events'[i] = events[i]
              /\ \A i \in DOMAIN events' : i \in DOMAIN events \/ events'[i] = e
              /\ \E i \in DOMAIN events' : events'[i] = e
            BY <3>1, <3>2, Queued DEF HostInv, EventsAreKnown
        <3>4. \A i \in DOMAIN events' :
                 /\ events'[i].gen <= pairGen + 1
                 /\ events'[i].type \in {"PairStart", "PairingWindowOpen"} => events'[i].task \in PairCommand
            BY <1>2, <2>1, <3>2, <3>3 DEF HostInv, EventsAreKnown
        <3>5. lpc = "peer" => events' # <<>> /\ Head(events').type = "PairingWindowOpen"
            BY <3>3 DEF HostInv, EventsAreKnown
        <3> QED BY <1>1, <1>2, <3>2, <3>3, <3>4, <3>5 DEF EventsAreKnown
    <2> QED BY <2>2, <2>3
<1>5. \A a \in ackOwed \cup acked : a.gen \in Nat /\ a.gen <= pairGen
    BY UnpairAssumption DEF HostInv, AcksAreKnown, LoopTypeOK, Ack
<1>6. AcksAreKnown' /\ ThreadsAreKept'
    <2>1. \A a \in ackOwed \cup acked : a.gen <= pairGen + 1
        BY <1>2, <1>5
    <2> QED BY <1>1, <2>1 DEF HostInv, AcksAreKnown, ThreadsAreKept
<1>7. UnpairIsAlone'
    <2>1. AckOf("revoked")'.gen = pairGen + 1
        BY <1>1 DEF AckOf
    <2>2. AckOf("revoked")' \notin acked
        BY <1>2, <1>5, <2>1
    <2> QED BY <1>1, <2>2 DEF UnpairIsAlone
<1>8. RevokedIsShut'
    BY <1>1, <1>4 DEF RevokedIsShut, LoopEnded
<1> QED BY <1>3, <1>4, <1>6, <1>7, <1>8 DEF HostInv


\* The loop moves on, and settles who has the window, without touching threads,
\* events or acknowledgements.
LEMMA LoopMoves ==
    ASSUME HostInv, ~LoopEnded, UNCHANGED <<events, kept, tasks, completed, ackOwed, conn, session, actor,
                                            acked, peerState, pairGen, stolen, listening, listing>>,
           lpc' \in {"join", "events", "ack", "accept", "signal", "error", "exit"},
           {window', active'} \subseteq PairCommand \cup {NoCommand},
           pstate' \in PairingState,
           owner' \in {"serving", "stopping", "waiting", "done"},
           result' \in [PairCommand -> {"none", "accepted", "waiting", "prompt"} \cup Terminal]
    PROVE  HostInv'
<1>1. LoopTypeOK'
    BY DEF HostInv, LoopTypeOK
<1>2. EventsAreKnown' /\ AcksAreKnown' /\ ThreadsAreKept'
    BY DEF HostInv, EventsAreKnown, AcksAreKnown, ThreadsAreKept
<1>3. UnpairIsAlone'
    BY DEF HostInv, UnpairIsAlone, AckOf
<1>4. RevokedIsShut'
    BY DEF HostInv, RevokedIsShut
<1> QED BY <1>1, <1>2, <1>3, <1>4 DEF HostInv

\* The steps of the loop that only move it, and the one that settles the window.
LEMMA LoopMovesKeep ==
    ASSUME HostInv, LoopFails \/ LoopSettles \/ LoopSignal \/ LoopSignalled \/ LoopIdle
    PROVE  HostInv'
<1>1. /\ {window, active} \subseteq PairCommand \cup {NoCommand}
      /\ pstate \in PairingState
      /\ owner \in {"serving", "stopping", "waiting", "done"}
      /\ result \in [PairCommand -> {"none", "accepted", "waiting", "prompt"} \cup Terminal]
    BY DEF HostInv, LoopTypeOK
<1>2. CASE LoopFails
    BY <1>1, <1>2, LoopMoves DEF LoopFails, LoopEnded
<1>3. CASE LoopSignal
    BY <1>1, <1>3, LoopMoves DEF LoopSignal, LoopEnded
<1>4. CASE LoopSignalled
    BY <1>1, <1>4, LoopMoves DEF LoopSignalled, LoopEnded
<1>5. CASE LoopIdle
    BY <1>1, <1>5, LoopMoves DEF LoopIdle, LoopEnded
<1>6. CASE LoopSettles
    <2> DEFINE transfers == pstate.waiting /\ active = NoCommand
               moved == [pstate EXCEPT !.waiting = @ /\ ~transfers]
               state == IF moved.finished THEN NoReservation ELSE moved
               over == ~transfers /\ ~state.consumed /\ window \in expired
    <2>1. /\ window' = IF transfers \/ over THEN NoCommand ELSE window
          /\ active' = IF state.consumed THEN IF transfers THEN window ELSE active ELSE NoCommand
          /\ pstate' = state /\ IF over THEN Hears(window, "failed") ELSE UNCHANGED result
          /\ lpc' = "ack" /\ lpc = "events"
          /\ UNCHANGED <<events, listening, kept, tasks, completed, ackOwed,
                         conn, session, expired, cancelled, owner, listing, actor,
                         acked, peerState, pairGen, attempts, stolen>>
        BY <1>6 DEF LoopSettles
    <2>2. transfers \in BOOLEAN
        OBVIOUS
    <2> HIDE DEF transfers
    <2>3. moved \in PairingState
        <3>1. (pstate.waiting /\ ~transfers) \in BOOLEAN
            OBVIOUS
        <3>2. moved = [pstate EXCEPT !.waiting = (pstate.waiting /\ ~transfers)]
            OBVIOUS
        <3> HIDE DEF moved
        <3>3. PICK v \in BOOLEAN : moved = [pstate EXCEPT !.waiting = v]
            BY <3>1, <3>2, Zenon
        <3> QED BY <1>1, <3>3 DEF PairingState
    <2>4. NoReservation \in PairingState
        BY DEF NoReservation, PairingState
    <2>5. pstate' \in PairingState
        BY <2>1, <2>3, <2>4
    <2> HIDE DEF moved, state, over
    <2>6. {window', active'} \subseteq PairCommand \cup {NoCommand}
        BY <1>1, <2>1
    <2>7. result' \in [PairCommand -> {"none", "accepted", "waiting", "prompt"} \cup Terminal]
        <3>1. "failed" \in Terminal
            BY DEF Terminal
        <3> QED BY <1>1, <2>1, <3>1, HearsAnAnswer
    <2>8. ~LoopEnded
        BY <2>1 DEF LoopEnded
    <2> QED BY <1>1, <2>1, <2>5, <2>6, <2>7, <2>8, LoopMoves
<1> QED BY <1>2, <1>3, <1>4, <1>5, <1>6

\* Threads that have returned are joined, and their streams dropped.
LEMMA JoinKeeps ==
    ASSUME HostInv, LoopJoin
    PROVE  HostInv'
<1>1. /\ lpc = "join" /\ lpc' = "events" /\ kept' = kept \ completed /\ completed' = {} /\ tasks' \subseteq tasks
      /\ UNCHANGED <<events, listening, window, active, pstate, ackOwed, conn, session, result, owner,
                     listing, actor, acked, peerState, pairGen, stolen>>
    BY DEF LoopJoin
<1>2. LoopTypeOK'
    BY <1>1 DEF HostInv, LoopTypeOK
<1>3. EventsAreKnown' /\ AcksAreKnown'
    BY <1>1 DEF HostInv, EventsAreKnown, AcksAreKnown
<1>4. ThreadsAreKept'
    BY <1>1 DEF HostInv, ThreadsAreKept, Idling
<1>5. UnpairIsAlone' /\ RevokedIsShut'
    BY <1>1 DEF HostInv, UnpairIsAlone, RevokedIsShut, AckOf, LoopEnded
<1> QED BY <1>2, <1>3, <1>4, <1>5 DEF HostInv

\* An acknowledgement goes out only when the loop keeps no connection.
LEMMA AcknowledgeKeeps ==
    ASSUME HostInv, LoopAcknowledges
    PROVE  HostInv'
<1>1. /\ lpc = "ack" /\ lpc' \in {"exit", "accept", "join"} /\ ackOwed' = ackOwed \ Due /\ acked' = acked \cup Due
      /\ UNCHANGED <<events, listening, window, active, pstate, kept, tasks, completed, conn, session, result,
                     owner, listing, actor, peerState, pairGen, stolen>>
    BY DEF LoopAcknowledges
<1>2. Due \subseteq ackOwed /\ (Due # {} => kept = {})
    BY DEF Due
<1>3. LoopTypeOK'
    BY <1>1, <1>2 DEF HostInv, LoopTypeOK
<1>4. EventsAreKnown' /\ AcksAreKnown' /\ ThreadsAreKept'
    BY <1>1, <1>2 DEF HostInv, EventsAreKnown, AcksAreKnown, ThreadsAreKept
<1>5. Due # {} => \A c \in Conn : conn[c].pc # "session"
    BY <1>2 DEF HostInv, ThreadsAreKept, Idling
<1>6. UnpairIsAlone'
    BY <1>1, <1>5 DEF HostInv, UnpairIsAlone, AckOf
<1>7. RevokedIsShut'
    BY <1>1 DEF HostInv, RevokedIsShut, LoopEnded
<1> QED BY <1>3, <1>4, <1>6, <1>7 DEF HostInv

\* A connection is accepted, or dropped for want of a permit.
LEMMA AcceptedKeeps ==
    ASSUME HostInv, NEW c \in Conn, LoopAccept(c)
    PROVE  HostInv'
<1>1. /\ lpc = "accept" /\ lpc' = "join" /\ conn[c].pc = "backlog"
      /\ UNCHANGED <<events, listening, window, active, pstate, completed, ackOwed, session, result,
                     owner, listing, actor, acked, peerState, pairGen, stolen>>
    BY DEF LoopAccept
<1>2. /\ conn' \in [Conn -> Thread] /\ \A d \in Conn : d # c => conn'[d] = conn[d]
      /\ kept \subseteq kept' /\ kept' \subseteq Conn /\ tasks' \subseteq Conn
      /\ conn'[c].pc \in {"ended", "check", "busy", "verify"}
      /\ conn'[c].pc # "ended" => c \in kept'
      /\ conn'[c].pc = "check" => conn'[c].task \in PairCommand
    <2>1. conn \in [Conn -> Thread] /\ kept \subseteq Conn /\ tasks \subseteq Conn
          /\ window \in PairCommand \cup {NoCommand}
        BY DEF HostInv, LoopTypeOK
    <2>2. CASE ~PermitLeft
        <3>1. conn' = [conn EXCEPT ![c].pc = "ended", ![c].open = FALSE] /\ UNCHANGED <<kept, tasks>>
            BY <2>2 DEF LoopAccept
        <3> QED BY <2>1, <3>1, ThreadEnds
    <2>3. CASE PermitLeft
        <3> DEFINE at == IF window # NoCommand THEN "check" ELSE IF pstate.consumed THEN "busy" ELSE "verify"
                   o == [conn[c] EXCEPT !.pc = at, !.task = window]
        <3>1. /\ conn' = [conn EXCEPT ![c].pc = at, ![c].task = window]
              /\ kept' = kept \cup {c} /\ tasks' = tasks \cup {c}
            BY <2>3 DEF LoopAccept
        <3>2. at \in {"check", "busy", "verify"} /\ (at = "check" => window # NoCommand)
            OBVIOUS
        <3>3. at \in ConnPc
            BY <3>2 DEF ConnPc, PairPc, ServePc
        <3> HIDE DEF at
        <3>4. o \in Thread /\ o.pc = at /\ o.task = window
            <4>1. conn[c] \in Thread
                BY <2>1
            <4> QED BY <2>1, <3>3, <4>1 DEF Thread
        <3>5. conn' = [conn EXCEPT ![c] = o]
            BY <3>1
        <3> HIDE DEF o
        <3>6. conn' \in [Conn -> Thread] /\ conn'[c] = o /\ \A d \in Conn : d # c => conn'[d] = conn[d]
            BY <2>1, <3>4, <3>5
        <3> QED BY <2>1, <3>1, <3>2, <3>4, <3>6
    <2> QED BY <2>2, <2>3
<1>3. LoopTypeOK'
    BY <1>1, <1>2 DEF HostInv, LoopTypeOK
<1>4. EventsAreKnown' /\ AcksAreKnown'
    BY <1>1 DEF HostInv, EventsAreKnown, AcksAreKnown
<1>5. ThreadsAreKept'
    <2>1. c \notin completed /\ completed \subseteq Conn
        BY <1>1 DEF HostInv, ThreadsAreKept, LoopTypeOK
    <2>2. "ended" \in Idling /\ {"ended", "busy", "verify"} \cap PairPc = {}
        BY DEF Idling, PairPc
    <2> QED BY <1>1, <1>2, <2>1, <2>2 DEF HostInv, ThreadsAreKept
<1>6. UnpairIsAlone' /\ RevokedIsShut'
    BY <1>1, <1>2 DEF HostInv, UnpairIsAlone, RevokedIsShut, AckOf, LoopEnded
<1> QED BY <1>3, <1>4, <1>5, <1>6 DEF HostInv

\* The next event leaves the queue, and it was not a revocation.
LEMMA TakenKeepsEvents ==
    ASSUME HostInv, ~LoopEnded, events # <<>>, events' = Tail(events), UNCHANGED pairGen, lpc' # "peer"
    PROVE  /\ EventsAreKnown' /\ Head(events) \in OwnerEvent /\ Head(events).gen <= pairGen
           /\ Head(events).type \in {"PairStart", "PairingWindowOpen"} => Head(events).task \in PairCommand
           /\ (Head(events).type # "revoked" /\ \E i \in DOMAIN events : events[i].type = "revoked") =>
                  \E i \in DOMAIN events' : events'[i].type = "revoked"
<1>1. events \in Seq(OwnerEvent)
    BY DEF HostInv, EventsAreKnown
<1>2. /\ Tail(events) \in Seq(OwnerEvent) /\ 1 \in DOMAIN events
      /\ Head(events) = events[1] /\ Head(events) \in OwnerEvent
      /\ \A i \in DOMAIN Tail(events) : \E k \in DOMAIN events : Tail(events)[i] = events[k]
      /\ \A k \in DOMAIN events : events[k] = Head(events)
                                  \/ \E i \in DOMAIN Tail(events) : Tail(events)[i] = events[k]
    BY <1>1, Dequeued
<1>3. EventsAreKnown'
    BY <1>2 DEF HostInv, EventsAreKnown
<1> QED BY <1>2, <1>3 DEF HostInv, EventsAreKnown

\* A window is opened or refused.
LEMMA OpenKeeps ==
    ASSUME HostInv, ~LoopEnded, events # <<>>, events' = Tail(events), NEW free,
           Head(events).type \in {"PairStart", "PairingWindowOpen"}, OpenWindow(Head(events).task, free),
           UNCHANGED <<kept, tasks, completed, session, expired, owner, listing,
                       actor, acked, peerState, pairGen, attempts, stolen>>
    PROVE  HostInv'
<1>1. PICK p : p = Head(events).task
    OBVIOUS
<1>2. /\ lpc' = "events" /\ UNCHANGED <<active, cancelled, conn, ackOwed, listening>>
      /\ \/ pstate' = NoReservation /\ window' = p /\ Hears(p, "waiting")
         \/ Hears(p, "failed") /\ UNCHANGED <<pstate, window>>
    BY <1>1 DEF OpenWindow
<1>3. /\ EventsAreKnown' /\ p \in PairCommand
      /\ (\E i \in DOMAIN events : events[i].type = "revoked") =>
             \E i \in DOMAIN events' : events'[i].type = "revoked"
    BY <1>1, <1>2, TakenKeepsEvents
<1>4. LoopTypeOK'
    <2>1. result' \in [PairCommand -> {"none", "accepted", "waiting", "prompt"} \cup Terminal]
        BY <1>2, HearsAnAnswer DEF HostInv, LoopTypeOK, Terminal
    <2>2. pstate' \in PairingState
        <3>1. NoReservation \in PairingState
            BY DEF NoReservation, PairingState
        <3> QED BY <1>2, <3>1 DEF HostInv, LoopTypeOK
    <2>3. {window', active'} \subseteq PairCommand \cup {NoCommand}
        BY <1>2, <1>3 DEF HostInv, LoopTypeOK
    <2> QED BY <1>2, <2>1, <2>2, <2>3 DEF HostInv, LoopTypeOK
<1>5. AcksAreKnown' /\ ThreadsAreKept'
    BY <1>2 DEF HostInv, AcksAreKnown, ThreadsAreKept
<1>6. UnpairIsAlone'
    BY <1>2 DEF HostInv, UnpairIsAlone, AckOf
<1>7. RevokedIsShut'
    BY <1>2, <1>3 DEF HostInv, RevokedIsShut
<1> QED BY <1>3, <1>4, <1>5, <1>6, <1>7 DEF HostInv

\* A revocation or the shutdown: every connection the loop keeps is shut down.
LEMMA EndEventKeeps ==
    ASSUME HostInv, ~LoopEnded, events # <<>>, events' = Tail(events),
           Head(events).type \in {"revoked", "shutdown"}, LoopEnds(Head(events)), lpc = "events",
           UNCHANGED <<kept, tasks, completed, session, expired, owner, listing,
                       actor, acked, peerState, pairGen, attempts, stolen>>
    PROVE  HostInv'
<1>1. PICK e : e = Head(events)
    OBVIOUS
<1>2. /\ ShutDown /\ UNCHANGED <<lpc, window, pstate, active, result>>
      /\ ackOwed' = {a \in ackOwed : a.type # e.type} \cup {[type |-> e.type, gen |-> e.gen]}
      /\ listening' \in BOOLEAN
    BY <1>1 DEF LoopEnds
<1>3. EventsAreKnown' /\ e \in OwnerEvent /\ e.gen <= pairGen
    BY <1>1, <1>2, TakenKeepsEvents
<1>4. /\ conn' \in [Conn -> Thread]
      /\ \A c \in Conn : /\ conn'[c].pc = conn[c].pc /\ conn'[c].task = conn[c].task
                         /\ c \in kept => ~conn'[c].open
    <2>1. conn \in [Conn -> Thread]
        BY DEF HostInv, LoopTypeOK
    <2>2. \A c \in Conn : /\ [conn[c] EXCEPT !.open = FALSE] \in Thread
                          /\ [conn[c] EXCEPT !.open = FALSE].pc = conn[c].pc
                          /\ [conn[c] EXCEPT !.open = FALSE].task = conn[c].task
                          /\ ~[conn[c] EXCEPT !.open = FALSE].open
        BY <2>1 DEF Thread
    <2>3. \A c \in Conn : conn'[c] = IF c \in kept THEN [conn[c] EXCEPT !.open = FALSE] ELSE conn[c]
        BY <1>2 DEF ShutDown
    <2>4. \A c \in Conn : conn'[c] \in Thread
        BY <2>1, <2>2, <2>3
    <2>5. conn' = [c \in Conn |-> conn'[c]]
        BY <1>2 DEF ShutDown
    <2>6. conn' \in [Conn -> Thread]
        BY <2>4, <2>5
    <2> QED BY <2>2, <2>3, <2>6
<1>5. ackOwed' \subseteq Ack /\ \A a \in ackOwed' : a.gen <= pairGen
    <2>1. [type |-> e.type, gen |-> e.gen] \in Ack
        BY <1>1, <1>3 DEF OwnerEvent, Ack
    <2>2. ackOwed \subseteq Ack /\ \A a \in ackOwed : a.gen <= pairGen
        BY DEF HostInv, LoopTypeOK, AcksAreKnown
    <2> QED BY <1>2, <1>3, <2>1, <2>2
<1>6. LoopTypeOK'
    BY <1>2, <1>4, <1>5 DEF HostInv, LoopTypeOK
<1>7. AcksAreKnown'
    BY <1>5 DEF HostInv, AcksAreKnown
<1>8. ThreadsAreKept'
    BY <1>4 DEF HostInv, ThreadsAreKept, LoopTypeOK
<1>9. UnpairIsAlone'
    BY <1>4 DEF HostInv, UnpairIsAlone, AckOf
<1>10. RevokedIsShut'
    <2>1. \A c \in Conn : conn'[c].pc = "session" => c \in kept
        BY <1>4 DEF HostInv, ThreadsAreKept, Idling
    <2> QED BY <1>4, <2>1 DEF RevokedIsShut
<1> QED BY <1>3, <1>6, <1>7, <1>8, <1>9, <1>10 DEF HostInv

\* The loop takes in an event.
LEMMA EventsKeep ==
    ASSUME HostInv, LoopEvent \/ LoopReadsPeer
    PROVE  HostInv'
<1>1. CASE LoopReadsPeer
    <2>1. /\ lpc = "peer" /\ OpenWindow(Head(events).task, peerState = "Unpaired") /\ events' = Tail(events)
          /\ UNCHANGED <<kept, tasks, completed, session, expired, owner, listing,
                         actor, acked, peerState, pairGen, attempts, stolen>>
        BY <1>1 DEF LoopReadsPeer
    <2>2. events # <<>> /\ Head(events).type = "PairingWindowOpen" /\ ~LoopEnded
        BY <2>1 DEF HostInv, EventsAreKnown, LoopEnded
    <2> QED BY <2>1, <2>2, OpenKeeps
<1>2. CASE LoopEvent
    <2>1. /\ lpc = "events" /\ events # <<>>
          /\ events' = IF lpc' = "peer" THEN events ELSE Tail(events)
          /\ UNCHANGED <<kept, tasks, completed, session, expired, owner, listing,
                         actor, acked, peerState, pairGen, attempts, stolen>>
        BY <1>2 DEF LoopEvent
    <2>2. ~LoopEnded
        BY <2>1 DEF LoopEnded
    <2>3. CASE Head(events).type \in {"revoked", "shutdown"} /\ LoopEnds(Head(events))
        <3>1. events' = Tail(events)
            BY <2>1, <2>3 DEF LoopEnds
        <3> QED BY <2>1, <2>2, <2>3, <3>1, EndEventKeeps
    <2>4. CASE Head(events).type \in {"PairStart", "PairingWindowOpen"} /\ OpenWindow(Head(events).task, FALSE)
        <3>1. events' = Tail(events)
            BY <2>1, <2>4 DEF OpenWindow
        <3>2. PICK free : free = FALSE /\ OpenWindow(Head(events).task, free)
            BY <2>4
        <3> QED BY <2>1, <2>2, <2>4, <3>1, <3>2, OpenKeeps
    <2>5. CASE /\ Head(events).type = "PairingWindowOpen" /\ lpc' = "peer"
               /\ UNCHANGED <<window, active, pstate, cancelled, conn, ackOwed, listening, result>>
        <3>1. events' = events
            BY <2>1, <2>5
        <3>2. LoopTypeOK'
            BY <2>1, <2>5 DEF HostInv, LoopTypeOK
        <3>3. EventsAreKnown' /\ AcksAreKnown' /\ ThreadsAreKept'
            BY <2>1, <2>5, <3>1 DEF HostInv, EventsAreKnown, AcksAreKnown, ThreadsAreKept
        <3>4. UnpairIsAlone' /\ RevokedIsShut'
            BY <2>1, <2>2, <2>5, <3>1 DEF HostInv, UnpairIsAlone, RevokedIsShut, AckOf
        <3> QED BY <3>2, <3>3, <3>4 DEF HostInv
    <2> QED BY <1>2, <2>3, <2>4, <2>5 DEF LoopEvent
<1> QED BY <1>1, <1>2

\* A host that has just started.
LEMMA HostStarts ==
    ASSUME LoopInit
    PROVE  HostInv
<1>1. conn \in [Conn -> Thread] /\ \A c \in Conn : conn[c].pc = "away"
    <2>1. [pc |-> "away", task |-> NoCommand, open |-> TRUE, gen |-> 0] \in Thread
        BY UnpairAssumption DEF Thread, ConnPc
    <2> QED BY <2>1 DEF LoopInit
<1>2. LoopTypeOK
    <2>1. pstate \in PairingState
        BY DEF LoopInit, NoReservation, PairingState
    <2>2. result \in [PairCommand -> {"none", "accepted", "waiting", "prompt"} \cup Terminal]
        BY DEF LoopInit
    <2> QED BY <1>1, <2>1, <2>2 DEF LoopInit, LoopTypeOK
<1>3. EventsAreKnown /\ AcksAreKnown
    BY UnpairAssumption DEF LoopInit, EventsAreKnown, AcksAreKnown
<1>4. ThreadsAreKept
    <2>1. "away" \in Idling /\ "away" \notin PairPc
        BY DEF Idling, PairPc
    <2> QED BY <1>1, <2>1 DEF LoopInit, ThreadsAreKept
<1>5. UnpairIsAlone /\ RevokedIsShut
    BY <1>1 DEF LoopInit, UnpairIsAlone, RevokedIsShut
<1> QED BY <1>2, <1>3, <1>4, <1>5 DEF HostInv

\* Whatever the loop, its threads, the owner and the actor do in between: the loop
\* can shut down every thread that has not returned, its queue and its
\* acknowledgements are of generations that were opened, and a session that
\* outlived its pairing is shut or about to be.
THEOREM HostInvariance == LoopSpec => []HostInv
<1>1. LoopInit => HostInv
    BY HostStarts
<1>2. HostInv /\ [LoopNext]_loopVars => HostInv'
    <2> SUFFICES ASSUME HostInv, [LoopNext]_loopVars PROVE HostInv'
        OBVIOUS
    <2>1. CASE LoopStep \/ LoopSignal
        BY <2>1, JoinKeeps, EventsKeep, LoopMovesKeep, AcknowledgeKeeps, AcceptedKeeps DEF LoopStep
    <2>2. CASE \E c \in Conn : Connect(c) \/ ThreadStep(c)
        BY <2>2, PairStepsKeep, PairEndsKeep, ServeKeeps DEF ThreadStep
    <2>3. CASE \/ OwnerStep \/ OwnerLists \/ UnpairRecovers \/ OwnerStops
               \/ \E p \in PairCommand : \/ WindowExpires(p)
                     \/ \E type \in {"PairingWindowOpen", "PairStart"} : OwnerOpens(p, type)
        BY <2>3, OwnerStepsKeep
    <2>4. CASE UnpairRevokes
        BY <2>4, RevokeKeeps
    <2>5. CASE UNCHANGED loopVars
        <3>1. UNCHANGED <<lpc, events, listening, window, active, pstate, kept, tasks, completed, ackOwed, conn,
                          session, result, expired, cancelled, owner, listing, actor, acked, peerState,
                          pairGen, attempts, stolen>>
            BY <2>5 DEF loopVars
        <3>2. LoopTypeOK' /\ EventsAreKnown' /\ AcksAreKnown' /\ ThreadsAreKept'
            BY <3>1 DEF HostInv, LoopTypeOK, EventsAreKnown, AcksAreKnown, ThreadsAreKept
        <3>3. UnpairIsAlone' /\ RevokedIsShut'
            BY <3>1 DEF HostInv, UnpairIsAlone, RevokedIsShut, AckOf, LoopEnded
        <3> QED BY <3>2, <3>3 DEF HostInv
    <2> QED BY <2>1, <2>2, <2>3, <2>4, <2>5 DEF LoopNext
<1> QED BY <1>1, <1>2, PTL DEF LoopSpec

\* For any number of connections, windows and unpairs: a session of a revoked
\* pairing is shut, or its revocation is on its way to a loop that still runs.
THEOREM RevocationReachesSessions == LoopSpec => []LoopInv
<1>1. HostInv => LoopInv
    BY DEF HostInv, LoopInv
<1> QED BY <1>1, HostInvariance, PTL

\* When unpair is told that its sessions are joined, no session is left: the
\* acknowledgement never overtakes a connection thread.
THEOREM UnpairIsJoined == LoopSpec => UnpairLeavesNoSession
<1>1. HostInv => [UnpairJoined => \A c \in Conn : conn[c].pc # "session"]_loopVars
    BY DEF HostInv, UnpairIsAlone, UnpairJoined
<1> QED BY <1>1, HostInvariance, PTL DEF UnpairLeavesNoSession

-----------------------------------------------------------------------------
(* A session: its reader, its writer and an unpair beside them.            *)

\* What the variables range over: a result and the frames without a request.
ResultFrame == [type : {"Result"}, id : Nat, value : {ProtocolAvailability(HostAnswer)}]
ControlFrame == [type : {"none", "Close", "Pong", "Ping"}, id : {0}, value : {"none"}]

\* The states of the client, the reader, the capabilities, the writer and its queue,
\* the control channel and the durable record.
ClientState == [up : BOOLEAN, asked : Nat, said : Nat]
Asked == [type : {"Read", "Ping", "Pong", "Close", "Other"}, id : Nat]
ReaderState == [pc : {"read", "pinned", "enqueue", "failure", "drop", "join", "ended"}, id : Nat]
CapState == [state : {"Ready"}, next : Nat]
WriterState == [pc : {"poll", "gate", "check", "write", "ended"}, msg : ResultFrame \cup ControlFrame]
QueueState == [close : BOOLEAN, pong : BOOLEAN, ping : BOOLEAN, app : Seq(ResultFrame)]
Pending == {<<>>, <<"Pong">>, <<"Stop">>}
RecordState == [paired : BOOLEAN, gen : Nat]

\* The type invariant of a session.
SessionTypeOK ==
    /\ client \in ClientState /\ inbox \in Seq(Asked)
    /\ reader \in ReaderState /\ lastId \in Nat /\ cap \in CapState
    /\ apps \in Seq(ResultFrame) /\ controls \in Pending
    /\ closing \in BOOLEAN /\ shut \in BOOLEAN /\ idle \in BOOLEAN
    /\ writer \in WriterState /\ queue \in QueueState
    /\ gate \in {NoLock, "writer", "unpair"} /\ flock \in {NoLock, "unpair"}
    /\ unpair \in {"idle", "locked", "gated", "revoked", "done"}
    /\ record \in RecordState
    /\ sent \in Seq(Nat)

\* The gate is with the writer from the check to the write, and with unpair while it
\* publishes; the pairing that was checked is still there when the frame is written.
GateIsHeld ==
    /\ gate = "writer" <=> writer.pc \in {"check", "write"}
    /\ gate = "unpair" <=> unpair = "gated"
    /\ writer.pc = "write" => IsPinned

\* How many results were written, or are being, or wait in the queue, or in the channel.
Writing == IF writer.pc # "poll" /\ writer.msg.type = "Result" THEN 1 ELSE 0
Issued == Len(sent) + Writing
Waiting == Issued + Len(queue.app)
Accepted == Waiting + Len(apps)

\* The results on their way carry consecutive identities: the frame being written, the
\* queue, the channel and the request the reader holds.
Sequenced ==
    /\ Writing = 1 => writer.msg.id = Len(sent) + 1
    /\ \A i \in 1..Len(queue.app) : queue.app[i].id = Issued + i
    /\ \A i \in 1..Len(apps) : apps[i].id = Waiting + i
    /\ reader.pc \in {"pinned", "enqueue"} => reader.id = Accepted + 1 /\ lastId = Accepted + 1
    /\ reader.pc \in {"read", "failure"} => lastId = Accepted

\* The inductive invariant: once the writer has ended nothing more is sent, and the
\* results still waiting need not be in sequence with new ones.
SessionInv ==
    /\ SessionTypeOK /\ GateIsHeld /\ AnswersInOrder
    /\ writer.pc # "ended" => Sequenced

\* The counts are numbers and add up.
LEMMA SessionCounts ==
    ASSUME SessionTypeOK
    PROVE  /\ Len(sent) \in Nat /\ Len(queue.app) \in Nat /\ Len(apps) \in Nat
           /\ Writing \in {0, 1} /\ Issued \in Nat /\ Waiting \in Nat /\ Accepted \in Nat
           /\ Issued = Len(sent) + Writing /\ Waiting = Issued + Len(queue.app)
           /\ Accepted = Waiting + Len(apps)
<1>1. sent \in Seq(Nat) /\ queue.app \in Seq(ResultFrame) /\ apps \in Seq(ResultFrame)
  BY DEF SessionTypeOK, QueueState
<1>2. Len(sent) \in Nat /\ Len(queue.app) \in Nat /\ Len(apps) \in Nat
  BY <1>1
<1>3. Writing \in {0, 1}
  BY DEF Writing
<1>4. Issued = Len(sent) + Writing /\ Waiting = Issued + Len(queue.app)
      /\ Accepted = Waiting + Len(apps)
  BY DEF Issued, Waiting, Accepted
<1>5. Issued \in Nat
  BY <1>2, <1>3, <1>4
<1>6. Waiting \in Nat
  BY <1>2, <1>4, <1>5
<1>7. Accepted \in Nat
  BY <1>2, <1>4, <1>6
<1> QED
  BY <1>2, <1>3, <1>4, <1>5, <1>6, <1>7

\* A step of the reader that leaves the channel alone: it gives up, goes on, accepts
\* the next request or passes its check.
LEMMA ReaderMoves ==
    ASSUME SessionInv, SessionTypeOK',
           UNCHANGED <<writer, queue, apps, sent, gate, unpair, record>>,
           \/ reader'.pc \in {"drop", "join", "ended"}
           \/ /\ reader.pc \in {"read", "failure"} /\ reader'.pc \in {"read", "failure"}
              /\ lastId' = lastId
           \/ /\ reader.pc = "read" /\ reader'.pc = "pinned"
              /\ reader'.id = lastId + 1 /\ lastId' = lastId + 1
           \/ /\ reader.pc = "pinned" /\ reader'.pc = "enqueue"
              /\ reader'.id = reader.id /\ lastId' = lastId
           \/ reader' = reader /\ lastId' = lastId
    PROVE  SessionInv'
<1>1. GateIsHeld' /\ AnswersInOrder'
  BY DEF SessionInv, GateIsHeld, AnswersInOrder, IsPinned
<1>2. Writing' = Writing /\ Issued' = Issued /\ Waiting' = Waiting /\ Accepted' = Accepted
  BY DEF Writing, Issued, Waiting, Accepted
<1>3. writer.pc # "ended" => Sequenced'
  BY <1>2 DEF SessionInv, Sequenced
<1> QED
  BY <1>1, <1>3 DEF SessionInv

\* The writer ends and gives the gate back if it has it.
LEMMA WriterEnds ==
    ASSUME SessionInv, SessionTypeOK', writer'.pc = "ended", UNCHANGED <<sent, unpair, record>>,
           gate' = IF gate = "writer" THEN NoLock ELSE gate
    PROVE  SessionInv'
BY DEF SessionInv, SessionTypeOK, GateIsHeld, AnswersInOrder, NoLock

\* The client says something or leaves.
LEMMA ClientKeeps == SessionInv /\ (ClientSays \/ ClientLeaves) => SessionInv'
<1> SUFFICES ASSUME SessionInv, ClientSays \/ ClientLeaves PROVE SessionInv'
  OBVIOUS
<1>1. CASE ClientSays
  <2>1. /\ client \in ClientState /\ client.asked \in Nat /\ inbox \in Seq(Asked)
    BY DEF SessionInv, SessionTypeOK, ClientState
  <2>2. (\A id \in Nat : Ask(id) \in Asked)
        /\ (\A type \in {"Ping", "Pong", "Close", "Other"} : Say(type) \in Asked)
    BY DEF Ask, Say, Asked
  <2>3. client.asked + 1 \in Nat /\ client.said + 1 \in Nat
    BY <2>1 DEF ClientState
  <2>4. inbox' \in Seq(Asked) /\ client' \in ClientState
    <3>1. CASE \E id \in {client.asked, client.asked + 1} \ {0} :
                 /\ inbox' = Append(inbox, Ask(id))
                 /\ client' = [client EXCEPT !.asked = id, !.said = @ + 1]
      <4>1. PICK id \in {client.asked, client.asked + 1} :
              /\ inbox' = Append(inbox, Ask(id))
              /\ client' = [client EXCEPT !.asked = id, !.said = client.said + 1]
        BY <3>1
      <4>2. Ask(id) \in Asked /\ id \in Nat
        BY <2>1, <2>2, <2>3
      <4>3. inbox' \in Seq(Asked)
        BY <2>1, <4>1, <4>2
      <4> QED
        BY <2>1, <2>3, <4>1, <4>2, <4>3 DEF ClientState
    <3>2. CASE \E type \in {"Ping", "Pong", "Close", "Other"} :
                 /\ inbox' = Append(inbox, Say(type))
                 /\ client' = [client EXCEPT !.said = @ + 1]
      <4>1. inbox' \in Seq(Asked)
        BY <2>1, <2>2, <3>2
      <4> QED
        BY <2>1, <2>3, <3>2, <4>1 DEF ClientState
    <3> QED
      BY <1>1, <3>1, <3>2 DEF ClientSays
  <2>5. SessionTypeOK'
    BY <1>1, <2>4 DEF ClientSays, SessionInv, SessionTypeOK
  <2> QED
    BY <1>1, <2>5, ReaderMoves DEF ClientSays
<1>2. CASE ClientLeaves
  <2>1. SessionTypeOK'
    BY <1>2 DEF ClientLeaves, SessionInv, SessionTypeOK, ClientState
  <2> QED
    BY <1>2, <2>1, ReaderMoves DEF ClientLeaves
<1> QED
  BY <1>1, <1>2

\* The reader takes the next message; only the next request identity is accepted.
LEMMA ReadsKeeps == SessionInv /\ ReaderReads => SessionInv'
<1> SUFFICES ASSUME SessionInv, ReaderReads PROVE SessionInv'
  OBVIOUS
<1> DEFINE m == Head(inbox)
<1>1. inbox \in Seq(Asked) /\ inbox # <<>> /\ inbox' = Tail(inbox) /\ reader.pc = "read"
  BY DEF SessionInv, SessionTypeOK, ReaderReads
<1>2. inbox' \in Seq(Asked) /\ m \in Asked
  BY <1>1
<1>3. m.id \in Nat
  BY <1>2 DEF Asked
<1>4. /\ \/ reader'.pc \in {"drop", "join", "failure"} /\ lastId' = lastId /\ reader'.id = reader.id
         \/ reader'.pc = "pinned" /\ reader'.id = lastId + 1 /\ lastId' = lastId + 1
      /\ controls' \in {controls, <<"Pong">>} /\ closing' \in {closing, TRUE}
      /\ reader' \in ReaderState
      /\ UNCHANGED <<client, shut, writer, queue, idle, gate, flock, unpair, record, sent, cap, apps>>
  <2>1. reader \in ReaderState /\ lastId \in Nat
    BY DEF SessionInv, SessionTypeOK
  <2>2. \/ \E pc \in {"drop", "join", "failure"} : ReaderAt(pc) /\ lastId' = lastId
        \/ reader' = [pc |-> "pinned", id |-> lastId + 1] /\ lastId' = lastId + 1
    BY DEF ReaderReads, accept_request_id
  <2>3. controls' \in {controls, <<"Pong">>} /\ closing' \in {closing, TRUE}
    BY DEF ReaderReads
  <2>4. UNCHANGED <<client, shut, writer, queue, idle, gate, flock, unpair, record, sent, cap, apps>>
    BY DEF ReaderReads, readerOnly
  <2>5. CASE \E pc \in {"drop", "join", "failure"} : ReaderAt(pc) /\ lastId' = lastId
    BY <2>1, <2>3, <2>4, <2>5 DEF ReaderAt, ReaderState
  <2>6. CASE reader' = [pc |-> "pinned", id |-> lastId + 1] /\ lastId' = lastId + 1
    <3>1. lastId + 1 \in Nat
      BY <2>1
    <3>2. reader' \in ReaderState /\ reader'.pc = "pinned" /\ reader'.id = lastId + 1
      BY <2>6, <3>1 DEF ReaderState
    <3> QED
      BY <2>3, <2>4, <2>6, <3>2
  <2> QED
    BY <2>2, <2>5, <2>6
<1>5. SessionTypeOK'
  <2>1. lastId' \in Nat
    BY <1>4 DEF SessionInv, SessionTypeOK
  <2>2. controls' \in Pending /\ closing' \in BOOLEAN
    BY <1>4 DEF SessionInv, SessionTypeOK, Pending
  <2> QED
    BY <1>2, <1>4, <2>1, <2>2 DEF SessionInv, SessionTypeOK
<1> QED
  BY <1>1, <1>4, <1>5, ReaderMoves

\* The answer goes to the end of the channel, or the reader gives up.
LEMMA EnqueuesKeeps == SessionInv /\ ReaderEnqueues => SessionInv'
<1> SUFFICES ASSUME SessionInv, ReaderEnqueues PROVE SessionInv'
  OBVIOUS
<1> DEFINE answer == Result(reader.id, ProtocolAvailability(HostAnswer))
<1>1. /\ reader.pc = "enqueue" /\ reader.id \in Nat /\ lastId' = lastId /\ apps \in Seq(ResultFrame)
      /\ answer \in ResultFrame /\ answer.id = reader.id
      /\ UNCHANGED <<client, shut, writer, queue, idle, gate, flock, unpair, record, sent, inbox,
                     cap, controls, closing>>
  BY DEF ReaderEnqueues, readerOnly, SessionInv, SessionTypeOK, ReaderState, Result, ResultFrame
<1>2. CASE apps' = apps /\ ReaderAt("drop")
  <2>1. reader' \in ReaderState /\ reader'.pc = "drop"
    BY <1>2 DEF SessionInv, SessionTypeOK, ReaderAt, ReaderState
  <2>2. SessionTypeOK'
    BY <1>1, <1>2, <2>1 DEF SessionInv, SessionTypeOK
  <2> QED
    BY <1>1, <1>2, <2>1, <2>2, ReaderMoves
<1>3. CASE apps' = Append(apps, answer) /\ ReaderAt("failure")
  <2>1. /\ apps' \in Seq(ResultFrame) /\ Len(apps') = Len(apps) + 1
        /\ \A i \in 1..Len(apps) : apps'[i] = apps[i]
        /\ apps'[Len(apps) + 1] = answer
    <3> HIDE DEF answer
    <3> QED
      BY <1>1, <1>3
  <2>2. SessionTypeOK' /\ reader'.pc = "failure"
    <3>1. reader' \in ReaderState /\ reader'.pc = "failure"
      BY <1>3 DEF SessionInv, SessionTypeOK, ReaderAt, ReaderState
    <3> QED
      BY <1>1, <2>1, <3>1 DEF SessionInv, SessionTypeOK
  <2>3. GateIsHeld' /\ AnswersInOrder'
    BY <1>1 DEF SessionInv, GateIsHeld, AnswersInOrder, IsPinned
  <2>4. Writing' = Writing /\ Issued' = Issued /\ Waiting' = Waiting
    BY <1>1 DEF Writing, Issued, Waiting
  <2>5. Accepted' = Accepted + 1
    <3>1. Accepted' = Waiting + (Len(apps) + 1)
      BY <2>1, <2>4 DEF Accepted
    <3> QED
      BY <3>1, SessionCounts DEF SessionInv
  <2>6. ASSUME writer.pc # "ended" PROVE Sequenced'
    <3>1. ASSUME NEW i \in 1..Len(apps') PROVE apps'[i].id = Waiting + i
      <4>1. CASE i \in 1..Len(apps)
        BY <4>1, <2>1, <2>6 DEF SessionInv, Sequenced
      <4>2. CASE i = Len(apps) + 1
        <5>1. reader.id = Accepted + 1
          BY <1>1, <2>6 DEF SessionInv, Sequenced
        <5> QED
          BY <4>2, <5>1, <1>1, <2>1, SessionCounts DEF SessionInv
      <4> QED
        BY <4>1, <4>2, <2>1, SessionCounts DEF SessionInv
    <3>2. lastId' = Accepted'
      BY <1>1, <2>5, <2>6 DEF SessionInv, Sequenced
    <3> QED
      BY <3>1, <3>2, <1>1, <2>2, <2>4, <2>6 DEF SessionInv, Sequenced
  <2> QED
    BY <1>1, <2>2, <2>3, <2>6 DEF SessionInv
<1> QED
  BY <1>2, <1>3 DEF ReaderEnqueues

\* The steps of the reader.
LEMMA ReaderKeeps == SessionInv /\ ReaderStep => SessionInv'
<1> SUFFICES ASSUME SessionInv, ReaderStep PROVE SessionInv'
  OBVIOUS
<1>1. CASE ReaderTimesOut \/ ReaderLockTimesOut \/ ReaderJoins \/ ReaderLooks
  <2>1. /\ reader' \in ReaderState /\ reader'.pc \in {"drop", "ended", "read"}
        /\ reader'.pc = "read" => reader.pc = "failure"
        /\ lastId' = lastId
        /\ UNCHANGED <<client, shut, writer, queue, idle, gate, flock, unpair, record, sent,
                       inbox, cap, apps, controls, closing>>
    BY <1>1 DEF ReaderTimesOut, ReaderLockTimesOut, ReaderJoins, ReaderLooks, ReaderAt, readerOnly,
                SessionInv, SessionTypeOK, ReaderState
  <2>2. SessionTypeOK'
    BY <2>1 DEF SessionInv, SessionTypeOK
  <2> QED
    BY <2>1, <2>2, ReaderMoves
<1>2. CASE ReaderChecks
  <2>1. /\ reader.pc = "pinned" /\ reader' \in ReaderState /\ reader'.pc \in {"drop", "enqueue"}
        /\ reader'.id = reader.id /\ lastId' = lastId
        /\ cap' \in CapState
        /\ UNCHANGED <<client, shut, writer, queue, idle, gate, flock, unpair, record, sent,
                       inbox, apps, controls, closing>>
    <3>1. cap' \in CapState
      BY <1>2 DEF ReaderChecks, SessionInv, SessionTypeOK, CapState, Invoked, CompletedCap, Routed
    <3>2. reader.pc = "pinned" /\ \E pc \in {"drop", "enqueue"} : ReaderAt(pc)
      BY <1>2 DEF ReaderChecks
    <3>3. reader' \in ReaderState /\ reader'.pc \in {"drop", "enqueue"} /\ reader'.id = reader.id
      BY <3>2 DEF ReaderAt, SessionInv, SessionTypeOK, ReaderState
    <3> QED
      BY <1>2, <3>1, <3>2, <3>3 DEF ReaderChecks, readerOnly
  <2>2. SessionTypeOK'
    BY <2>1 DEF SessionInv, SessionTypeOK
  <2> QED
    BY <2>1, <2>2, ReaderMoves
<1>3. CASE ReaderDrops
  <2>1. /\ reader' \in ReaderState /\ reader'.pc = "join" /\ lastId' = lastId
        /\ controls' \in {controls, <<"Stop">>}
        /\ UNCHANGED <<client, shut, writer, queue, idle, gate, flock, unpair, record, sent,
                       inbox, cap, apps, closing>>
    BY <1>3 DEF ReaderDrops, ReaderAt, readerOnly, SessionInv, SessionTypeOK, ReaderState
  <2>2. SessionTypeOK'
    BY <2>1 DEF SessionInv, SessionTypeOK, Pending
  <2> QED
    BY <2>1, <2>2, ReaderMoves
<1> QED
  BY <1>1, <1>2, <1>3, ReadsKeeps, EnqueuesKeeps DEF ReaderStep

\* The channel is emptied behind the queue and the next frame is taken: a control
\* frame overtakes results, a result is the oldest.
LEMMA PollsKeeps == SessionInv /\ WriterPolls => SessionInv'
<1> SUFFICES ASSUME SessionInv, WriterPolls PROVE SessionInv'
  OBVIOUS
<1> DEFINE told == [queue EXCEPT !.close = queue.close \/ closing,
                                 !.pong = queue.pong \/ controls = <<"Pong">>]
           full == [told EXCEPT !.app = told.app \o apps]
<1>1. /\ writer.pc = "poll" /\ writer \in WriterState /\ queue \in QueueState
      /\ apps \in Seq(ResultFrame) /\ closing \in BOOLEAN
      /\ closing' = FALSE /\ controls' = <<>> /\ apps' = <<>>
      /\ UNCHANGED <<client, inbox, reader, lastId, cap, flock, unpair, record, idle, gate, sent>>
  BY DEF WriterPolls, writerOnly, SessionInv, SessionTypeOK
<1>2. /\ told \in QueueState /\ told.app = queue.app
  BY <1>1 DEF QueueState
<1>3. queue.app \o apps \in Seq(ResultFrame)
  BY <1>1 DEF QueueState
<1>4. full \in QueueState /\ full.app = queue.app \o apps /\ full.app \in Seq(ResultFrame)
  BY <1>2, <1>3 DEF QueueState
<1> HIDE DEF told, full
<1>0. <<>> \in Seq(ResultFrame) /\ <<>> \in Pending
  BY DEF Pending
<1>5. CASE \E failed \in BOOLEAN : WriterStops(failed) /\ queue' = told
  <2>1. shut' \in BOOLEAN /\ writer' \in WriterState /\ writer'.pc = "ended"
    BY <1>1, <1>5 DEF WriterStops, WriterState
  <2>2. SessionTypeOK'
    BY <1>0, <1>1, <1>2, <1>5, <2>1 DEF SessionInv, SessionTypeOK
  <2>3. gate # "writer"
    BY <1>1 DEF SessionInv, GateIsHeld
  <2> QED
    BY <1>1, <2>1, <2>2, <2>3, WriterEnds
<1>6. Len(full.app) = Len(queue.app) + Len(apps) /\ Len(full.app) \in Nat
  BY <1>1, <1>4 DEF QueueState
<1>7. /\ Writing = 0 /\ Sequenced /\ Issued = Len(sent) /\ Waiting = Len(sent) + Len(queue.app)
      /\ Accepted = Len(sent) + Len(full.app) /\ Len(sent) \in Nat
  <2>1. Writing = 0 /\ Sequenced
    BY <1>1 DEF Writing, SessionInv
  <2> QED
    <3>1. /\ Len(sent) \in Nat /\ Len(queue.app) \in Nat /\ Len(apps) \in Nat
          /\ Issued = Len(sent) + 0 /\ Waiting = Issued + Len(queue.app)
          /\ Accepted = Waiting + Len(apps)
      BY <2>1, SessionCounts DEF SessionInv
    <3>2. Issued = Len(sent) /\ Waiting = Len(sent) + Len(queue.app)
      BY <3>1
    <3>3. Accepted = Len(sent) + Len(full.app)
      BY <1>6, <3>1, <3>2
    <3> QED
      BY <2>1, <3>1, <3>2, <3>3
<1>8. \A i \in 1..Len(full.app) : full.app[i].id = Len(sent) + i
  <2> SUFFICES ASSUME NEW i \in 1..Len(full.app) PROVE full.app[i].id = Len(sent) + i
    OBVIOUS
  <2>1. queue.app \in Seq(ResultFrame) /\ Len(queue.app) \in Nat /\ Len(apps) \in Nat
    BY <1>1 DEF QueueState
  <2>2. CASE i <= Len(queue.app)
    <3>1. full.app[i] = queue.app[i] /\ i \in 1..Len(queue.app)
      BY <1>1, <1>4, <1>6, <2>1, <2>2
    <3> QED
      BY <3>1, <1>7 DEF Sequenced
  <2>3. CASE i > Len(queue.app)
    <3> DEFINE k == i - Len(queue.app)
    <3>1. full.app[i] = apps[k] /\ k \in 1..Len(apps) /\ Len(queue.app) + k = i
      BY <1>1, <1>4, <1>6, <2>1, <2>3
    <3>2. apps[k].id = Waiting + k
      BY <3>1, <1>7 DEF Sequenced
    <3>3. k \in Nat
      BY <3>1
    <3> HIDE DEF k
    <3>4. apps[k].id = Len(sent) + (Len(queue.app) + k)
      BY <3>2, <3>3, <1>7, <2>1
    <3> QED
      BY <3>1, <3>4
  <2> QED
    BY <2>1, <2>2, <2>3
<1>9. GateIsHeld /\ AnswersInOrder /\ gate # "writer"
  BY <1>1 DEF SessionInv, GateIsHeld
<1>10. CASE UNCHANGED <<writer, shut>> /\ queue' = IF idle THEN enqueue_ping_if_idle(full) ELSE full
  <2>1. queue' \in QueueState /\ queue'.app = full.app
    BY <1>4, <1>10 DEF enqueue_ping_if_idle, QueueState
  <2>2. SessionTypeOK'
    BY <1>0, <1>1, <1>10, <2>1 DEF SessionInv, SessionTypeOK
  <2>3. GateIsHeld' /\ AnswersInOrder'
    BY <1>1, <1>9, <1>10 DEF GateIsHeld, AnswersInOrder, IsPinned
  <2>4. Sequenced'
    <3>1. Writing' = 0
      BY <1>1, <1>10 DEF Writing
    <3>2. Issued' = Len(sent) /\ Waiting' = Len(sent) + Len(full.app)
          /\ Accepted' = Len(sent) + Len(full.app)
      BY <3>1, <1>1, <1>6, <1>7, <2>1 DEF Issued, Waiting, Accepted
    <3> QED
      BY <3>1, <3>2, <1>1, <1>7, <1>8, <2>1 DEF Sequenced
  <2> QED
    BY <2>2, <2>3, <2>4 DEF SessionInv
<1>11. CASE /\ full # EmptyQueue /\ UNCHANGED shut
            /\ writer' = [pc |-> "gate", msg |-> pop(full)[1]] /\ queue' = pop(full)[2]
  <2>1. CASE \E type \in {"Close", "Pong", "Ping"} :
               /\ writer' = [pc |-> "gate", msg |-> Frame(type)]
               /\ queue' \in QueueState /\ queue'.app = full.app
    <3>1. /\ writer' \in WriterState /\ writer'.pc = "gate" /\ writer'.msg.type # "Result"
      BY <2>1 DEF Frame, WriterState, ControlFrame
    <3>2. SessionTypeOK'
      BY <1>0, <1>1, <1>11, <2>1, <3>1 DEF SessionInv, SessionTypeOK
    <3>3. GateIsHeld' /\ AnswersInOrder'
      BY <1>1, <1>9, <3>1 DEF GateIsHeld, AnswersInOrder, IsPinned
    <3>4. Sequenced'
      <4>1. Writing' = 0
        BY <3>1 DEF Writing
      <4>2. Issued' = Len(sent) /\ Waiting' = Len(sent) + Len(full.app)
            /\ Accepted' = Len(sent) + Len(full.app)
        BY <4>1, <1>1, <1>6, <1>7, <2>1 DEF Issued, Waiting, Accepted
      <4> QED
        BY <4>1, <4>2, <1>1, <1>7, <1>8, <2>1 DEF Sequenced
    <3> QED
      BY <3>2, <3>3, <3>4 DEF SessionInv
  <2>2. CASE /\ full.app # <<>> /\ writer' = [pc |-> "gate", msg |-> Head(full.app)]
             /\ queue' = [full EXCEPT !.app = Tail(full.app)]
    <3>1. /\ Head(full.app) = full.app[1] /\ Head(full.app) \in ResultFrame
          /\ Len(full.app) >= 1
          /\ Tail(full.app) \in Seq(ResultFrame) /\ Len(Tail(full.app)) = Len(full.app) - 1
          /\ \A i \in 1..Len(Tail(full.app)) : Tail(full.app)[i] = full.app[i + 1]
      BY <1>4, <2>2
    <3>2. /\ writer' \in WriterState /\ writer'.pc = "gate" /\ writer'.msg = Head(full.app)
          /\ writer'.msg.type = "Result" /\ queue' \in QueueState /\ queue'.app = Tail(full.app)
      BY <1>4, <2>2, <3>1 DEF WriterState, QueueState, ResultFrame
    <3>3. SessionTypeOK'
      BY <1>0, <1>1, <1>11, <3>2 DEF SessionInv, SessionTypeOK
    <3>4. GateIsHeld' /\ AnswersInOrder'
      BY <1>1, <1>9, <3>2 DEF GateIsHeld, AnswersInOrder, IsPinned
    <3>5. Sequenced'
      <4>1. Writing' = 1
        BY <3>2 DEF Writing
      <4>2. Issued' = Len(sent) + 1 /\ Waiting' = Len(sent) + 1 + (Len(full.app) - 1)
            /\ Accepted' = Len(sent) + 1 + (Len(full.app) - 1) + 0
        BY <4>1, <1>1, <3>1, <3>2 DEF Issued, Waiting, Accepted
      <4>3. Accepted' = Accepted
        <5> DEFINE n == Len(full.app)
                   k == Len(sent)
        <5>1. n \in Nat /\ k \in Nat /\ Accepted = k + n /\ Accepted' = k + 1 + (n - 1) + 0
          BY <4>2, <1>6, <1>7
        <5> HIDE DEF n, k
        <5> QED
          BY <5>1
      <4>4. writer'.msg.id = Len(sent) + 1
        BY <3>1, <3>2, <1>6, <1>8
      <4>5. ASSUME NEW i \in 1..Len(queue'.app) PROVE queue'.app[i].id = Issued' + i
        <5>1. i + 1 \in 1..Len(full.app) /\ queue'.app[i] = full.app[i + 1] /\ i \in Nat
          BY <1>6, <3>1, <3>2
        <5>2. queue'.app[i].id = Len(sent) + (i + 1)
          BY <5>1, <1>8
        <5> QED
          BY <5>1, <5>2, <4>2, <1>7
      <4> QED
        BY <4>3, <4>4, <4>5, <1>1, <1>7 DEF Sequenced
    <3> QED
      BY <3>3, <3>4, <3>5 DEF SessionInv
  <2>3. full.app # <<>> \/ full.close \/ full.pong \/ full.ping
    BY <1>4, <1>11 DEF EmptyQueue, QueueState
  <2>4. CASE full.close \/ full.pong \/ full.ping
    <3>1. /\ [full EXCEPT !.close = FALSE] \in QueueState /\ [full EXCEPT !.close = FALSE].app = full.app
          /\ [full EXCEPT !.pong = FALSE] \in QueueState /\ [full EXCEPT !.pong = FALSE].app = full.app
          /\ [full EXCEPT !.ping = FALSE] \in QueueState /\ [full EXCEPT !.ping = FALSE].app = full.app
      BY <1>4 DEF QueueState
    <3> QED
      BY <1>11, <2>1, <2>4, <3>1 DEF pop
  <2>5. CASE ~(full.close \/ full.pong \/ full.ping)
    BY <1>11, <2>2, <2>3, <2>5 DEF pop
  <2> QED
    BY <2>4, <2>5
<1> QED
  BY <1>5, <1>10, <1>11 DEF WriterPolls, told, full

\* The steps of the writer: the check and the write are under one hold of the gate.
LEMMA WriterKeeps == SessionInv /\ (WriterStep \/ WriterIdles) => SessionInv'
<1> SUFFICES ASSUME SessionInv, WriterStep \/ WriterIdles PROVE SessionInv'
  OBVIOUS
<1>1. CASE WriterIdles
  <2>1. SessionTypeOK'
    BY <1>1 DEF WriterIdles, writerOnly, SessionInv, SessionTypeOK
  <2> QED
    BY <1>1, <2>1, ReaderMoves DEF WriterIdles, writerOnly
<1>2. CASE WriterLockTimesOut \/ WriteFails \/ (WriterChecks /\ ~IsPinned)
  <2>1. /\ writer.pc \in {"check", "write"} /\ WriterStops(TRUE) /\ gate' = NoLock
        /\ UNCHANGED <<client, inbox, reader, lastId, cap, flock, unpair, record, apps, controls,
                       closing, queue, idle, sent>>
    BY <1>2 DEF WriterLockTimesOut, WriteFails, WriterChecks, writerOnly
  <2>2. shut' \in BOOLEAN /\ writer' \in WriterState /\ writer'.pc = "ended"
    BY <2>1 DEF WriterStops, SessionInv, SessionTypeOK, WriterState
  <2>3. SessionTypeOK'
    BY <2>1, <2>2 DEF SessionInv, SessionTypeOK
  <2>4. gate = "writer"
    BY <2>1 DEF SessionInv, GateIsHeld
  <2> QED
    BY <2>1, <2>2, <2>3, <2>4, WriterEnds
<1>3. CASE WriterTakesGate \/ (WriterChecks /\ IsPinned)
  <2>1. /\ UNCHANGED <<client, inbox, reader, lastId, cap, flock, unpair, record, apps, controls,
                       closing, shut, queue, idle, sent>>
        /\ \/ /\ writer.pc = "gate" /\ gate = NoLock /\ gate' = "writer"
              /\ writer' = [writer EXCEPT !.pc = "check"]
           \/ /\ writer.pc = "check" /\ IsPinned /\ gate' = gate
              /\ writer' = [writer EXCEPT !.pc = "write"]
    BY <1>3 DEF WriterTakesGate, WriterChecks, writerOnly
  <2>2. /\ writer' \in WriterState /\ writer'.msg = writer.msg /\ writer.pc \in {"gate", "check"}
        /\ writer'.pc = IF writer.pc = "gate" THEN "check" ELSE "write"
    BY <2>1 DEF SessionInv, SessionTypeOK, WriterState
  <2>3. SessionTypeOK'
    BY <2>1, <2>2 DEF SessionInv, SessionTypeOK
  <2>4. GateIsHeld'
    BY <2>1, <2>2 DEF SessionInv, GateIsHeld, IsPinned, NoLock
  <2>5. Writing' = Writing /\ Issued' = Issued /\ Waiting' = Waiting /\ Accepted' = Accepted
    BY <2>1, <2>2 DEF Writing, Issued, Waiting, Accepted
  <2>6. Sequenced' /\ AnswersInOrder'
    BY <2>1, <2>2, <2>5 DEF SessionInv, Sequenced, AnswersInOrder
  <2> QED
    BY <2>3, <2>4, <2>6 DEF SessionInv
<1>4. CASE WriterWrites
  <2>1. /\ writer.pc = "write" /\ gate' = NoLock /\ idle' = FALSE
        /\ UNCHANGED <<client, inbox, reader, lastId, cap, flock, unpair, record, apps, controls,
                       closing, shut, queue>>
        /\ sent' = IF writer.msg.type = "Result" THEN Append(sent, writer.msg.id) ELSE sent
        /\ writer' = [writer EXCEPT !.pc = IF writer.msg.type = "Close" THEN "ended" ELSE "poll"]
    BY <1>4 DEF WriterWrites, writerOnly
  <2>2. /\ writer' \in WriterState /\ writer'.pc \in {"poll", "ended"}
        /\ writer.msg.type = "Result" => writer'.pc = "poll"
    BY <2>1 DEF SessionInv, SessionTypeOK, WriterState
  <2>3. GateIsHeld'
    BY <2>1, <2>2 DEF SessionInv, GateIsHeld, NoLock
  <2>4. Sequenced /\ sent \in Seq(Nat) /\ Len(sent) \in Nat
    BY <2>1 DEF SessionInv, SessionTypeOK
  <2>5. CASE writer.msg.type = "Result"
    <3>1. Writing = 1 /\ writer.msg.id = Len(sent) + 1
      BY <2>1, <2>4, <2>5 DEF Writing, Sequenced
    <3>2. /\ sent' \in Seq(Nat) /\ Len(sent') = Len(sent) + 1
          /\ \A i \in 1..Len(sent) : sent'[i] = sent[i]
          /\ sent'[Len(sent) + 1] = Len(sent) + 1
      BY <2>1, <2>4, <2>5, <3>1
    <3>3. AnswersInOrder'
      <4>1. DOMAIN sent' = 1..Len(sent') /\ DOMAIN sent = 1..Len(sent)
        BY <2>4, <3>2
      <4> QED
        BY <4>1, <2>4, <3>2 DEF SessionInv, AnswersInOrder
    <3>4. SessionTypeOK'
      BY <2>1, <2>2, <3>2 DEF SessionInv, SessionTypeOK
    <3>5. Writing' = 0
      BY <2>2, <2>5 DEF Writing
    <3>6. Issued' = Issued
      BY <2>4, <3>1, <3>2, <3>5 DEF Issued
    <3>7. Waiting' = Waiting /\ Accepted' = Accepted
      BY <2>1, <3>6 DEF Waiting, Accepted
    <3>8. Sequenced'
      BY <2>1, <2>4, <3>5, <3>6, <3>7 DEF Sequenced
    <3> QED
      BY <2>3, <3>3, <3>4, <3>8 DEF SessionInv
  <2>6. CASE writer.msg.type # "Result"
    <3>1. SessionTypeOK'
      BY <2>1, <2>2, <2>6 DEF SessionInv, SessionTypeOK
    <3>2. (Writing = 0 /\ Writing' = 0) \/ writer'.pc = "ended"
      BY <2>1, <2>2, <2>6 DEF Writing
    <3>3. AnswersInOrder'
      BY <2>1, <2>6 DEF SessionInv, AnswersInOrder
    <3>4. CASE writer'.pc = "ended"
      BY <2>3, <3>1, <3>3, <3>4 DEF SessionInv
    <3>5. CASE Writing = 0 /\ Writing' = 0
      <4>1. Issued' = Issued /\ Waiting' = Waiting /\ Accepted' = Accepted
        BY <2>1, <2>6, <3>5 DEF Issued, Waiting, Accepted
      <4>2. Sequenced'
        BY <2>1, <2>4, <3>5, <4>1 DEF Sequenced
      <4> QED
        BY <2>3, <3>1, <3>3, <4>2 DEF SessionInv
    <3> QED
      BY <3>2, <3>4, <3>5
  <2> QED
    BY <2>5, <2>6
<1> QED
  BY <1>1, <1>2, <1>3, <1>4, PollsKeeps DEF WriterStep

\* An unpair needs the gate to revoke, so it revokes no pairing that is being used.
LEMMA UnpairKeeps == SessionInv /\ (UnpairLocks \/ UnpairStep \/ PairedAgain) => SessionInv'
<1> SUFFICES ASSUME SessionInv, UnpairLocks \/ UnpairStep \/ PairedAgain PROVE SessionInv'
  OBVIOUS
<1>1. /\ UNCHANGED <<client, inbox, reader, lastId, cap, apps, controls, closing, shut, writer,
                     queue, idle, sent>>
  BY DEF UnpairLocks, UnpairStep, UnpairTakesGate, UnpairPublishes, UnpairReturns, PairedAgain,
         unpairOnly
<1>2. SessionTypeOK'
  <2>1. record' \in RecordState
    <3>1. record \in RecordState /\ record.gen + 1 \in Nat
      BY DEF SessionInv, SessionTypeOK, RecordState
    <3>2. \/ record' = record
          \/ record' = [paired |-> FALSE, gen |-> record.gen + 1]
          \/ record' = [record EXCEPT !.paired = TRUE]
      BY DEF UnpairLocks, UnpairStep, UnpairTakesGate, UnpairPublishes, UnpairReturns, PairedAgain
    <3>3. CASE record' = [paired |-> FALSE, gen |-> record.gen + 1]
      BY <3>1, <3>3 DEF RecordState
    <3>4. CASE record' = [record EXCEPT !.paired = TRUE]
      BY <3>1, <3>4 DEF RecordState
    <3> QED
      BY <3>1, <3>2, <3>3, <3>4
  <2>2. /\ gate' \in {NoLock, "writer", "unpair"} /\ flock' \in {NoLock, "unpair"}
        /\ unpair' \in {"idle", "locked", "gated", "revoked", "done"}
    BY DEF UnpairLocks, UnpairStep, UnpairTakesGate, UnpairPublishes, UnpairReturns, PairedAgain,
           SessionInv, SessionTypeOK
  <2> QED
    BY <1>1, <2>1, <2>2 DEF SessionInv, SessionTypeOK
<1>3. GateIsHeld'
  BY <1>1 DEF UnpairLocks, UnpairStep, UnpairTakesGate, UnpairPublishes, UnpairReturns, PairedAgain,
              SessionInv, GateIsHeld, IsPinned, NoLock
<1>4. Writing' = Writing /\ Issued' = Issued /\ Waiting' = Waiting /\ Accepted' = Accepted
  BY <1>1 DEF Writing, Issued, Waiting, Accepted
<1>5. AnswersInOrder' /\ (writer.pc # "ended" => Sequenced')
  BY <1>1, <1>4 DEF SessionInv, AnswersInOrder, Sequenced
<1> QED
  BY <1>1, <1>2, <1>3, <1>5 DEF SessionInv

\* Reader, writer, client and unpair keep the gate exclusive and the results in
\* sequence (run_availability_session_inner, run_session_writer).
THEOREM SessionInvariance == SessionSpec => []SessionInv
<1>1. SessionInit => SessionInv
  <2> SUFFICES ASSUME SessionInit PROVE SessionInv
    OBVIOUS
  <2>1. SessionTypeOK
    <3>1. /\ client \in ClientState /\ reader \in ReaderState /\ record \in RecordState
          /\ controls \in Pending
      BY DEF SessionInit, ClientState, ReaderState, RecordState, Pending, Pinned
    <3>2. cap \in CapState
      BY DEF SessionInit, CapState, Started, NewCapabilities
    <3>3. writer \in WriterState
      BY DEF SessionInit, WriterState, Frame, ControlFrame
    <3>4. queue \in QueueState
      BY DEF SessionInit, QueueState, EmptyQueue
    <3>5. inbox \in Seq(Asked) /\ apps \in Seq(ResultFrame) /\ sent \in Seq(Nat)
      BY DEF SessionInit
    <3>6. /\ lastId \in Nat /\ closing \in BOOLEAN /\ shut \in BOOLEAN /\ idle \in BOOLEAN
          /\ gate = NoLock /\ flock = NoLock /\ unpair = "idle"
      BY DEF SessionInit
    <3> QED
      BY <3>1, <3>2, <3>3, <3>4, <3>5, <3>6 DEF SessionTypeOK
  <2>2. GateIsHeld /\ AnswersInOrder
    BY DEF SessionInit, GateIsHeld, AnswersInOrder, NoLock
  <2>3. Writing = 0 /\ Len(sent) = 0 /\ queue.app = <<>> /\ apps = <<>> /\ Len(queue.app) = 0
        /\ reader.pc = "read" /\ lastId = 0 /\ Len(apps) = 0
    BY DEF SessionInit, Writing, EmptyQueue
  <2>4. Accepted = 0
    BY <2>3 DEF Issued, Waiting, Accepted
  <2>5. Sequenced
    BY <2>3, <2>4 DEF Sequenced
  <2> QED
    BY <2>1, <2>2, <2>5 DEF SessionInv
<1>2. SessionInv /\ [SessionNext]_sessionVars => SessionInv'
  <2>1. ASSUME SessionInv, UNCHANGED sessionVars PROVE SessionInv'
    <3>1. SessionTypeOK'
      BY <2>1 DEF sessionVars, SessionInv, SessionTypeOK
    <3> QED
      BY <2>1, <3>1, ReaderMoves DEF sessionVars
  <2> QED
    BY <2>1, ClientKeeps, ReaderKeeps, WriterKeeps, UnpairKeeps DEF SessionNext
<1> QED
  BY <1>1, <1>2, PTL DEF SessionSpec

\* WritesAreSound for every capacity of the application channel and any number of
\* requests: a frame is written only under the pairing the session was admitted
\* with, and the results leave in the order of their requests, each once.
THEOREM FramesAreOfThePairing == SessionSpec => WritesAreSound
<1>1. SessionInv => AnswersInOrder
  BY DEF SessionInv
<1>2. SessionInv /\ [SessionNext]_sessionVars => [WriterWrites => IsPinned]_sessionVars
  BY DEF SessionInv, GateIsHeld, WriterWrites
<1> QED
  BY <1>1, <1>2, SessionInvariance, PTL DEF SessionSpec, WritesAreSound, WritesArePinned
=============================================================================
