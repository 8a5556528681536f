---------------------------- MODULE OwnerControl ----------------------------
(***************************************************************************)
(* The owner control socket of a runtime: its table of commands, the       *)
(* workers that carry them out, and the decision a person makes about a    *)
(* pairing (owner_control.rs).                                             *)
(*                                                                         *)
(* Every command is handled with the control state locked, and begins by   *)
(* taking in the updates that workers and pairing threads have sent and by *)
(* dropping records that were complete for ten minutes.  A client that     *)
(* loses an answer repeats its command under the same identity.            *)
(***************************************************************************)
EXTENDS Naturals, Sequences, FiniteSets

CONSTANTS
    CommandId,      \* identities clients draw for their commands
    WorkId,         \* those that name an IdentityInit or an Unpair
    Transaction,    \* pairing transactions that may be prompted for
    TableMax,       \* TABLE_MAX: 16 in the code
    UpdateMax,      \* bound on updates not yet taken in
    RunMax          \* bound on how often an identity is used

VARIABLES
    table,      \* the records, by command identity
    updates,    \* completions on their way to the table
    running,    \* commands a worker or the runtime is busy with
    confirm,    \* the pairing thread that asks the owner, per command
    prompted,   \* transactions that pairing threads have asked about
    decisions,  \* the decision channel of each pairing command
    aged,       \* commands that were complete for ten minutes
    ran,        \* history: how often each identity was carried out
    forgotten,  \* history: how often its record was dropped in its time
    agreed,     \* history: transactions the owner confirmed
    confirmed   \* history: transactions a pairing thread took as confirmed

controlVars == <<table, updates, running, confirm, prompted, decisions, aged,
                 ran, forgotten, agreed, confirmed>>

PairId == CommandId \ WorkId
NoTransaction == "none"
Record(response, tx, decided) == [response |-> response, tx |-> tx, decided |-> decided]
Final == {"Done", "OperationFailed"}
Update(id, response, tx) == [id |-> id, response |-> response, tx |-> tx]

ControlInit ==
    /\ table = <<>> /\ updates = <<>> /\ running = {} /\ aged = {}
    /\ confirm = [id \in PairId |-> NoTransaction]
    /\ decisions = [id \in PairId |-> <<>>]
    /\ ran = [id \in CommandId |-> 0] /\ forgotten = [id \in CommandId |-> 0]
    /\ agreed = {} /\ confirmed = {} /\ prompted = {}

-----------------------------------------------------------------------------
(* What every command does first.                                          *)

\* apply_completions: the last update of a record is what it answers.
LastUpdate(id) ==
    LET mine == SelectSeq(updates, LAMBDA u : u.id = id)
    IN  IF mine = <<>> THEN Update(id, table[id].response, table[id].tx)
                       ELSE mine[Len(mine)]
Applied == [id \in DOMAIN table |->
    Record(LastUpdate(id).response, LastUpdate(id).tx, table[id].decided)]

\* Mutant of Expired: a record goes as soon as it is complete.
ExpiredAtOnce(t) == {id \in DOMAIN t : t[id].response \in Final}

\* expire_terminal: completed ten minutes ago.
Expired(t) == {id \in DOMAIN t \cap aged : t[id].response \in Final}

Current == [id \in DOMAIN table \ Expired(Applied) |-> Applied[id]]

\* The table a command works on, and the rest of the state brought up to date.
TakesIn ==
    /\ updates' = <<>>
    /\ forgotten' = [id \in CommandId |->
            forgotten[id] + IF id \in aged \cap (DOMAIN table \ DOMAIN Current) THEN 1 ELSE 0]
    /\ aged' = aged \ (DOMAIN table \ DOMAIN Current)

-----------------------------------------------------------------------------
(* The commands.                                                           *)

\* OwnerInfo, IdentityList and CommandResult change nothing else.
Query ==
    /\ TakesIn /\ table' = Current
    /\ UNCHANGED <<prompted, running, confirm, decisions, ran, agreed, confirmed>>

\* A known identity is answered from its record.
IsNew(id) == id \notin DOMAIN Current

\* accept and accept_pairing_event, for a new identity with room in the table.  (A
\* runtime that has returned refuses the event: that is HostLoop's OwnerOpens.)
Accept(id) ==
    /\ TakesIn
    /\ IsNew(id) /\ Cardinality(DOMAIN Current) < TableMax /\ ran[id] < RunMax
    /\ table' = [x \in DOMAIN Current \cup {id} |->
            IF x = id THEN Record("Pending", NoTransaction, FALSE) ELSE Current[x]]
    /\ decisions' = [x \in PairId |-> IF x = id THEN <<>> ELSE decisions[x]]
    /\ running' = running \cup {id}
    /\ ran' = [ran EXCEPT ![id] = @ + 1]
    /\ UNCHANGED <<prompted, confirm, agreed, confirmed>>

\* PairingDecide: once for each record, and for the transaction on display.
Decide(id, tx, yes) ==
    /\ TakesIn
    /\ id \in DOMAIN Current /\ ~Current[id].decided
    /\ Current[id].response = "ConfirmationRequired" /\ Current[id].tx = tx
    /\ table' = [Current EXCEPT ![id].decided = TRUE]
    /\ decisions' = [decisions EXCEPT ![id] = Append(@, [tx |-> tx, yes |-> yes])]
    /\ agreed' = IF yes THEN agreed \cup {<<id, tx>>} ELSE agreed
    /\ UNCHANGED <<prompted, running, confirm, ran, confirmed>>

-----------------------------------------------------------------------------
(* The workers, and the runtime's pairing threads.                         *)

Sends(id, response, tx) ==
    /\ Len(updates) < UpdateMax
    /\ updates' = Append(updates, Update(id, response, tx))

\* Mutant of WorkerCompletes: a failed operation sends nothing.
WorkerCompletesOrDies(id) ==
    /\ id \in running \cap WorkId
    /\ running' = running \ {id}
    /\ Sends(id, "Done", NoTransaction) \/ UNCHANGED updates
    /\ UNCHANGED <<prompted, table, confirm, decisions, aged, ran, forgotten, agreed, confirmed>>

WorkerCompletes(id) ==
    /\ id \in running \cap WorkId
    /\ running' = running \ {id}
    /\ \E response \in Final : Sends(id, response, NoTransaction)
    /\ UNCHANGED <<prompted, table, confirm, decisions, aged, ran, forgotten, agreed, confirmed>>

TaskWaits(id) ==
    /\ id \in running \cap PairId /\ confirm[id] = NoTransaction
    /\ Sends(id, "PairingWaiting", NoTransaction)
    /\ UNCHANGED <<prompted, table, running, confirm, decisions, aged, ran, forgotten, agreed, confirmed>>

\* OwnerPairingTask::confirm: one thread at a time holds the decisions.  A
\* second connection accepted in the same window may still ask after the first
\* attempt has finished.
TaskPrompts(id, tx) ==
    /\ id \in PairId \cap DOMAIN table /\ id \notin aged
    /\ confirm[id] = NoTransaction /\ tx \notin prompted
    /\ prompted' = prompted \cup {tx}
    /\ running' = running \cup {id}
    /\ confirm' = [confirm EXCEPT ![id] = tx]
    /\ Sends(id, "ConfirmationRequired", tx)
    /\ UNCHANGED <<table, decisions, aged, ran, forgotten, agreed, confirmed>>

\* Mutant of TaskDecided: whatever was decided is taken for this transaction.
TaskDecidedAny(id) ==
    /\ id \in PairId /\ confirm[id] # NoTransaction /\ decisions[id] # <<>>
    /\ decisions' = [decisions EXCEPT ![id] = Tail(@)]
    /\ confirmed' = IF Head(decisions[id]).yes
                    THEN confirmed \cup {<<id, confirm[id]>>} ELSE confirmed
    /\ confirm' = [confirm EXCEPT ![id] = NoTransaction]
    /\ UNCHANGED <<prompted, table, updates, running, aged, ran, forgotten, agreed>>

TaskDecided(id) ==
    /\ id \in PairId /\ confirm[id] # NoTransaction /\ decisions[id] # <<>>
    /\ decisions' = [decisions EXCEPT ![id] = Tail(@)]
    /\ LET d == Head(decisions[id])
       IN  confirmed' = IF d.yes /\ d.tx = confirm[id]
                        THEN confirmed \cup {<<id, d.tx>>} ELSE confirmed
    /\ confirm' = [confirm EXCEPT ![id] = NoTransaction]
    /\ UNCHANGED <<prompted, table, updates, running, aged, ran, forgotten, agreed>>

\* The deadline passes or the task is cancelled.
TaskGivesUp(id) ==
    /\ id \in PairId /\ confirm[id] # NoTransaction
    /\ confirm' = [confirm EXCEPT ![id] = NoTransaction]
    /\ UNCHANGED <<prompted, table, updates, running, decisions, aged, ran, forgotten, agreed, confirmed>>

TaskFinishes(id) ==
    /\ id \in running \cap PairId /\ confirm[id] = NoTransaction
    /\ running' = running \ {id}
    /\ \E response \in Final : Sends(id, response, NoTransaction)
    /\ UNCHANGED <<prompted, table, confirm, decisions, aged, ran, forgotten, agreed, confirmed>>

\* Ten minutes pass after the update that completed the command was sent.
TenMinutes(id) ==
    /\ id \in DOMAIN table \ (running \cup aged)
    /\ LastUpdate(id).response \in Final
    /\ aged' = aged \cup {id}
    /\ UNCHANGED <<prompted, table, updates, running, confirm, decisions, ran, forgotten, agreed, confirmed>>

Background(id) ==
    WorkerCompletes(id) \/ TaskDecided(id) \/ TaskGivesUp(id) \/ TaskFinishes(id)

ControlNext ==
    \/ Query
    \/ \E id \in CommandId : Accept(id) \/ Background(id) \/ TaskWaits(id) \/ TenMinutes(id)
    \/ \E id \in PairId, tx \in Transaction :
          TaskPrompts(id, tx) \/ \E yes \in BOOLEAN : Decide(id, tx, yes)

\* Somebody who waits for room in the update channel gets it.
Reports == \/ \E id \in WorkId : WorkerCompletes(id)
           \/ \E id \in PairId : TaskFinishes(id)

\* Workers and pairing threads end, time passes and somebody asks.
ControlFairness ==
    /\ WF_controlVars(Query)
    /\ \A id \in CommandId : WF_controlVars(TenMinutes(id))
    /\ SF_controlVars(Reports)
    /\ \A id \in PairId : WF_controlVars(TaskGivesUp(id))

ControlSpec == ControlInit /\ [][ControlNext]_controlVars /\ ControlFairness

-----------------------------------------------------------------------------
(* A repeated command is not carried out again as long as the table        *)
(* remembers it, and it remembers it until ten minutes after its end: the  *)
(* retry of a lost answer cannot unpair or open a window twice.            *)
RunsOnce == \A id \in CommandId :
    /\ ran[id] <= forgotten[id] + 1
    /\ id \in running => id \in DOMAIN table

(* A pairing thread that goes on has the owner's own word for its very     *)
(* transaction, also when an earlier prompt of the same command was        *)
(* decided too late and its decision is still in the channel.              *)
ConfirmedByOwner == confirmed \subseteq agreed

(* A full table does not stay full: OwnerBusy is a passing answer.         *)
TableFrees == (Cardinality(DOMAIN table) = TableMax) ~> (Cardinality(DOMAIN table) < TableMax)
=============================================================================
