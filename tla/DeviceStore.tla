---------------------------- MODULE DeviceStore ----------------------------
(***************************************************************************)
(* The device's records in flash (core-s3-service lib.rs, core-s3 lib.rs,  *)
(* adapter.c): two slots and an intent for the identity and for the WiFi   *)
(* configuration, the worker's operations on them, one flash write a step, *)
(* and the copy in RAM that the status commands answer from.  Power may be *)
(* lost before and after every write.                                      *)
(***************************************************************************)
EXTENDS Naturals

CONSTANTS
    HostKey,        \* identities of the hosts a device may be paired with
    SequenceMax,    \* publications of the identity; u64::MAX in the code
    ConfigMax,      \* publications of the configuration
    DeviceGenMax    \* u64::MAX in the code

VARIABLES
    slot,       \* the two slots of each store
    intent,     \* the publication each store's intent announces, 0 for none
    ram,        \* OWNER_GENERATION, PEER_STATE with PEER_ID, CONFIG_PRESENT
    job,        \* what the worker is writing
    contact,    \* the connection the worker is in, with its copy of the identity
    stored,     \* history: the last record reported as stored
    pinned      \* history: the generations and hosts that were ever paired

storeVars == <<slot, intent, ram, job, contact, stored, pinned>>

RecordStore == {"identity", "config"}
NoHost == "none"

ASSUME HostKeyAssumption == NoHost \notin HostKey

StoredRecord(sequence, generation, state, host) ==
    [sequence |-> sequence, generation |-> generation, state |-> state, host |-> host]
Blank == StoredRecord(0, 0, "blank", NoHost)
Unreadable == StoredRecord(0, 0, "unreadable", NoHost)

Rest == [op |-> "none", at |-> "rest", store |-> "identity", next |-> Blank]
NoContact == [kind |-> "none", identity |-> Blank]

-----------------------------------------------------------------------------
(* Reading                                                                 *)

\* Mutant of select_slot: the older publication wins.
select_slot_older(a, b) ==
    CASE a = Blank -> b
      [] b = Blank -> a
      [] a # Blank /\ b # Blank -> IF a.sequence < b.sequence THEN a ELSE b

select_slot(a, b) ==
    CASE a = Blank -> b
      [] b = Blank -> a
      [] a # Blank /\ b # Blank ->
            IF a.sequence > b.sequence THEN a
            ELSE IF a.sequence < b.sequence \/ a = b THEN b ELSE Unreadable

SlotOf(sequence) == IF sequence % 2 = 1 THEN "A" ELSE "B"

canonical_record(s) ==
    IF intent[s] # 0 THEN Unreadable ELSE select_slot(slot[s]["A"], slot[s]["B"])

\* load_identity(), and the generation handle_control gets from it.
IdentityLoads == canonical_record("identity") \notin {Blank, Unreadable}
LoadedGeneration ==
    IF IdentityLoads THEN canonical_record("identity").generation ELSE 0
ConfigLoads == canonical_record("config").state = "ConfigPresent"

-----------------------------------------------------------------------------
(* Writing: the intent, the record in the slot its number names, and the   *)
(* removal of the intent.                                                  *)

Resting == job.at = "rest"

publish_record(op, s, last, generation, state, host) ==
    /\ last < (IF s = "identity" THEN SequenceMax ELSE ConfigMax)
    /\ job' = [op |-> op, at |-> "intent", store |-> s,
               next |-> StoredRecord(last + 1, generation, state, host)]

WriteIntent ==
    /\ job.at = "intent"
    /\ intent' = [intent EXCEPT ![job.store] = job.next.sequence]
    /\ job' = [job EXCEPT !.at = "record"]
    /\ UNCHANGED <<slot, ram, contact, stored, pinned>>

WriteRecord ==
    /\ job.at = "record"
    /\ slot' = [slot EXCEPT ![job.store][SlotOf(job.next.sequence)] = job.next]
    /\ job' = [job EXCEPT !.at = "delete"]
    /\ pinned' = IF job.next.state = "Paired"
                 THEN pinned \cup {<<job.next.generation, job.next.host>>} ELSE pinned
    /\ UNCHANGED <<intent, ram, contact, stored>>

\* What follows a publication: the copy in RAM, and for the revocation the end
\* of the session before the host is forgotten.
RecordPublished ==
    LET next == job.next
        shown == [ram EXCEPT !.generation = next.generation, !.peer = next.state, !.host = next.host]
    IN  CASE job.op = "init" -> ram' = [ram EXCEPT !.generation = 1] /\ job' = Rest /\ UNCHANGED contact
          [] job.op = "peer" ->
                ram' = shown /\ job' = Rest /\ contact' = [contact EXCEPT !.identity = next]
          [] job.op = "revoke" ->
                /\ ram' = [ram EXCEPT !.generation = next.generation, !.peer = "Revoking"]
                /\ job' = [Rest EXCEPT !.op = "forget", !.at = "close", !.next = next]
                /\ UNCHANGED contact
          [] job.op = "forget" -> ram' = shown /\ job' = Rest /\ UNCHANGED contact
          [] job.op \in {"provision", "clear"} ->
                /\ ram' = [ram EXCEPT !.config = job.op = "provision"]
                /\ job' = Rest /\ UNCHANGED contact

DeleteIntent ==
    /\ job.at = "delete"
    /\ intent' = [intent EXCEPT ![job.store] = 0]
    /\ stored' = [stored EXCEPT ![job.store] = job.next]
    /\ RecordPublished
    /\ UNCHANGED <<slot, pinned>>

\* A write is refused, or its read-back differs although it was made: the
\* operation ends with StoreFailed, a pairing with its connection.
WriteFails ==
    /\ job.at \in {"intent", "record", "delete"}
    /\ \/ UNCHANGED <<slot, intent>>
       \/ job.at = "intent" /\ intent' = [intent EXCEPT ![job.store] = job.next.sequence] /\ UNCHANGED slot
       \/ /\ job.at = "record" /\ UNCHANGED intent
          /\ slot' = [slot EXCEPT ![job.store][SlotOf(job.next.sequence)] = job.next]
    /\ job' = Rest
    /\ contact' = IF job.op = "peer" THEN NoContact ELSE contact
    /\ UNCHANGED <<ram, stored, pinned>>

-----------------------------------------------------------------------------
(* The worker's operations                                                 *)

\* handle_control runs between connections.
Handles == Resting /\ contact = NoContact

identity_init(g) ==
    /\ Handles /\ g = LoadedGeneration /\ canonical_record("identity") = Blank
    /\ publish_record("init", "identity", 0, 1, "Unpaired", NoHost)
    /\ UNCHANGED <<slot, intent, ram, contact, stored, pinned>>

wifi_provision(g) ==
    /\ Handles /\ g = LoadedGeneration /\ canonical_record("config") # Unreadable
    /\ publish_record("provision", "config", canonical_record("config").sequence, 1, "ConfigPresent", NoHost)
    /\ UNCHANGED <<slot, intent, ram, contact, stored, pinned>>

clear_config(g) ==
    /\ Handles /\ g = LoadedGeneration /\ canonical_record("config") \notin {Blank, Unreadable}
    /\ publish_record("clear", "config", canonical_record("config").sequence,
                      canonical_record("config").generation, "ConfigCleared", NoHost)
    /\ UNCHANGED <<slot, intent, ram, contact, stored, pinned>>

\* connect_once: an unpaired identity pairs with the host it meets, a paired one
\* accepts only its own; every other state ends the connection.
connect_once(h) ==
    /\ Handles /\ IdentityLoads /\ ConfigLoads
    /\ LET identity == canonical_record("identity")
       IN  \/ /\ identity.state = "Unpaired"
              /\ contact' = [kind |-> "pair", identity |-> [identity EXCEPT !.host = h]]
           \/ /\ identity.state = "Paired" /\ identity.host = h
              /\ contact' = [kind |-> "pinned", identity |-> identity]
    /\ UNCHANGED <<slot, intent, ram, job, stored, pinned>>

NextState(state) ==
    CASE state = "Unpaired" -> "Pending" [] state = "Pending" -> "Committing" [] OTHER -> "Paired"

\* pair_session publishes from its own copy; it does not read the store again.
publish_peer ==
    /\ Resting /\ contact.kind = "pair" /\ contact.identity.state # "Paired"
    /\ publish_record("peer", "identity", contact.identity.sequence, contact.identity.generation,
                      NextState(contact.identity.state), contact.identity.host)
    /\ UNCHANGED <<slot, intent, ram, contact, stored, pinned>>

\* The peer is gone, a deadline passed, or the pairing was rejected.
ContactEnds ==
    /\ Resting /\ contact # NoContact /\ contact' = NoContact
    /\ UNCHANGED <<slot, intent, ram, job, stored, pinned>>

\* The generation an unpair must name: RAM's copy during a connection
\* (poll_active_control), the store's otherwise (handle_control).
ExpectedGeneration == IF contact = NoContact THEN LoadedGeneration ELSE ram.generation

\* The record an intent announces, and whether it finishes the unpair of h.
Announced == slot["identity"][SlotOf(intent["identity"])]
Before == slot["identity"][SlotOf(intent["identity"] + 1)]
Completed(h) ==
    /\ Announced.state = "Unpaired" /\ Before.generation = Announced.generation
    /\ Before.state = "Revoking" /\ Before.host = h
Recovers(h) ==
    Announced.sequence = intent["identity"] /\ (Completed(h) \/ Announced.host = h)

recover_identity_intent(h) ==
    /\ intent["identity"] # 0 /\ Recovers(h)
    /\ intent' = [intent EXCEPT !["identity"] = 0]
    /\ IF Completed(h)
       THEN job' = Rest /\ ram' = [ram EXCEPT !.generation = Announced.generation,
                                     !.peer = "Unpaired", !.host = NoHost]
       ELSE /\ job' = [Rest EXCEPT !.op = "revoke", !.at = "begin", !.next = Announced]
            /\ UNCHANGED ram
    /\ UNCHANGED <<slot, contact, stored, pinned>>

\* Mutant of Revokes: the revocation stays in the generation it ends.
RevokesInPlace(identity) ==
    IF identity.state = "Revoking"
    THEN /\ ram' = [ram EXCEPT !.generation = identity.generation, !.peer = "Revoking"]
         /\ job' = [Rest EXCEPT !.op = "forget", !.at = "close", !.next = identity]
         /\ UNCHANGED <<stored, pinned>>
    ELSE /\ publish_record("revoke", "identity", identity.sequence, identity.generation,
                           "Revoking", identity.host)
         /\ UNCHANGED <<ram, stored, pinned>>

Revokes(identity) ==
    IF identity.state = "Revoking"
    THEN /\ ram' = [ram EXCEPT !.generation = identity.generation, !.peer = "Revoking"]
         /\ job' = [Rest EXCEPT !.op = "forget", !.at = "close", !.next = identity]
         /\ UNCHANGED <<stored, pinned>>
    ELSE /\ identity.generation < DeviceGenMax
         /\ publish_record("revoke", "identity", identity.sequence, identity.generation + 1,
                           "Revoking", identity.host)
         /\ UNCHANGED <<ram, stored, pinned>>

\* The rest of begin_identity_unpair, with no intent in the way.
begin_identity_unpair(h) ==
    /\ canonical_record("identity").state \in {"Pending", "Committing", "Paired", "Revoking"}
    /\ canonical_record("identity").host = h
    /\ Revokes(canonical_record("identity"))
    /\ UNCHANGED <<slot, intent, contact>>

Unpair(g, h) ==
    /\ Resting /\ g = ExpectedGeneration
    /\ recover_identity_intent(h) \/ begin_identity_unpair(h)

\* After a recovery that left the peer paired or revoking, the unpair goes on,
\* unless generations are exhausted.
UnpairGoesOn ==
    /\ job.at = "begin"
    /\ \/ begin_identity_unpair(job.next.host)
       \/ /\ job.next.state # "Revoking" /\ job.next.generation = DeviceGenMax
          /\ job' = Rest /\ UNCHANGED <<slot, intent, ram, contact, stored, pinned>>

\* The connection is closed, and finish_identity_unpair forgets the host.
finish_identity_unpair ==
    /\ job.at = "close"
    /\ publish_record("forget", "identity", job.next.sequence, job.next.generation, "Unpaired", NoHost)
    /\ contact' = NoContact
    /\ UNCHANGED <<slot, intent, ram, stored, pinned>>

\* Power is lost at any point; the worker starts from what it can read.
Reboot ==
    /\ ram' = [generation |-> LoadedGeneration,
               peer |-> IF IdentityLoads THEN canonical_record("identity").state ELSE "Unpaired",
               host |-> IF IdentityLoads THEN canonical_record("identity").host ELSE NoHost,
               config |-> ConfigLoads]
    /\ job' = Rest /\ contact' = NoContact
    /\ UNCHANGED <<slot, intent, stored, pinned>>

StoreInit ==
    /\ slot = [s \in RecordStore |-> [i \in {"A", "B"} |-> Blank]]
    /\ intent = [s \in RecordStore |-> 0]
    /\ ram = [generation |-> 0, peer |-> "Unpaired", host |-> NoHost, config |-> FALSE]
    /\ job = Rest /\ contact = NoContact
    /\ stored = [s \in RecordStore |-> Blank] /\ pinned = {}

StoreNext ==
    \/ \E g \in 0..DeviceGenMax :
          \/ identity_init(g) \/ wifi_provision(g) \/ clear_config(g)
          \/ \E h \in HostKey : Unpair(g, h)
    \/ \E h \in HostKey : connect_once(h)
    \/ publish_peer \/ ContactEnds \/ UnpairGoesOn \/ finish_identity_unpair
    \/ WriteIntent \/ WriteRecord \/ DeleteIntent \/ WriteFails \/ Reboot

StoreSpec == StoreInit /\ [][StoreNext]_storeVars

-----------------------------------------------------------------------------
(* Properties                                                              *)

\* Failed writes, power loss and recovery never bring back an older record than
\* the last one the worker reported as stored.
NoRollback ==
    \A s \in RecordStore :
        canonical_record(s) # Unreadable =>
            /\ canonical_record(s).sequence >= stored[s].sequence
            /\ canonical_record(s).sequence = stored[s].sequence => canonical_record(s) = stored[s]

\* When the store has revoked or forgotten a host, the status commands say so,
\* with the store's generation, whatever failed on the way.
RevokedIsNotListed ==
    LET identity == canonical_record("identity")
    IN  Resting /\ identity.state \in {"Unpaired", "Revoking"}
            => ram.peer = identity.state /\ ram.generation = identity.generation

\* What the device has reported of its records holds: through failed writes, power
\* loss and recovery no stored record is rolled back, and no revoked host listed.
ReportsHold == NoRollback /\ RevokedIsNotListed

\* A generation stands for one host: through interrupted and recovered unpairs,
\* a command that names a generation cannot hit another host's pairing.
GenerationNamesHost == \A e, f \in pinned : e[1] = f[1] => e[2] = f[2]

\* "Pairing and exact unpair are generation-bound, crash-recoverable state
\* machines" (docs/architecture.md): what an interrupted pairing or unpair left
\* behind can be recovered by the unpair of some host.
InterruptedIsRecoverable ==
    Resting /\ stored["identity"] # Blank /\ intent["identity"] # 0 => \E h \in HostKey : Recovers(h)

=============================================================================
