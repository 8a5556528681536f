-------------------------- MODULE DeviceStoreProofs --------------------------
(***************************************************************************)
(* Proofs about the device's records: through refused and half-made        *)
(* writes, power loss at every step and recovered unpairs, no reported     *)
(* record is rolled back, no revoked host is listed and a generation names *)
(* one host.                                                               *)
(***************************************************************************)
EXTENDS DeviceStore, TLAPS

RecordState == {"blank", "Unpaired", "Pending", "Committing", "Paired", "Revoking",
                "ConfigPresent", "ConfigCleared"}
Pinning == {"Pending", "Committing", "Paired"}
IdentityState == Pinning \cup {"Unpaired", "Revoking"}
ConfigState == {"ConfigPresent", "ConfigCleared"}
FlashRecord == [sequence : Nat, generation : Nat, state : RecordState, host : HostKey \cup {NoHost}]
IdentityOp == {"init", "peer", "revoke", "forget"}
ConfigOp == {"provision", "clear"}
AtWrite == {"intent", "record", "delete"}
JobRecord == [op : IdentityOp \cup ConfigOp \cup {"none"}, at : AtWrite \cup {"rest", "begin", "close"},
              store : RecordStore, next : FlashRecord]
ContactRecord == [kind : {"none", "pair", "pinned"}, identity : FlashRecord]

StoreTypeOK ==
    /\ slot \in [RecordStore -> [{"A", "B"} -> FlashRecord]]
    /\ intent \in [RecordStore -> Nat]
    /\ ram \in [generation : Nat, peer : RecordState, host : HostKey \cup {NoHost}, config : BOOLEAN]
    /\ job \in JobRecord /\ contact \in ContactRecord
    /\ stored \in [RecordStore -> FlashRecord]
    /\ pinned \in SUBSET (Nat \X HostKey)

\* A record lies in the slot its number names, and an unpaired one has no host.
Named(s, i, r) ==
    \/ r = Blank
    \/ /\ r.sequence > 0 /\ SlotOf(r.sequence) = i
       /\ r.state \in (IF s = "identity" THEN IdentityState ELSE ConfigState)
       /\ r.state = "Unpaired" => r.host = NoHost
SlotsAreNamed == \A s \in RecordStore : \A i \in {"A", "B"} : Named(s, i, slot[s][i])

\* What is read once the intent is out of the way.
Top(s) == select_slot(slot[s]["A"], slot[s]["B"])

\* The newest record is the one last reported, or newer.
NothingLost == \A s \in RecordStore :
    /\ stored[s].sequence <= Top(s).sequence
    /\ stored[s].sequence = Top(s).sequence => stored[s] = Top(s)

\* An intent announces the newest record or the one after it, not yet reported.
IntentIsNext == \A s \in RecordStore : intent[s] # 0 =>
    intent[s] \in {Top(s).sequence, Top(s).sequence + 1} /\ intent[s] > stored[s].sequence

\* The record being written carries the number its intent has or will have.
WriteIsNext == job.at \in AtWrite =>
    LET n == job.next.sequence
        s == job.store
    IN  /\ n > 0 /\ n > stored[s].sequence /\ n \in {Top(s).sequence, Top(s).sequence + 1}
        /\ job.at = "intent" => intent[s] \in {0, n}
        /\ job.at # "intent" => intent[s] = n
        /\ job.at = "delete" => Top(s) = job.next

\* Which operation is at which step, and what it writes.
Newer(r) == \A e \in pinned : e[1] < r.generation
Same(r) == \A e \in pinned : e[1] <= r.generation /\ (e[1] = r.generation => e[2] = r.host)

JobIsSound ==
    /\ job.at \in AtWrite /\ job.store = "identity" => job.op \in IdentityOp
    /\ job.at \in AtWrite /\ job.store = "config" => job.op \in ConfigOp /\ job.next.state \in ConfigState
    /\ job.at \in AtWrite /\ job.op = "init" =>
           /\ job.next.state = "Unpaired" /\ job.next.host = NoHost /\ job.next.generation = 1
           /\ pinned = {} /\ ram.peer = "Unpaired"
    /\ job.at \in AtWrite /\ job.op = "peer" =>
           /\ contact.kind = "pair" /\ job.next.state \in Pinning
           /\ job.next.generation = contact.identity.generation
           /\ job.next.host = contact.identity.host
    /\ job.at \in AtWrite /\ job.op = "revoke" =>
           /\ job.next.state = "Revoking" /\ Newer(job.next)
           /\ job.at # "delete" => job.next.sequence = Top("identity").sequence + 1
    /\ job.at \in AtWrite /\ job.op = "forget" =>
           job.next.state = "Unpaired" /\ job.next.host = NoHost /\ Newer(job.next)
    /\ job.at \in {"begin", "close"} => intent["identity"] = 0 /\ job.next = Top("identity")
    /\ job.at = "begin" => job.next.state \in Pinning \cup {"Revoking"}
    /\ job.at = "close" => job.next.state = "Revoking"

\* A pairing works on its own copy of the identity; a revocation that failed
\* during it may have announced or written the next record, and no other did.
ContactIsFresh == contact.kind = "pair" =>
    LET c == contact.identity
        t == Top("identity")
    IN  /\ Same(c) /\ c.host \in HostKey /\ c.state \in Pinning \cup {"Unpaired"}
        /\ job.at = "begin" => t.state = "Revoking"
        /\ job.at \in AtWrite => job.op \in {"peer", "revoke"} /\ job.next.sequence = c.sequence + 1
        /\ job.at \notin {"begin", "close"} =>
               /\ stored["identity"].sequence <= c.sequence
               /\ intent["identity"] \in {0, c.sequence + 1}
               /\ \/ t.sequence = c.sequence
                  \/ t.sequence = c.sequence + 1 /\ intent["identity"] = c.sequence + 1
               /\ job.at = "rest" /\ t.sequence # c.sequence => t.state = "Revoking"

\* The copy in RAM knows what the store has revoked or forgotten.
RamIsTrue ==
    LET t == Top("identity")
    IN  /\ t = Blank => ram.peer = "Unpaired"
        /\ intent["identity"] = 0 /\ job.at # "begin" /\ t.state \in {"Unpaired", "Revoking"} =>
               ram.peer = t.state /\ ram.generation = t.generation

\* The hosts pinned so far, against the newest identity.
PinnedBefore ==
    LET t == Top("identity")
    IN  /\ t = Blank => pinned = {}
        /\ t.state \in {"Unpaired", "Revoking"} => Newer(t)
        /\ t.state \in Pinning => Same(t)

StoreInv ==
    /\ StoreTypeOK /\ SlotsAreNamed /\ NothingLost /\ IntentIsNext /\ WriteIsNext /\ JobIsSound
    /\ ContactIsFresh /\ RamIsTrue /\ PinnedBefore /\ GenerationNamesHost


-----------------------------------------------------------------------------
(* The two slots                                                           *)

\* select_slot returns the slot with the higher number, and no other record has
\* that number: numbers that differ by one lie in different slots.
LEMMA SelectsNewest ==
    ASSUME NEW s, NEW a \in FlashRecord, NEW b \in FlashRecord, Named(s, "A", a), Named(s, "B", b)
    PROVE  /\ select_slot(a, b) \in {a, b}
           /\ a.sequence <= select_slot(a, b).sequence
           /\ b.sequence <= select_slot(a, b).sequence
           /\ a.sequence = select_slot(a, b).sequence => a = select_slot(a, b)
           /\ b.sequence = select_slot(a, b).sequence => b = select_slot(a, b)
<1>1. a.sequence \in Nat /\ b.sequence \in Nat
  BY DEF FlashRecord
<1>2. Blank.sequence = 0
  BY DEF Blank, StoredRecord
<1>3. a # Blank => a.sequence > 0 /\ SlotOf(a.sequence) = "A"
  BY DEF Named
<1>4. b # Blank => b.sequence > 0 /\ SlotOf(b.sequence) = "B"
  BY DEF Named
<1>5. CASE a = Blank \/ b = Blank
  BY <1>1, <1>2, <1>3, <1>4, <1>5 DEF select_slot
<1>6. CASE a # Blank /\ b # Blank
  <2>1. a.sequence # b.sequence
    BY <1>3, <1>4, <1>6
  <2>2. select_slot(a, b) = IF a.sequence > b.sequence THEN a ELSE b
    BY <2>1, <1>1, <1>6 DEF select_slot
  <2> QED BY <2>1, <2>2, <1>1
<1> QED BY <1>5, <1>6

\* A record written in the slot its number names is the one that is read, when
\* its number is the newest one or the next.
LEMMA WrittenIsNewest ==
    ASSUME NEW s, NEW a \in FlashRecord, NEW b \in FlashRecord, NEW r \in FlashRecord,
           Named(s, "A", a), Named(s, "B", b), r.sequence > 0,
           a.sequence <= r.sequence, b.sequence <= r.sequence, r # Blank
    PROVE  /\ SlotOf(r.sequence) = "A" => select_slot(r, b) = r
           /\ SlotOf(r.sequence) = "B" => select_slot(a, r) = r
<1>1. a.sequence \in Nat /\ b.sequence \in Nat /\ r.sequence \in Nat
  BY DEF FlashRecord
<1>2. ASSUME SlotOf(r.sequence) = "A" PROVE select_slot(r, b) = r
  <2>1. CASE b = Blank
    BY <2>1 DEF select_slot
  <2>2. CASE b # Blank
    <3>1. b.sequence # r.sequence
      BY <1>2, <2>2 DEF Named
    <3>2. r.sequence > b.sequence
      BY <3>1, <1>1
    <3> QED BY <3>2, <2>2, <1>1 DEF select_slot
  <2> QED BY <2>1, <2>2
<1>3. ASSUME SlotOf(r.sequence) = "B" PROVE select_slot(a, r) = r
  <2>1. CASE a = Blank
    BY <2>1 DEF select_slot
  <2>2. CASE a # Blank
    <3>1. a.sequence # r.sequence
      BY <1>3, <2>2 DEF Named
    <3>2. a.sequence < r.sequence /\ ~(a.sequence > r.sequence)
      BY <3>1, <1>1
    <3> QED BY <3>2, <2>2 DEF select_slot
  <2> QED BY <2>1, <2>2
<1> QED BY <1>2, <1>3

\* What is read of a store with no intent in the way, and what the newest record
\* is: one of its slots, in no way older than the other.
LEMMA TopIsNewest ==
    ASSUME StoreTypeOK, SlotsAreNamed, NEW s \in RecordStore
    PROVE  /\ Top(s) \in FlashRecord /\ Top(s) # Unreadable
           /\ Top(s) = Blank \/ (Top(s).sequence > 0 /\ Top(s).state # "blank")
           /\ Top(s) # Blank => Top(s).state \in (IF s = "identity" THEN IdentityState ELSE ConfigState)
           /\ Top(s).state = "Unpaired" => Top(s).host = NoHost
           /\ \A i \in {"A", "B"} :
                  /\ slot[s][i].sequence <= Top(s).sequence
                  /\ slot[s][i].sequence = Top(s).sequence => slot[s][i] = Top(s)
           /\ intent[s] # 0 => canonical_record(s) = Unreadable
           /\ intent[s] = 0 => canonical_record(s) = Top(s)
<1> DEFINE a == slot[s]["A"]
           b == slot[s]["B"]
<1>1. a \in FlashRecord /\ b \in FlashRecord
  BY DEF StoreTypeOK
<1>2. Named(s, "A", a) /\ Named(s, "B", b)
  BY DEF SlotsAreNamed
<1>3. Top(s) = select_slot(a, b)
  BY DEF Top
<1>4. \A i \in {"A", "B"} : slot[s][i] = a \/ slot[s][i] = b
  OBVIOUS
<1>5. /\ intent[s] # 0 => canonical_record(s) = Unreadable
      /\ intent[s] = 0 => canonical_record(s) = Top(s)
  BY DEF canonical_record, Top
<1> HIDE DEF a, b
<1>6. /\ Top(s) \in {a, b} /\ a.sequence <= Top(s).sequence /\ b.sequence <= Top(s).sequence
      /\ a.sequence = Top(s).sequence => a = Top(s)
      /\ b.sequence = Top(s).sequence => b = Top(s)
  BY <1>1, <1>2, <1>3, SelectsNewest
<1>7. \A r : Named(s, "A", r) \/ Named(s, "B", r) =>
            /\ r = Blank \/ (r.sequence > 0 /\ r.state # "blank")
            /\ r # Blank => r.state \in (IF s = "identity" THEN IdentityState ELSE ConfigState)
            /\ r.state = "Unpaired" => r.host = NoHost
  BY DEF Named, IdentityState, ConfigState, Pinning, Blank, StoredRecord
<1>8. Unreadable \notin FlashRecord
  BY DEF Unreadable, StoredRecord, FlashRecord, RecordState
<1> QED BY <1>1, <1>2, <1>4, <1>5, <1>6, <1>7, <1>8

\* A step that leaves the slots alone leaves the newest record alone.
LEMMA TopStays ==
    ASSUME UNCHANGED slot, NEW s \in RecordStore
    PROVE  Top(s)' = Top(s)
BY DEF Top

\* A step that leaves the slots, the intents and the reports alone.
LEMMA Untouched ==
    ASSUME SlotsAreNamed, NothingLost, IntentIsNext, UNCHANGED <<slot, intent, stored>>
    PROVE  SlotsAreNamed' /\ NothingLost' /\ IntentIsNext'
<1>1. \A s \in RecordStore : Top(s)' = Top(s)
  BY TopStays
<1> QED BY <1>1 DEF SlotsAreNamed, NothingLost, IntentIsNext


-----------------------------------------------------------------------------
(* The worker's operations                                                 *)

\* The fields of a record, for the steps that build one.
LEMMA RecordFields ==
    ASSUME NEW n \in Nat, NEW g \in Nat, NEW st \in RecordState, NEW h \in HostKey \cup {NoHost}
    PROVE  /\ StoredRecord(n, g, st, h) \in FlashRecord
           /\ StoredRecord(n, g, st, h).sequence = n /\ StoredRecord(n, g, st, h).generation = g
           /\ StoredRecord(n, g, st, h).state = st /\ StoredRecord(n, g, st, h).host = h
BY DEF StoredRecord, FlashRecord

\* The worker at rest and out of contact.
LEMMA RestFields ==
    /\ Blank \in FlashRecord /\ Blank.sequence = 0 /\ Blank.state = "blank"
    /\ Unreadable.state = "unreadable"
    /\ Rest \in JobRecord /\ NoContact \in ContactRecord /\ NoContact.kind = "none"
    /\ Rest.at = "rest" /\ Rest.op = "none" /\ Rest.store = "identity" /\ Rest.next = Blank
<1>1. Blank \in FlashRecord /\ Blank.sequence = 0 /\ Blank.state = "blank"
  BY DEF Blank, StoredRecord, FlashRecord, RecordState
<1>2. Unreadable.state = "unreadable"
  BY DEF Unreadable, StoredRecord
<1> QED BY <1>1, <1>2 DEF Rest, NoContact, RecordStore, AtWrite, JobRecord, ContactRecord

\* A job that is about to announce a record.
Writing(j, op, s, n, g, st, h) ==
    /\ j \in JobRecord /\ j.op = op /\ j.at = "intent" /\ j.store = s
    /\ j.next.sequence = n /\ j.next.generation = g /\ j.next.state = st /\ j.next.host = h

\* publish_record starts one.
LEMMA StartsWrite ==
    ASSUME NEW op \in IdentityOp \cup ConfigOp, NEW s \in RecordStore, NEW g \in Nat,
           NEW st \in RecordState, NEW h \in HostKey \cup {NoHost}, NEW last \in Nat,
           publish_record(op, s, last, g, st, h)
    PROVE  Writing(job', op, s, last + 1, g, st, h)
<1>1. job' = [op |-> op, at |-> "intent", store |-> s, next |-> StoredRecord(last + 1, g, st, h)]
  BY DEF publish_record
<1>2. last + 1 \in Nat
  OBVIOUS
<1>3. /\ StoredRecord(last + 1, g, st, h) \in FlashRecord
      /\ StoredRecord(last + 1, g, st, h).sequence = last + 1 /\ StoredRecord(last + 1, g, st, h).generation = g
      /\ StoredRecord(last + 1, g, st, h).state = st /\ StoredRecord(last + 1, g, st, h).host = h
  BY <1>2, RecordFields
<1> QED BY <1>1, <1>3 DEF AtWrite, Writing, JobRecord

\* An operation that has started to write the record after the newest one, with
\* no intent in the way and nothing else changed: the numbers are right.
LEMMA StartKeepsNumbers ==
    ASSUME StoreInv, UNCHANGED <<slot, intent, stored>>, NEW op, NEW s \in RecordStore, NEW g, NEW st, NEW h,
           intent[s] = 0, Writing(job', op, s, Top(s).sequence + 1, g, st, h)
    PROVE  SlotsAreNamed' /\ NothingLost' /\ IntentIsNext' /\ WriteIsNext'
<1>1. SlotsAreNamed' /\ NothingLost' /\ IntentIsNext'
  BY Untouched DEF StoreInv
<1>2. Top(s) \in FlashRecord /\ Top(s)' = Top(s)
  BY TopIsNewest, TopStays DEF StoreInv
<1>3. Top(s).sequence \in Nat /\ stored[s].sequence \in Nat /\ stored[s].sequence <= Top(s).sequence
  BY <1>2 DEF StoreInv, StoreTypeOK, NothingLost, FlashRecord
<1>4. job'.next.sequence = Top(s).sequence + 1 /\ job'.store = s /\ job'.at = "intent"
  BY DEF Writing
<1>5. WriteIsNext'
  <2>1. job'.next.sequence > 0 /\ job'.next.sequence > stored[s].sequence
    BY <1>3, <1>4
  <2> QED BY <2>1, <1>2, <1>4 DEF WriteIsNext
<1> QED BY <1>1, <1>5

\* The identity is created where there was none.
LEMMA InitKeeps ==
    ASSUME StoreInv, NEW g, identity_init(g)
    PROVE  StoreInv'
<1> DEFINE t == Top("identity")
<1>1. StoreTypeOK /\ SlotsAreNamed /\ UNCHANGED <<slot, intent, ram, contact, stored, pinned>>
  BY DEF StoreInv, identity_init
<1>2. canonical_record("identity") = Blank /\ contact = NoContact /\ Blank # Unreadable
  BY DEF identity_init, Handles, Blank, Unreadable, StoredRecord
<1>3. t = Blank /\ intent["identity"] = 0 /\ \A s \in RecordStore : Top(s)' = Top(s)
  BY <1>1, <1>2, TopIsNewest, TopStays DEF RecordStore
<1>4. Writing(job', "init", "identity", Top("identity").sequence + 1, 1, "Unpaired", NoHost)
  <2>1. PICK last \in Nat : last = Top("identity").sequence /\ last = 0
    BY <1>3, RestFields
  <2>2. publish_record("init", "identity", last, 1, "Unpaired", NoHost)
    BY <2>1 DEF identity_init
  <2>3. /\ "init" \in IdentityOp \cup ConfigOp /\ "identity" \in RecordStore /\ 1 \in Nat
        /\ "Unpaired" \in RecordState /\ NoHost \in HostKey \cup {NoHost}
    BY DEF IdentityOp, RecordStore, RecordState
  <2>4. Writing(job', "init", "identity", last + 1, 1, "Unpaired", NoHost)
    BY <2>2, <2>3, StartsWrite, Zenon
  <2> QED BY <2>1, <2>4
<1>5. StoreTypeOK'
  BY <1>1, <1>4 DEF StoreTypeOK, Writing
<1>6. SlotsAreNamed' /\ NothingLost' /\ IntentIsNext' /\ WriteIsNext'
  BY <1>1, <1>3, <1>4, StartKeepsNumbers DEF RecordStore
<1>8. pinned = {} /\ ram.peer = "Unpaired"
  BY <1>3 DEF StoreInv, PinnedBefore, RamIsTrue
<1>9. JobIsSound'
  BY <1>1, <1>3, <1>4, <1>8 DEF JobIsSound, IdentityOp, Writing
<1>10. ContactIsFresh'
  BY <1>1, <1>2, RestFields DEF ContactIsFresh
<1>11. RamIsTrue'
  BY <1>1, <1>3, <1>4, <1>8, RestFields DEF RamIsTrue, RecordStore
<1>12. PinnedBefore' /\ GenerationNamesHost'
  BY <1>1, <1>3, <1>8, RestFields DEF PinnedBefore, GenerationNamesHost, RecordStore, Newer, Same, Pinning
<1> QED BY <1>5, <1>6, <1>9, <1>10, <1>11, <1>12 DEF StoreInv


\* A configuration is stored or cleared.
LEMMA ConfigKeeps ==
    ASSUME StoreInv, Handles, canonical_record("config") # Unreadable,
           NEW op \in ConfigOp, NEW g \in Nat, NEW st \in ConfigState,
           publish_record(op, "config", canonical_record("config").sequence, g, st, NoHost),
           UNCHANGED <<slot, intent, ram, contact, stored, pinned>>
    PROVE  StoreInv'
<1>1. StoreTypeOK /\ SlotsAreNamed /\ contact.kind = "none"
  BY RestFields DEF StoreInv, Handles
<1>2. intent["config"] = 0 /\ canonical_record("config") = Top("config") /\ Top("config") \in FlashRecord
  BY <1>1, TopIsNewest DEF RecordStore
<1>3. \A s \in RecordStore : Top(s)' = Top(s)
  BY TopStays
<1>4. Writing(job', op, "config", Top("config").sequence + 1, g, st, NoHost)
  <2>1. PICK last \in Nat : last = Top("config").sequence
    BY <1>2 DEF FlashRecord
  <2>2. publish_record(op, "config", last, g, st, NoHost)
    BY <1>2, <2>1
  <2>3. /\ op \in IdentityOp \cup ConfigOp /\ "config" \in RecordStore
        /\ st \in RecordState /\ NoHost \in HostKey \cup {NoHost}
    BY DEF ConfigState, RecordStore, RecordState
  <2>4. Writing(job', op, "config", last + 1, g, st, NoHost)
    BY <2>2, <2>3, StartsWrite, Zenon
  <2> QED BY <2>1, <2>4
<1>5. StoreTypeOK'
  BY <1>1, <1>4 DEF StoreTypeOK, Writing
<1>6. SlotsAreNamed' /\ NothingLost' /\ IntentIsNext' /\ WriteIsNext'
  BY <1>2, <1>4, StartKeepsNumbers DEF RecordStore
<1>7. JobIsSound'
  BY <1>4 DEF JobIsSound, ConfigOp, Writing
<1>8. ContactIsFresh'
  BY <1>1 DEF ContactIsFresh
<1>9. RamIsTrue'
  <2>1. job.at # "begin"
    BY DEF Handles, Resting
  <2> QED BY <1>3, <2>1 DEF RamIsTrue, RecordStore, StoreInv
<1>10. PinnedBefore' /\ GenerationNamesHost'
  BY <1>3 DEF PinnedBefore, GenerationNamesHost, RecordStore, Newer, Same, StoreInv
<1> QED BY <1>5, <1>6, <1>7, <1>8, <1>9, <1>10 DEF StoreInv

\* Both operations on the configuration.
LEMMA ConfigOperationsKeep ==
    ASSUME StoreInv, NEW g, wifi_provision(g) \/ clear_config(g)
    PROVE  StoreInv'
<1>1. CASE wifi_provision(g)
  <2>1. "provision" \in ConfigOp /\ "ConfigPresent" \in ConfigState /\ 1 \in Nat
    BY DEF ConfigOp, ConfigState
  <2>2. /\ Handles /\ canonical_record("config") # Unreadable
        /\ publish_record("provision", "config", canonical_record("config").sequence, 1, "ConfigPresent", NoHost)
        /\ UNCHANGED <<slot, intent, ram, contact, stored, pinned>>
    BY <1>1 DEF wifi_provision
  <2> QED BY <2>1, <2>2, ConfigKeeps, Zenon
<1>2. CASE clear_config(g)
  <2>1. "clear" \in ConfigOp /\ "ConfigCleared" \in ConfigState
    BY DEF ConfigOp, ConfigState
  <2>2. /\ Handles /\ canonical_record("config") # Unreadable
        /\ publish_record("clear", "config", canonical_record("config").sequence,
                          canonical_record("config").generation, "ConfigCleared", NoHost)
        /\ UNCHANGED <<slot, intent, ram, contact, stored, pinned>>
    BY <1>2 DEF clear_config
  <2>3. canonical_record("config").generation \in Nat
    BY <2>2, TopIsNewest DEF StoreInv, RecordStore, FlashRecord
  <2> QED BY <2>1, <2>2, <2>3, ConfigKeeps, Zenon
<1> QED BY <1>1, <1>2

\* A connection starts or ends.
LEMMA ConnectKeeps ==
    ASSUME StoreInv, NEW h \in HostKey, connect_once(h)
    PROVE  StoreInv'
<1> DEFINE t == Top("identity")
<1>1. /\ StoreTypeOK /\ SlotsAreNamed /\ job.at = "rest"
      /\ UNCHANGED <<slot, intent, ram, job, stored, pinned>>
  BY DEF StoreInv, connect_once, Handles, Resting
<1>2. canonical_record("identity") = t /\ intent["identity"] = 0 /\ t \in FlashRecord
  BY <1>1, TopIsNewest DEF connect_once, IdentityLoads, RecordStore
<1>3. \A s \in RecordStore : Top(s)' = Top(s)
  BY <1>1, TopStays
<1>4. SlotsAreNamed' /\ NothingLost' /\ IntentIsNext'
  BY <1>1, Untouched DEF StoreInv
<1>5. WriteIsNext' /\ JobIsSound'
  BY <1>1, <1>3 DEF StoreInv, WriteIsNext, JobIsSound, AtWrite
<1>6. RamIsTrue' /\ PinnedBefore' /\ GenerationNamesHost'
  BY <1>1, <1>3 DEF StoreInv, RamIsTrue, PinnedBefore, GenerationNamesHost, Newer, Same, RecordStore
<1>7. CASE t.state = "Unpaired" /\ contact' = [kind |-> "pair", identity |-> [t EXCEPT !.host = h]]
  <2> DEFINE c == [t EXCEPT !.host = h]
  <2>1. /\ c \in FlashRecord /\ c.sequence = t.sequence /\ c.generation = t.generation
        /\ c.state = "Unpaired" /\ c.host = h
    BY <1>2, <1>7 DEF FlashRecord
  <2>2. t.generation \in Nat /\ pinned \in SUBSET (Nat \X HostKey)
    BY <1>2, <1>1 DEF FlashRecord, StoreTypeOK
  <2>3. Newer(t)
    BY <1>7 DEF StoreInv, PinnedBefore
  <2>4. \A e \in pinned : e[1] <= c.generation /\ e[1] # c.generation
    BY <2>1, <2>2, <2>3 DEF Newer
  <2> HIDE DEF c
  <2>5. contact' = [kind |-> "pair", identity |-> c]
    BY <1>7 DEF c
  <2>6. Same(contact.identity)'
    BY <1>1, <2>4, <2>5 DEF Same
  <2>7. stored["identity"].sequence <= t.sequence
    BY DEF StoreInv, NothingLost, RecordStore
  <2>8. ContactIsFresh'
    BY <1>1, <1>2, <1>3, <2>1, <2>5, <2>6, <2>7 DEF ContactIsFresh, RecordStore, AtWrite
  <2>9. StoreTypeOK'
    BY <1>1, <2>1, <2>5 DEF StoreTypeOK, ContactRecord
  <2> QED BY <1>4, <1>5, <1>6, <2>8, <2>9 DEF StoreInv
<1>8. CASE contact' = [kind |-> "pinned", identity |-> t]
  <2>1. ContactIsFresh'
    BY <1>8 DEF ContactIsFresh
  <2>2. StoreTypeOK'
    BY <1>1, <1>2, <1>8 DEF StoreTypeOK, ContactRecord
  <2> QED BY <1>4, <1>5, <1>6, <2>1, <2>2 DEF StoreInv
<1> QED BY <1>2, <1>7, <1>8 DEF connect_once

\* The end of the contact with the host leaves the records as they are.
LEMMA ContactEndKeeps ==
    ASSUME StoreInv, ContactEnds
    PROVE  StoreInv'
<1>1. /\ StoreTypeOK /\ job.at = "rest" /\ contact' = NoContact
      /\ UNCHANGED <<slot, intent, ram, job, stored, pinned>>
  BY DEF StoreInv, ContactEnds, Resting
<1>2. \A s \in RecordStore : Top(s)' = Top(s)
  BY <1>1, TopStays
<1>3. SlotsAreNamed' /\ NothingLost' /\ IntentIsNext'
  BY <1>1, Untouched DEF StoreInv
<1>4. WriteIsNext' /\ JobIsSound'
  BY <1>1, <1>2 DEF StoreInv, WriteIsNext, JobIsSound, AtWrite
<1>5. RamIsTrue' /\ PinnedBefore' /\ GenerationNamesHost'
  BY <1>1, <1>2 DEF StoreInv, RamIsTrue, PinnedBefore, GenerationNamesHost, Newer, Same, RecordStore
<1>6. ContactIsFresh' /\ StoreTypeOK'
  BY <1>1, RestFields DEF ContactIsFresh, StoreTypeOK
<1> QED BY <1>3, <1>4, <1>5, <1>6 DEF StoreInv

\* The pairing publishes its next state from its own copy: a revocation that
\* failed meanwhile can only have announced or written this very number.
LEMMA PublishPeerKeeps ==
    ASSUME StoreInv, publish_peer
    PROVE  StoreInv'
<1> DEFINE t == Top("identity")
           c == contact.identity
<1>1. /\ StoreTypeOK /\ SlotsAreNamed /\ job.at = "rest" /\ contact.kind = "pair"
      /\ UNCHANGED <<slot, intent, ram, contact, stored, pinned>>
  BY DEF StoreInv, publish_peer, Resting
<1>2. c \in FlashRecord /\ c.sequence \in Nat /\ t \in FlashRecord /\ t.sequence \in Nat
      /\ stored["identity"].sequence \in Nat
  BY <1>1, TopIsNewest DEF StoreTypeOK, ContactRecord, FlashRecord, RecordStore
<1>3. \A s \in RecordStore : Top(s)' = Top(s)
  BY <1>1, TopStays
<1>4. /\ Same(c) /\ c.host \in HostKey /\ c.state \in Pinning \cup {"Unpaired"}
      /\ stored["identity"].sequence <= c.sequence
      /\ intent["identity"] \in {0, c.sequence + 1}
      /\ \/ t.sequence = c.sequence
         \/ t.sequence = c.sequence + 1 /\ intent["identity"] = c.sequence + 1
  BY <1>1 DEF StoreInv, ContactIsFresh
<1>5. NextState(c.state) \in Pinning
  BY DEF NextState, Pinning
<1>6. Writing(job', "peer", "identity", c.sequence + 1, c.generation, NextState(c.state), c.host)
  <2>1. PICK last \in Nat : last = c.sequence
    BY <1>2
  <2>2. publish_record("peer", "identity", last, c.generation, NextState(c.state), c.host)
    BY <2>1 DEF publish_peer
  <2>3. /\ "peer" \in IdentityOp \cup ConfigOp /\ "identity" \in RecordStore /\ c.generation \in Nat
        /\ NextState(c.state) \in RecordState /\ c.host \in HostKey \cup {NoHost}
    BY <1>2, <1>5 DEF IdentityOp, RecordStore, RecordState, Pinning, FlashRecord
  <2>4. Writing(job', "peer", "identity", last + 1, c.generation, NextState(c.state), c.host)
    BY <2>2, <2>3, StartsWrite, Zenon
  <2> QED BY <2>1, <2>4
<1>7. StoreTypeOK'
  BY <1>1, <1>6 DEF StoreTypeOK, Writing
<1>8. SlotsAreNamed' /\ NothingLost' /\ IntentIsNext'
  BY <1>1, Untouched DEF StoreInv
<1> HIDE DEF c
<1>9. WriteIsNext'
  <2>1. /\ job'.next.sequence = c.sequence + 1 /\ job'.store = "identity" /\ job'.at = "intent"
    BY <1>6 DEF Writing
  <2>2. c.sequence + 1 > 0 /\ c.sequence + 1 > stored["identity"].sequence
    BY <1>2, <1>4
  <2>3. c.sequence + 1 \in {t.sequence, t.sequence + 1}
    BY <1>4
  <2> QED BY <1>1, <1>3, <1>4, <2>1, <2>2, <2>3 DEF WriteIsNext, RecordStore
<1>10. JobIsSound'
  BY <1>1, <1>5, <1>6 DEF JobIsSound, IdentityOp, Writing, c
<1>11. ContactIsFresh'
  <2>1. Same(contact.identity)'
    BY <1>1, <1>4 DEF Same, c
  <2> QED BY <1>1, <1>3, <1>4, <1>6, <2>1 DEF ContactIsFresh, Writing, c, RecordStore
<1>12. RamIsTrue'
  BY <1>1, <1>3 DEF RamIsTrue, RecordStore, StoreInv
<1>13. PinnedBefore' /\ GenerationNamesHost'
  BY <1>1, <1>3 DEF PinnedBefore, GenerationNamesHost, RecordStore, Newer, Same, StoreInv
<1> QED BY <1>7, <1>8, <1>9, <1>10, <1>11, <1>12, <1>13 DEF StoreInv


\* The unpair revokes what the store holds, or goes on with a revocation.
LEMMA BeginUnpairKeeps ==
    ASSUME StoreInv, job.at \in {"rest", "begin"}, NEW h, begin_identity_unpair(h)
    PROVE  StoreInv'
<1> DEFINE t == Top("identity")
<1>1. /\ StoreTypeOK /\ SlotsAreNamed /\ UNCHANGED <<slot, intent, contact>>
      /\ canonical_record("identity").state \in {"Pending", "Committing", "Paired", "Revoking"}
  BY DEF StoreInv, begin_identity_unpair
<1>2. /\ intent["identity"] = 0 /\ canonical_record("identity") = t /\ t \in FlashRecord /\ t # Blank
      /\ t.state \in Pinning \cup {"Revoking"}
  BY <1>1, TopIsNewest, RestFields DEF RecordStore, Pinning
<1>3. \A s \in RecordStore : Top(s)' = Top(s)
  BY <1>1, TopStays
<1>4. t.sequence \in Nat /\ t.generation \in Nat /\ t.state \in RecordState /\ t.host \in HostKey \cup {NoHost}
  BY <1>2 DEF FlashRecord
<1>5. Revokes(t)
  BY <1>2 DEF begin_identity_unpair
<1>6. CASE t.state = "Revoking"
  <2>1. /\ ram' = [ram EXCEPT !.generation = t.generation, !.peer = "Revoking"]
        /\ job' = [Rest EXCEPT !.op = "forget", !.at = "close", !.next = t]
        /\ UNCHANGED <<stored, pinned>>
    BY <1>5, <1>6 DEF Revokes
  <2>2. job' \in JobRecord /\ job'.at = "close" /\ job'.next = t
    BY <2>1, <1>2, RestFields DEF JobRecord, IdentityOp
  <2>3. /\ ram' \in [generation : Nat, peer : RecordState, host : HostKey \cup {NoHost}, config : BOOLEAN]
        /\ ram'.generation = t.generation /\ ram'.peer = "Revoking"
    BY <2>1, <1>1, <1>4, <1>6 DEF StoreTypeOK
  <2>4. StoreTypeOK'
    BY <1>1, <2>1, <2>2, <2>3 DEF StoreTypeOK
  <2>5. SlotsAreNamed' /\ NothingLost' /\ IntentIsNext'
    BY <1>1, <2>1, Untouched DEF StoreInv
  <2>6. WriteIsNext' /\ JobIsSound'
    BY <1>1, <1>2, <1>3, <1>6, <2>2 DEF WriteIsNext, JobIsSound, AtWrite, RecordStore
  <2>7. ContactIsFresh'
    BY <1>1, <1>3, <2>1, <2>2 DEF StoreInv, ContactIsFresh, AtWrite, RecordStore, Same
  <2>8. RamIsTrue'
    BY <1>2, <1>3, <1>6, <2>3 DEF RamIsTrue, RecordStore
  <2>9. PinnedBefore' /\ GenerationNamesHost'
    BY <1>3, <2>1 DEF PinnedBefore, GenerationNamesHost, RecordStore, Newer, Same, StoreInv
  <2> QED BY <2>4, <2>5, <2>6, <2>7, <2>8, <2>9 DEF StoreInv
<1>7. CASE t.state # "Revoking"
  <2>1. /\ publish_record("revoke", "identity", t.sequence, t.generation + 1, "Revoking", t.host)
        /\ UNCHANGED <<ram, stored, pinned>>
    BY <1>5, <1>7 DEF Revokes
  <2>2. Writing(job', "revoke", "identity", t.sequence + 1, t.generation + 1, "Revoking", t.host)
    <3>1. PICK last \in Nat : last = t.sequence
      BY <1>4
    <3>2. PICK g \in Nat : g = t.generation + 1
      BY <1>4
    <3>3. publish_record("revoke", "identity", last, g, "Revoking", t.host)
      BY <2>1, <3>1, <3>2
    <3>4. "revoke" \in IdentityOp \cup ConfigOp /\ "identity" \in RecordStore /\ "Revoking" \in RecordState
      BY DEF IdentityOp, RecordStore, RecordState
    <3>5. Writing(job', "revoke", "identity", last + 1, g, "Revoking", t.host)
      BY <1>4, <3>3, <3>4, StartsWrite, Zenon
    <3> QED BY <3>1, <3>2, <3>5
  <2>3. StoreTypeOK'
    BY <1>1, <2>1, <2>2 DEF StoreTypeOK, Writing
  <2>4. SlotsAreNamed' /\ NothingLost' /\ IntentIsNext' /\ WriteIsNext'
    BY <1>1, <1>2, <2>1, <2>2, StartKeepsNumbers DEF RecordStore
  <2>5. Same(t) /\ pinned \in SUBSET (Nat \X HostKey)
    BY <1>1, <1>2, <1>7 DEF StoreInv, PinnedBefore, StoreTypeOK
  <2>6. \A e \in pinned : e[1] < t.generation + 1
    BY <1>4, <2>5 DEF Same
  <2>7. Newer(job.next)'
    BY <2>1, <2>2, <2>6 DEF Newer, Writing
  <2>8. JobIsSound'
    BY <1>1, <1>3, <2>1, <2>2, <2>7 DEF JobIsSound, Writing, IdentityOp, RecordStore
  <2>9. ContactIsFresh'
    <3>1. CASE contact.kind # "pair"
      BY <1>1, <3>1 DEF ContactIsFresh
    <3>2. CASE contact.kind = "pair"
      <4>1. job.at = "rest"
        BY <1>7, <3>2 DEF StoreInv, ContactIsFresh
      <4>2. t.sequence = contact.identity.sequence
        <5>1. contact.identity.sequence + 1 # 0
          BY <1>1 DEF StoreTypeOK, ContactRecord, FlashRecord
        <5> QED BY <1>2, <3>2, <4>1, <5>1 DEF StoreInv, ContactIsFresh
      <4>3. Same(contact.identity)'
        BY <1>1, <2>1, <3>2 DEF StoreInv, ContactIsFresh, Same
      <4> QED BY <1>1, <1>2, <1>3, <2>1, <2>2, <3>2, <4>1, <4>2, <4>3
              DEF StoreInv, ContactIsFresh, Writing, RecordStore
    <3> QED BY <3>1, <3>2
  <2>10. RamIsTrue'
    BY <1>2, <1>3, <1>7 DEF RamIsTrue, RecordStore, Pinning
  <2>11. PinnedBefore' /\ GenerationNamesHost'
    BY <1>3, <2>1 DEF PinnedBefore, GenerationNamesHost, RecordStore, Newer, Same, StoreInv
  <2> QED BY <2>3, <2>4, <2>8, <2>9, <2>10, <2>11 DEF StoreInv
<1> QED BY <1>6, <1>7

\* The intent of an interrupted unpair or pairing is cleared: what it announced
\* is the newest record.
LEMMA RecoverKeeps ==
    ASSUME StoreInv, Resting, NEW h \in HostKey, recover_identity_intent(h)
    PROVE  StoreInv'
<1> DEFINE t == Top("identity")
           n == intent["identity"]
<1>1. /\ StoreTypeOK /\ SlotsAreNamed /\ job.at = "rest" /\ n # 0 /\ Recovers(h)
      /\ intent' = [intent EXCEPT !["identity"] = 0] /\ UNCHANGED <<slot, contact, stored, pinned>>
  BY DEF StoreInv, Resting, recover_identity_intent
<1>2. /\ t \in FlashRecord /\ t.sequence \in Nat /\ n \in Nat /\ t.generation \in Nat
      /\ t.state \in RecordState /\ t.host \in HostKey \cup {NoHost}
  BY <1>1, TopIsNewest DEF StoreTypeOK, FlashRecord, RecordStore
<1>3. \A s \in RecordStore : Top(s)' = Top(s)
  BY <1>1, TopStays
<1>4. Announced = t /\ t.sequence = n
  <2>1. SlotOf(n) \in {"A", "B"}
    BY DEF SlotOf
  <2>2. Announced.sequence = n /\ Announced = slot["identity"][SlotOf(n)]
    BY <1>1 DEF Announced, Recovers
  <2>3. Announced.sequence <= t.sequence /\ (Announced.sequence = t.sequence => Announced = t)
    BY <1>1, <2>1, <2>2, TopIsNewest DEF RecordStore
  <2>4. n \in {t.sequence, t.sequence + 1}
    BY <1>1 DEF StoreInv, IntentIsNext, RecordStore
  <2>5. n = t.sequence
    BY <1>2, <2>2, <2>3, <2>4
  <2> QED BY <2>2, <2>3, <2>5
<1>5. t # Blank /\ t.state \in IdentityState /\ (t.state = "Unpaired" => t.host = NoHost)
  BY <1>1, <1>4, TopIsNewest, RestFields DEF RecordStore
<1>6. intent' \in [RecordStore -> Nat] /\ intent'["identity"] = 0
      /\ \A s \in RecordStore : intent'[s] # 0 => intent'[s] = intent[s]
  BY <1>1 DEF StoreTypeOK, RecordStore
<1>7. SlotsAreNamed' /\ NothingLost'
  BY <1>1, <1>3 DEF StoreInv, SlotsAreNamed, NothingLost
<1>8. IntentIsNext'
  BY <1>1, <1>3, <1>6 DEF StoreInv, IntentIsNext
<1>9. contact.kind = "pair" => t.state = "Revoking"
  <2>1. SUFFICES ASSUME contact.kind = "pair" PROVE t.state = "Revoking"
    OBVIOUS
  <2>2. contact.identity.sequence \in Nat
    BY <1>1 DEF StoreTypeOK, ContactRecord, FlashRecord
  <2>3. n = contact.identity.sequence + 1
    BY <1>1, <2>1 DEF StoreInv, ContactIsFresh
  <2>4. t.sequence # contact.identity.sequence
    BY <1>4, <2>2, <2>3
  <2> QED BY <1>1, <2>1, <2>4 DEF StoreInv, ContactIsFresh
<1>10. PinnedBefore' /\ GenerationNamesHost'
  BY <1>1, <1>3 DEF PinnedBefore, GenerationNamesHost, RecordStore, Newer, Same, StoreInv
<1>11. CASE Completed(h)
  <2>1. /\ job' = Rest
        /\ ram' = [ram EXCEPT !.generation = t.generation, !.peer = "Unpaired", !.host = NoHost]
    BY <1>4, <1>11 DEF recover_identity_intent
  <2>2. t.state = "Unpaired"
    BY <1>4, <1>11 DEF Completed
  <2>3. /\ ram' \in [generation : Nat, peer : RecordState, host : HostKey \cup {NoHost}, config : BOOLEAN]
        /\ ram'.generation = t.generation /\ ram'.peer = "Unpaired"
    BY <2>1, <2>2, <1>1, <1>2 DEF StoreTypeOK
  <2>4. StoreTypeOK'
    BY <1>1, <1>6, <2>1, <2>3, RestFields DEF StoreTypeOK
  <2>5. WriteIsNext' /\ JobIsSound'
    BY <2>1, RestFields DEF WriteIsNext, JobIsSound, AtWrite
  <2>6. ContactIsFresh'
    BY <1>1, <1>9, <2>2 DEF ContactIsFresh
  <2>7. RamIsTrue'
    BY <1>3, <1>5, <2>2, <2>3 DEF RamIsTrue, RecordStore
  <2> QED BY <1>7, <1>8, <1>10, <2>4, <2>5, <2>6, <2>7 DEF StoreInv
<1>12. CASE ~Completed(h)
  <2>1. job' = [Rest EXCEPT !.op = "revoke", !.at = "begin", !.next = t] /\ UNCHANGED ram
    BY <1>4, <1>12 DEF recover_identity_intent
  <2>2. t.host = h
    BY <1>1, <1>4, <1>12 DEF Recovers
  <2>3. t.state \in Pinning \cup {"Revoking"}
    BY <1>5, <2>2, HostKeyAssumption DEF IdentityState
  <2>4. job' \in JobRecord /\ job'.at = "begin" /\ job'.next = t
    BY <2>1, <1>2, RestFields DEF JobRecord, IdentityOp
  <2>5. StoreTypeOK'
    BY <1>1, <1>6, <2>1, <2>4 DEF StoreTypeOK
  <2>6. WriteIsNext' /\ JobIsSound'
    BY <1>3, <1>6, <2>3, <2>4 DEF WriteIsNext, JobIsSound, AtWrite, RecordStore
  <2>7. ContactIsFresh'
    <3>1. contact.kind = "pair" => Same(contact.identity)'
      BY <1>1 DEF StoreInv, ContactIsFresh, Same
    <3> QED BY <1>1, <1>3, <1>9, <2>4, <3>1 DEF StoreInv, ContactIsFresh, AtWrite, RecordStore
  <2>8. RamIsTrue'
    BY <1>3, <1>5, <2>4 DEF RamIsTrue, RecordStore
  <2> QED BY <1>7, <1>8, <1>10, <2>5, <2>6, <2>7, <2>8 DEF StoreInv
<1> QED BY <1>11, <1>12

\* The unpair goes on after a recovery.
LEMMA GoesOnKeeps ==
    ASSUME StoreInv, UnpairGoesOn
    PROVE  StoreInv'
<1>1. CASE begin_identity_unpair(job.next.host)
  BY <1>1, BeginUnpairKeeps DEF UnpairGoesOn
<1>2. CASE /\ job.next.state # "Revoking" /\ job' = Rest
           /\ UNCHANGED <<slot, intent, ram, contact, stored, pinned>>
  <2>1. job.at = "begin" /\ job.next = Top("identity")
    BY DEF UnpairGoesOn, StoreInv, JobIsSound
  <2>2. Top("identity").state \in Pinning /\ contact.kind # "pair" /\ Top("identity") # Blank
    BY <1>2, <2>1, RestFields DEF StoreInv, JobIsSound, ContactIsFresh, Pinning
  <2>3. \A s \in RecordStore : Top(s)' = Top(s)
    BY <1>2, TopStays
  <2>4. StoreTypeOK'
    BY <1>2, RestFields DEF StoreInv, StoreTypeOK
  <2>5. SlotsAreNamed' /\ NothingLost' /\ IntentIsNext'
    BY <1>2, Untouched DEF StoreInv
  <2>6. WriteIsNext' /\ JobIsSound'
    BY <1>2, RestFields DEF WriteIsNext, JobIsSound, AtWrite
  <2>7. ContactIsFresh' /\ RamIsTrue'
    BY <1>2, <2>2, <2>3 DEF ContactIsFresh, RamIsTrue, RecordStore, Pinning
  <2>8. PinnedBefore' /\ GenerationNamesHost'
    BY <1>2, <2>3 DEF PinnedBefore, GenerationNamesHost, RecordStore, Newer, Same, StoreInv
  <2> QED BY <2>4, <2>5, <2>6, <2>7, <2>8 DEF StoreInv
<1> QED BY <1>1, <1>2 DEF UnpairGoesOn

\* The host is forgotten once its session is closed.
LEMMA FinishKeeps ==
    ASSUME StoreInv, finish_identity_unpair
    PROVE  StoreInv'
<1> DEFINE t == Top("identity")
<1>1. /\ StoreTypeOK /\ SlotsAreNamed /\ job.at = "close" /\ contact' = NoContact
      /\ UNCHANGED <<slot, intent, ram, stored, pinned>>
  BY DEF StoreInv, finish_identity_unpair
<1>2. intent["identity"] = 0 /\ job.next = t /\ t.state = "Revoking" /\ t \in FlashRecord
  BY <1>1, TopIsNewest DEF StoreInv, JobIsSound, RecordStore
<1>3. \A s \in RecordStore : Top(s)' = Top(s)
  BY <1>1, TopStays
<1>4. Writing(job', "forget", "identity", t.sequence + 1, t.generation, "Unpaired", NoHost)
  <2>1. PICK last \in Nat : last = t.sequence
    BY <1>2 DEF FlashRecord
  <2>2. publish_record("forget", "identity", last, t.generation, "Unpaired", NoHost)
    BY <1>2, <2>1 DEF finish_identity_unpair
  <2>3. /\ "forget" \in IdentityOp \cup ConfigOp /\ "identity" \in RecordStore /\ t.generation \in Nat
        /\ "Unpaired" \in RecordState /\ NoHost \in HostKey \cup {NoHost}
    BY <1>2 DEF IdentityOp, RecordStore, RecordState, FlashRecord
  <2>4. Writing(job', "forget", "identity", last + 1, t.generation, "Unpaired", NoHost)
    BY <2>2, <2>3, StartsWrite, Zenon
  <2> QED BY <2>1, <2>4
<1>5. StoreTypeOK'
  BY <1>1, <1>4, RestFields DEF StoreTypeOK, Writing
<1>6. SlotsAreNamed' /\ NothingLost' /\ IntentIsNext' /\ WriteIsNext'
  BY <1>1, <1>2, <1>4, StartKeepsNumbers DEF RecordStore
<1>7. Newer(job.next)'
  BY <1>1, <1>2, <1>4 DEF StoreInv, PinnedBefore, Newer, Writing
<1>8. JobIsSound'
  BY <1>4, <1>7 DEF JobIsSound, Writing, IdentityOp
<1>9. ContactIsFresh'
  BY <1>1, RestFields DEF ContactIsFresh
<1>10. RamIsTrue'
  BY <1>1, <1>2, <1>3 DEF StoreInv, RamIsTrue, RecordStore
<1>11. PinnedBefore' /\ GenerationNamesHost'
  BY <1>1, <1>3 DEF PinnedBefore, GenerationNamesHost, RecordStore, Newer, Same, StoreInv
<1> QED BY <1>5, <1>6, <1>8, <1>9, <1>10, <1>11 DEF StoreInv


-----------------------------------------------------------------------------
(* The writes                                                              *)

\* What is being written is a record of its store.
LEMMA NextIsNamed ==
    ASSUME StoreInv, job.at \in AtWrite
    PROVE  /\ job.next \in FlashRecord /\ job.next.sequence \in Nat /\ job.next.sequence > 0
           /\ Named(job.store, SlotOf(job.next.sequence), job.next) /\ job.next # Blank
           /\ SlotOf(job.next.sequence) \in {"A", "B"} /\ job.store \in RecordStore
           /\ job.next.state \in {"Unpaired", "Revoking"} => Newer(job.next)
           /\ job.next.state \in Pinning => job.op = "peer"
<1>1. /\ job.next \in FlashRecord /\ job.next.sequence \in Nat /\ job.next.sequence > 0
      /\ job.store \in RecordStore
  BY DEF StoreInv, StoreTypeOK, WriteIsNext, JobRecord, FlashRecord
<1>2. SlotOf(job.next.sequence) \in {"A", "B"} /\ job.next # Blank
  BY <1>1, RestFields DEF SlotOf
<1>3. CASE job.store = "config"
  <2>1. job.next.state \in ConfigState
    BY <1>3 DEF StoreInv, JobIsSound
  <2> QED BY <1>1, <1>2, <1>3, <2>1 DEF Named, ConfigState, Pinning
<1>4. CASE job.store = "identity"
  <2>1. job.op \in IdentityOp
    BY <1>4 DEF StoreInv, JobIsSound
  <2>2. /\ job.op \in {"init", "forget"} =>
               job.next.state = "Unpaired" /\ job.next.host = NoHost /\ Newer(job.next)
        /\ job.op = "peer" => job.next.state \in Pinning
        /\ job.op = "revoke" => job.next.state = "Revoking" /\ Newer(job.next)
    BY DEF StoreInv, JobIsSound, Newer
  <2> QED BY <1>1, <1>2, <1>4, <2>1, <2>2 DEF Named, IdentityState, Pinning, IdentityOp
<1> QED BY <1>1, <1>3, <1>4 DEF RecordStore

\* The record written is the newest of its store.
LEMMA SlotWritten ==
    ASSUME StoreInv, job.at = "record", UNCHANGED <<intent, stored>>,
           NEW d, NEW r, d = job.store, r = job.next,
           slot' = [slot EXCEPT ![d][SlotOf(r.sequence)] = r]
    PROVE  /\ slot' \in [RecordStore -> [{"A", "B"} -> FlashRecord]]
           /\ Top(d)' = r
           /\ \A s \in RecordStore : s # d => Top(s)' = Top(s)
           /\ SlotsAreNamed' /\ NothingLost' /\ IntentIsNext'
<1> DEFINE i == SlotOf(r.sequence)
           a == slot[d]["A"]
           b == slot[d]["B"]
<1>1. /\ r \in FlashRecord /\ r.sequence \in Nat /\ r.sequence > 0 /\ Named(d, i, r) /\ r # Blank
      /\ i \in {"A", "B"} /\ d \in RecordStore
  BY NextIsNamed DEF AtWrite
<1>2. slot \in [RecordStore -> [{"A", "B"} -> FlashRecord]] /\ StoreTypeOK /\ SlotsAreNamed
  BY DEF StoreInv, StoreTypeOK
<1>3. /\ r.sequence \in {Top(d).sequence, Top(d).sequence + 1} /\ r.sequence > stored[d].sequence
      /\ intent[d] = r.sequence /\ Top(d).sequence \in Nat
  BY <1>1, <1>2, TopIsNewest DEF StoreInv, WriteIsNext, AtWrite, FlashRecord
<1>4. /\ a \in FlashRecord /\ b \in FlashRecord /\ Named(d, "A", a) /\ Named(d, "B", b)
      /\ a.sequence <= r.sequence /\ b.sequence <= r.sequence
  <2>1. a \in FlashRecord /\ b \in FlashRecord /\ Named(d, "A", a) /\ Named(d, "B", b)
    BY <1>1, <1>2 DEF SlotsAreNamed
  <2>2. a.sequence <= Top(d).sequence /\ b.sequence <= Top(d).sequence
    BY <1>1, <1>2, TopIsNewest
  <2>3. a.sequence \in Nat /\ b.sequence \in Nat
    BY <2>1 DEF FlashRecord
  <2> QED BY <1>1, <1>3, <2>1, <2>2, <2>3
<1>5. /\ i = "A" => select_slot(r, b) = r
      /\ i = "B" => select_slot(a, r) = r
  BY <1>1, <1>4, WrittenIsNewest
<1> HIDE DEF i
<1>6. slot' = [slot EXCEPT ![d] = [slot[d] EXCEPT ![i] = r]]
  BY <1>1, <1>2 DEF i
<1>7. slot' \in [RecordStore -> [{"A", "B"} -> FlashRecord]]
  <2>1. [slot[d] EXCEPT ![i] = r] \in [{"A", "B"} -> FlashRecord]
    BY <1>1, <1>2
  <2> QED BY <1>1, <1>2, <1>6, <2>1
<1>8. \A s \in RecordStore : s # d => slot'[s] = slot[s]
  BY <1>2, <1>6
<1>9. \A k \in {"A", "B"} : slot'[d][k] = IF k = i THEN r ELSE slot[d][k]
  BY <1>1, <1>2, <1>6
<1>10. select_slot(slot'[d]["A"], slot'[d]["B"]) = r
  BY <1>1, <1>5, <1>9
<1>11. Top(d)' = r
  BY <1>10 DEF Top
<1>12. \A s \in RecordStore : s # d => Top(s)' = Top(s)
  BY <1>8 DEF Top
<1>13. SlotsAreNamed'
  BY <1>1, <1>2, <1>8, <1>9 DEF SlotsAreNamed
<1>14. NothingLost'
  <2>1. \A s \in RecordStore : s # d => stored'[s].sequence <= Top(s)'.sequence
            /\ (stored'[s].sequence = Top(s)'.sequence => stored'[s] = Top(s)')
    BY <1>12 DEF StoreInv, NothingLost
  <2>2. stored'[d].sequence < r.sequence /\ stored'[d].sequence \in Nat
    BY <1>1, <1>2, <1>3 DEF StoreTypeOK, FlashRecord
  <2>3. stored'[d].sequence <= Top(d)'.sequence /\ stored'[d].sequence # Top(d)'.sequence
    BY <1>1, <1>11, <2>2
  <2> QED BY <1>1, <2>1, <2>3 DEF NothingLost
<1>15. IntentIsNext'
  <2>1. intent'[d] = r.sequence /\ intent'[d] > stored'[d].sequence
    BY <1>3
  <2>2. \A s \in RecordStore : s # d /\ intent'[s] # 0 =>
            intent'[s] \in {Top(s)'.sequence, Top(s)'.sequence + 1} /\ intent'[s] > stored'[s].sequence
    BY <1>12 DEF StoreInv, IntentIsNext
  <2> QED BY <1>11, <2>1, <2>2 DEF IntentIsNext
<1> QED BY <1>7, <1>11, <1>12, <1>13, <1>14, <1>15

\* The intent written announces the record about to be written.
LEMMA IntentWritten ==
    ASSUME StoreInv, job.at = "intent", UNCHANGED <<slot, stored>>,
           intent' = [intent EXCEPT ![job.store] = job.next.sequence]
    PROVE  /\ intent' \in [RecordStore -> Nat]
           /\ intent'[job.store] = job.next.sequence
           /\ \A s \in RecordStore : s # job.store => intent'[s] = intent[s]
           /\ SlotsAreNamed' /\ NothingLost' /\ IntentIsNext'
<1>1. job.next.sequence \in Nat /\ job.store \in RecordStore
  BY NextIsNamed DEF AtWrite
<1>2. /\ intent' \in [RecordStore -> Nat] /\ intent'[job.store] = job.next.sequence
      /\ \A s \in RecordStore : s # job.store => intent'[s] = intent[s]
  BY <1>1 DEF StoreInv, StoreTypeOK
<1>3. \A s \in RecordStore : Top(s)' = Top(s)
  BY TopStays
<1>4. SlotsAreNamed' /\ NothingLost'
  BY <1>3 DEF StoreInv, SlotsAreNamed, NothingLost
<1>5. /\ job.next.sequence \in {Top(job.store).sequence, Top(job.store).sequence + 1}
      /\ job.next.sequence > stored[job.store].sequence
  BY DEF StoreInv, WriteIsNext, AtWrite
<1>6. IntentIsNext'
  BY <1>1, <1>2, <1>3, <1>5 DEF StoreInv, IntentIsNext
<1> QED BY <1>2, <1>4, <1>6

\* The worker is in a pairing only while it writes the pairing's own record or
\* the revocation that interrupts it, and then both have the same number.
LEMMA PairingWrites ==
    ASSUME StoreInv, job.at \in AtWrite, contact.kind = "pair"
    PROVE  /\ job.store = "identity" /\ job.op \in {"peer", "revoke"}
           /\ job.next.sequence = contact.identity.sequence + 1
           /\ contact.identity.sequence \in Nat
<1>1. job.op \in {"peer", "revoke"} /\ job.next.sequence = contact.identity.sequence + 1
  BY DEF StoreInv, ContactIsFresh
<1>2. job.store = "identity"
  BY <1>1 DEF StoreInv, StoreTypeOK, JobRecord, RecordStore, JobIsSound, ConfigOp
<1> QED BY <1>1, <1>2 DEF StoreInv, StoreTypeOK, ContactRecord, FlashRecord

\* The intent is written.
LEMMA WriteIntentKeeps ==
    ASSUME StoreInv, WriteIntent
    PROVE  StoreInv'
<1>1. /\ job.at = "intent" /\ intent' = [intent EXCEPT ![job.store] = job.next.sequence]
      /\ job' = [job EXCEPT !.at = "record"] /\ UNCHANGED <<slot, ram, contact, stored, pinned>>
  BY DEF WriteIntent
<1>2. /\ intent' \in [RecordStore -> Nat] /\ intent'[job.store] = job.next.sequence
      /\ \A s \in RecordStore : s # job.store => intent'[s] = intent[s]
      /\ SlotsAreNamed' /\ NothingLost' /\ IntentIsNext'
  BY <1>1, IntentWritten
<1>3. \A s \in RecordStore : Top(s)' = Top(s)
  BY <1>1, TopStays
<1>4. /\ job' \in JobRecord /\ job'.op = job.op /\ job'.at = "record" /\ job'.store = job.store
      /\ job'.next = job.next /\ job.store \in RecordStore
  BY <1>1 DEF StoreInv, StoreTypeOK, JobRecord, AtWrite
<1>5. StoreTypeOK'
  BY <1>1, <1>2, <1>4 DEF StoreInv, StoreTypeOK
<1>6. WriteIsNext'
  BY <1>1, <1>2, <1>3, <1>4 DEF StoreInv, WriteIsNext, AtWrite
<1>7. JobIsSound'
  BY <1>1, <1>3, <1>4 DEF StoreInv, JobIsSound, AtWrite, Newer, RecordStore
<1>8. ContactIsFresh'
  <2>1. CASE contact.kind # "pair"
    BY <1>1, <2>1 DEF ContactIsFresh
  <2>2. CASE contact.kind = "pair"
    <3>1. /\ job.store = "identity" /\ job.op \in {"peer", "revoke"}
          /\ job.next.sequence = contact.identity.sequence + 1
      BY <1>1, <2>2, PairingWrites DEF AtWrite
    <3>2. intent'["identity"] = contact.identity.sequence + 1
      BY <1>2, <3>1
    <3>3. Same(contact.identity)'
      BY <1>1, <2>2 DEF StoreInv, ContactIsFresh, Same
    <3> QED BY <1>1, <1>3, <1>4, <2>2, <3>1, <3>2, <3>3 DEF StoreInv, ContactIsFresh, AtWrite, RecordStore
  <2> QED BY <2>1, <2>2
<1>9. RamIsTrue'
  <2>1. job.store = "identity" => intent'["identity"] # 0
    BY <1>1, <1>2, NextIsNamed DEF AtWrite
  <2>2. job.store # "identity" => intent'["identity"] = intent["identity"]
    BY <1>2 DEF RecordStore
  <2> QED BY <1>1, <1>3, <1>4, <2>1, <2>2 DEF StoreInv, RamIsTrue, RecordStore
<1>10. PinnedBefore' /\ GenerationNamesHost'
  BY <1>1, <1>3 DEF PinnedBefore, GenerationNamesHost, RecordStore, Newer, Same, StoreInv
<1> QED BY <1>2, <1>5, <1>6, <1>7, <1>8, <1>9, <1>10 DEF StoreInv


\* The record is written, by a write that is reported or by one whose read-back
\* failed: whoever was pinned before, the newest identity agrees with it.
LEMMA WrittenAgrees ==
    ASSUME StoreInv, job.at = "record", NEW d, NEW r, d = job.store, r = job.next,
           Top(d)' = r, \A s \in RecordStore : s # d => Top(s)' = Top(s),
           \/ pinned' = pinned
           \/ r.state = "Paired" /\ pinned' = pinned \cup {<<r.generation, r.host>>}
    PROVE  /\ pinned' \in SUBSET (Nat \X HostKey) /\ PinnedBefore' /\ GenerationNamesHost'
           /\ contact.kind = "pair" => \A e \in pinned' :
                  e[1] <= contact.identity.generation
                  /\ (e[1] = contact.identity.generation => e[2] = contact.identity.host)
           /\ r.state # "Paired" => pinned' = pinned
<1>1. /\ r \in FlashRecord /\ r # Blank /\ d \in RecordStore /\ r.generation \in Nat
      /\ r.state \in {"Unpaired", "Revoking"} => Newer(r)
      /\ r.state \in Pinning => job.op = "peer"
  BY NextIsNamed DEF AtWrite, FlashRecord
<1>2. pinned \in SUBSET (Nat \X HostKey)
  BY DEF StoreInv, StoreTypeOK
<1>3. r.state \in Pinning => /\ contact.kind = "pair" /\ r.generation = contact.identity.generation
                             /\ r.host = contact.identity.host /\ r.host \in HostKey
  BY <1>1 DEF StoreInv, JobIsSound, ContactIsFresh, AtWrite
<1>4. contact.kind = "pair" => \A e \in pinned :
          e[1] <= contact.identity.generation
          /\ (e[1] = contact.identity.generation => e[2] = contact.identity.host)
  BY DEF StoreInv, ContactIsFresh, Same
<1>5. r.state \in Pinning => \A e \in pinned : e[1] <= r.generation /\ (e[1] = r.generation => e[2] = r.host)
  BY <1>3, <1>4
<1>6. CASE pinned' = pinned
  <2>1. CASE d = "identity"
    <3>1. Top("identity")' = r
      BY <2>1
    <3>2. PinnedBefore'
      BY <1>1, <1>5, <1>6, <3>1, RestFields DEF PinnedBefore, Newer, Same
    <3> QED BY <1>2, <1>4, <1>6, <3>2 DEF StoreInv, GenerationNamesHost
  <2>2. CASE d # "identity"
    <3>1. Top("identity")' = Top("identity")
      BY <2>2 DEF RecordStore
    <3>2. PinnedBefore'
      BY <1>6, <3>1 DEF StoreInv, PinnedBefore, Newer, Same
    <3> QED BY <1>2, <1>4, <1>6, <3>2 DEF StoreInv, GenerationNamesHost
  <2> QED BY <2>1, <2>2
<1>7. CASE r.state = "Paired" /\ pinned' = pinned \cup {<<r.generation, r.host>>}
  <2>1. "Paired" \in Pinning
    BY DEF Pinning
  <2>2. d = "identity"
    BY <1>1, <1>7, <2>1 DEF StoreInv, StoreTypeOK, JobRecord, RecordStore, JobIsSound, ConfigOp, AtWrite
  <2>3. Top("identity")' = r
    BY <2>2
  <2>4. \A e \in pinned' : e[1] <= r.generation /\ (e[1] = r.generation => e[2] = r.host)
    BY <1>1, <1>5, <1>7, <2>1
  <2>5. PinnedBefore'
    BY <1>1, <1>7, <2>3, <2>4 DEF PinnedBefore, Same
  <2>6. GenerationNamesHost'
    <3>1. \A e \in pinned : e[1] = r.generation => e[2] = r.host
      BY <1>5, <1>7, <2>1
    <3> QED BY <1>7, <3>1 DEF StoreInv, GenerationNamesHost
  <2>7. pinned' \in SUBSET (Nat \X HostKey)
    BY <1>1, <1>2, <1>3, <1>7, <2>1
  <2> QED BY <1>3, <1>7, <2>1, <2>4, <2>5, <2>6, <2>7
<1> QED BY <1>6, <1>7

\* One record written by the job keeps the invariant.
LEMMA WriteRecordKeeps ==
    ASSUME StoreInv, WriteRecord
    PROVE  StoreInv'
<1>1. PICK d, r : d = job.store /\ r = job.next
  OBVIOUS
<1>2. /\ job.at = "record" /\ slot' = [slot EXCEPT ![d][SlotOf(r.sequence)] = r]
      /\ job' = [job EXCEPT !.at = "delete"] /\ UNCHANGED <<intent, ram, contact, stored>>
      /\ pinned' = IF r.state = "Paired" THEN pinned \cup {<<r.generation, r.host>>} ELSE pinned
  BY <1>1 DEF WriteRecord
<1>3. /\ slot' \in [RecordStore -> [{"A", "B"} -> FlashRecord]]
      /\ Top(d)' = r /\ \A s \in RecordStore : s # d => Top(s)' = Top(s)
      /\ SlotsAreNamed' /\ NothingLost' /\ IntentIsNext'
  BY <1>1, <1>2, SlotWritten
<1>4. /\ pinned' \in SUBSET (Nat \X HostKey) /\ PinnedBefore' /\ GenerationNamesHost'
      /\ contact.kind = "pair" => \A e \in pinned' :
             e[1] <= contact.identity.generation
             /\ (e[1] = contact.identity.generation => e[2] = contact.identity.host)
      /\ r.state # "Paired" => pinned' = pinned
  <2>1. \/ pinned' = pinned
        \/ r.state = "Paired" /\ pinned' = pinned \cup {<<r.generation, r.host>>}
    BY <1>2
  <2> QED BY <1>1, <1>2, <1>3, <2>1, WrittenAgrees
<1>5. /\ job' \in JobRecord /\ job'.op = job.op /\ job'.at = "delete" /\ job'.store = d
      /\ job'.next = r /\ d \in RecordStore /\ job'.at \in AtWrite
  BY <1>1, <1>2 DEF StoreInv, StoreTypeOK, JobRecord, AtWrite
<1>6. StoreTypeOK'
  BY <1>2, <1>3, <1>4, <1>5 DEF StoreInv, StoreTypeOK
<1>7. WriteIsNext'
  <2>1. r.sequence > 0 /\ r.sequence > stored[d].sequence /\ intent[d] = r.sequence
    BY <1>1, <1>2 DEF StoreInv, WriteIsNext, AtWrite
  <2>2. Top(job.store)' = r
    BY <1>3, <1>5
  <2> QED BY <1>2, <1>5, <2>1, <2>2 DEF WriteIsNext
<1>8. JobIsSound'
  <2>1. job.op # "peer" => pinned' = pinned
    BY <1>1, <1>2, <1>4, NextIsNamed DEF AtWrite, Pinning
  <2> QED BY <1>1, <1>2, <1>5, <2>1 DEF StoreInv, JobIsSound, AtWrite, Newer
<1>9. ContactIsFresh'
  <2>1. CASE contact.kind # "pair"
    BY <1>2, <2>1 DEF ContactIsFresh
  <2>2. CASE contact.kind = "pair"
    <3>1. /\ d = "identity" /\ job.op \in {"peer", "revoke"} /\ r.sequence = contact.identity.sequence + 1
          /\ contact.identity.sequence \in Nat
      BY <1>1, <1>2, <2>2, PairingWrites DEF AtWrite
    <3>2. intent["identity"] = contact.identity.sequence + 1
      BY <1>1, <1>2, <3>1 DEF StoreInv, WriteIsNext, AtWrite
    <3>3. Same(contact.identity)'
      BY <1>2, <1>4, <2>2 DEF Same
    <3> QED BY <1>1, <1>2, <1>3, <1>5, <2>2, <3>1, <3>2, <3>3 DEF StoreInv, ContactIsFresh, AtWrite
  <2> QED BY <2>1, <2>2
<1>10. RamIsTrue'
  <2>1. CASE d = "identity"
    <3>1. intent'["identity"] # 0 /\ Top("identity")' = r /\ r # Blank
      BY <1>1, <1>2, <1>3, <2>1, NextIsNamed DEF StoreInv, WriteIsNext, AtWrite
    <3> QED BY <3>1 DEF RamIsTrue
  <2>2. CASE d # "identity"
    BY <1>2, <1>3, <1>5, <2>2 DEF StoreInv, RamIsTrue, RecordStore
  <2> QED BY <2>1, <2>2
<1> QED BY <1>3, <1>4, <1>6, <1>7, <1>8, <1>9, <1>10 DEF StoreInv

\* The intent is removed, and the operation reports what it stored.
LEMMA DeleteIntentKeeps ==
    ASSUME StoreInv, DeleteIntent
    PROVE  StoreInv'
<1> DEFINE t == Top("identity")
<1>1. PICK d, r : d = job.store /\ r = job.next
  OBVIOUS
<1>2. /\ job.at = "delete" /\ intent' = [intent EXCEPT ![d] = 0] /\ stored' = [stored EXCEPT ![d] = r]
      /\ RecordPublished /\ UNCHANGED <<slot, pinned>> /\ job.at \in AtWrite
  BY <1>1 DEF DeleteIntent, AtWrite
<1>3. /\ r \in FlashRecord /\ d \in RecordStore /\ r # Blank /\ r.generation \in Nat /\ r.sequence \in Nat
      /\ r.state \in RecordState /\ r.host \in HostKey \cup {NoHost}
  BY <1>1, <1>2, NextIsNamed DEF FlashRecord
<1>4. Top(d) = r
  BY <1>1, <1>2 DEF StoreInv, WriteIsNext
<1>5. \A s \in RecordStore : Top(s)' = Top(s)
  BY <1>2, TopStays
<1>6. /\ intent' \in [RecordStore -> Nat] /\ intent'[d] = 0
      /\ stored' \in [RecordStore -> FlashRecord] /\ stored'[d] = r
      /\ \A s \in RecordStore : s # d => intent'[s] = intent[s] /\ stored'[s] = stored[s]
  BY <1>2, <1>3 DEF StoreInv, StoreTypeOK
<1>7. SlotsAreNamed' /\ NothingLost'
  <2>1. SlotsAreNamed'
    BY <1>2 DEF StoreInv, SlotsAreNamed
  <2>2. \A s \in RecordStore : s # d => stored'[s].sequence <= Top(s)'.sequence
            /\ (stored'[s].sequence = Top(s)'.sequence => stored'[s] = Top(s)')
    BY <1>5, <1>6 DEF StoreInv, NothingLost
  <2>3. stored'[d].sequence <= Top(d)'.sequence /\ stored'[d] = Top(d)'
    BY <1>3, <1>4, <1>5, <1>6
  <2> QED BY <2>1, <2>2, <2>3 DEF NothingLost
<1>8. IntentIsNext'
  BY <1>5, <1>6 DEF StoreInv, IntentIsNext
<1>9. PinnedBefore' /\ GenerationNamesHost'
  BY <1>2, <1>5 DEF PinnedBefore, GenerationNamesHost, RecordStore, Newer, Same, StoreInv
<1>10. ram \in [generation : Nat, peer : RecordState, host : HostKey \cup {NoHost}, config : BOOLEAN]
  BY DEF StoreInv, StoreTypeOK
<1>11. d = "identity" => t = r
  BY <1>4
<1>12. CASE job.op = "init"
  <2>1. ram' = [ram EXCEPT !.generation = 1] /\ job' = Rest /\ UNCHANGED contact
    BY <1>2, <1>12 DEF RecordPublished
  <2>2. d = "identity" /\ r.state = "Unpaired" /\ r.generation = 1 /\ ram.peer = "Unpaired"
    BY <1>1, <1>2, <1>12 DEF StoreInv, JobIsSound, StoreTypeOK, JobRecord, RecordStore, ConfigOp
  <2>3. contact.kind # "pair"
    BY <1>2, <1>12, PairingWrites
  <2>4. /\ ram' \in [generation : Nat, peer : RecordState, host : HostKey \cup {NoHost}, config : BOOLEAN]
        /\ ram'.generation = 1 /\ ram'.peer = "Unpaired"
    BY <1>10, <2>1, <2>2
  <2>5. StoreTypeOK'
    BY <1>2, <1>6, <2>1, <2>4, RestFields DEF StoreInv, StoreTypeOK
  <2>6. WriteIsNext' /\ JobIsSound'
    BY <2>1, RestFields DEF WriteIsNext, JobIsSound, AtWrite
  <2>7. ContactIsFresh' /\ RamIsTrue'
    BY <1>3, <1>5, <1>11, <2>1, <2>2, <2>3, <2>4 DEF ContactIsFresh, RamIsTrue, RecordStore
  <2> QED BY <1>7, <1>8, <1>9, <2>5, <2>6, <2>7 DEF StoreInv
<1>13. CASE job.op = "peer"
  <2>1. /\ ram' = [ram EXCEPT !.generation = r.generation, !.peer = r.state, !.host = r.host]
        /\ job' = Rest /\ contact' = [contact EXCEPT !.identity = r]
    BY <1>1, <1>2, <1>13 DEF RecordPublished
  <2>2. /\ d = "identity" /\ contact.kind = "pair" /\ r.state \in Pinning
        /\ r.generation = contact.identity.generation /\ r.host = contact.identity.host
    BY <1>1, <1>2, <1>13 DEF StoreInv, JobIsSound, StoreTypeOK, JobRecord, RecordStore, ConfigOp
  <2>3. contact' \in ContactRecord /\ contact'.kind = "pair" /\ contact'.identity = r
    BY <1>3, <2>1, <2>2 DEF StoreInv, StoreTypeOK, ContactRecord
  <2>4. ram' \in [generation : Nat, peer : RecordState, host : HostKey \cup {NoHost}, config : BOOLEAN]
    BY <1>3, <1>10, <2>1
  <2>5. StoreTypeOK'
    BY <1>2, <1>6, <2>1, <2>3, <2>4, RestFields DEF StoreInv, StoreTypeOK
  <2>6. WriteIsNext' /\ JobIsSound'
    BY <2>1, RestFields DEF WriteIsNext, JobIsSound, AtWrite
  <2>7. Same(contact.identity) /\ r.host \in HostKey
    BY <2>2 DEF StoreInv, ContactIsFresh
  <2>8. Same(contact.identity)'
    BY <1>2, <2>2, <2>3, <2>7 DEF Same
  <2>9. ContactIsFresh'
    <3>1. r.sequence <= r.sequence
      BY <1>3
    <3> QED BY <1>5, <1>6, <1>11, <2>1, <2>2, <2>3, <2>7, <2>8, <3>1, RestFields
            DEF ContactIsFresh, RecordStore, AtWrite
  <2>10. RamIsTrue'
    BY <1>3, <1>5, <1>11, <2>2 DEF RamIsTrue, RecordStore, Pinning
  <2> QED BY <1>7, <1>8, <1>9, <2>5, <2>6, <2>9, <2>10 DEF StoreInv
<1>14. CASE job.op = "revoke"
  <2>1. /\ ram' = [ram EXCEPT !.generation = r.generation, !.peer = "Revoking"]
        /\ job' = [Rest EXCEPT !.op = "forget", !.at = "close", !.next = r] /\ UNCHANGED contact
    BY <1>1, <1>2, <1>14 DEF RecordPublished
  <2>2. d = "identity" /\ r.state = "Revoking"
    BY <1>1, <1>2, <1>14 DEF StoreInv, JobIsSound, StoreTypeOK, JobRecord, RecordStore, ConfigOp
  <2>3. job' \in JobRecord /\ job'.at = "close" /\ job'.next = r
    BY <1>3, <2>1, RestFields DEF JobRecord, IdentityOp
  <2>4. /\ ram' \in [generation : Nat, peer : RecordState, host : HostKey \cup {NoHost}, config : BOOLEAN]
        /\ ram'.generation = r.generation /\ ram'.peer = "Revoking"
    BY <1>3, <1>10, <2>1, <2>2
  <2>5. StoreTypeOK'
    BY <1>2, <1>6, <2>1, <2>3, <2>4 DEF StoreInv, StoreTypeOK
  <2>6. WriteIsNext' /\ JobIsSound'
    BY <1>5, <1>6, <1>11, <2>2, <2>3 DEF WriteIsNext, JobIsSound, AtWrite, RecordStore
  <2>7. ContactIsFresh'
    BY <1>2, <2>1, <2>3 DEF StoreInv, ContactIsFresh, AtWrite, Same
  <2>8. RamIsTrue'
    BY <1>3, <1>5, <1>11, <2>2, <2>4 DEF RamIsTrue, RecordStore
  <2> QED BY <1>7, <1>8, <1>9, <2>5, <2>6, <2>7, <2>8 DEF StoreInv
<1>15. CASE job.op = "forget"
  <2>1. /\ ram' = [ram EXCEPT !.generation = r.generation, !.peer = r.state, !.host = r.host]
        /\ job' = Rest /\ UNCHANGED contact
    BY <1>1, <1>2, <1>15 DEF RecordPublished
  <2>2. d = "identity" /\ r.state = "Unpaired"
    BY <1>1, <1>2, <1>15 DEF StoreInv, JobIsSound, StoreTypeOK, JobRecord, RecordStore, ConfigOp
  <2>3. contact.kind # "pair"
    BY <1>2, <1>15, PairingWrites
  <2>4. /\ ram' \in [generation : Nat, peer : RecordState, host : HostKey \cup {NoHost}, config : BOOLEAN]
        /\ ram'.generation = r.generation /\ ram'.peer = r.state
    BY <1>3, <1>10, <2>1
  <2>5. StoreTypeOK'
    BY <1>2, <1>6, <2>1, <2>4, RestFields DEF StoreInv, StoreTypeOK
  <2>6. WriteIsNext' /\ JobIsSound'
    BY <2>1, RestFields DEF WriteIsNext, JobIsSound, AtWrite
  <2>7. ContactIsFresh' /\ RamIsTrue'
    BY <1>3, <1>5, <1>11, <2>1, <2>2, <2>3, <2>4 DEF ContactIsFresh, RamIsTrue, RecordStore
  <2> QED BY <1>7, <1>8, <1>9, <2>5, <2>6, <2>7 DEF StoreInv
<1>16. CASE job.op \in {"provision", "clear"}
  <2>1. ram' = [ram EXCEPT !.config = (job.op = "provision")] /\ job' = Rest /\ UNCHANGED contact
    BY <1>1, <1>2, <1>16 DEF RecordPublished
  <2>2. d = "config"
    BY <1>1, <1>2, <1>16 DEF StoreInv, JobIsSound, StoreTypeOK, JobRecord, RecordStore, IdentityOp
  <2>3. contact.kind # "pair"
    BY <1>2, <1>16, PairingWrites
  <2>4. /\ ram' \in [generation : Nat, peer : RecordState, host : HostKey \cup {NoHost}, config : BOOLEAN]
        /\ ram'.generation = ram.generation /\ ram'.peer = ram.peer
    <3>1. (job.op = "provision") \in BOOLEAN
      OBVIOUS
    <3>2. PICK v \in BOOLEAN : ram' = [ram EXCEPT !.config = v]
      BY <2>1, <3>1, Zenon
    <3> QED BY <1>10, <3>2
  <2>5. StoreTypeOK'
    BY <1>2, <1>6, <2>1, <2>4, RestFields DEF StoreInv, StoreTypeOK
  <2>6. WriteIsNext' /\ JobIsSound'
    BY <2>1, RestFields DEF WriteIsNext, JobIsSound, AtWrite
  <2>7. ContactIsFresh' /\ RamIsTrue'
    BY <1>2, <1>5, <1>6, <2>1, <2>2, <2>3, <2>4 DEF StoreInv, ContactIsFresh, RamIsTrue, RecordStore
  <2> QED BY <1>7, <1>8, <1>9, <2>5, <2>6, <2>7 DEF StoreInv
<1>17. job.op \in IdentityOp \cup ConfigOp
  BY <1>2 DEF StoreInv, JobIsSound, StoreTypeOK, JobRecord, RecordStore
<1> QED BY <1>12, <1>13, <1>14, <1>15, <1>16, <1>17 DEF IdentityOp, ConfigOp


\* A write fails, before or after it reached the flash, and its operation ends.
LEMMA WriteFailsKeeps ==
    ASSUME StoreInv, WriteFails
    PROVE  StoreInv'
<1> DEFINE t == Top("identity")
           c == contact.identity
<1>1. PICK d, r : d = job.store /\ r = job.next
  OBVIOUS
<1>2. /\ job.at \in AtWrite /\ job' = Rest /\ UNCHANGED <<ram, stored, pinned>>
      /\ contact' = IF job.op = "peer" THEN NoContact ELSE contact
  BY DEF WriteFails, AtWrite
<1>3. /\ r \in FlashRecord /\ d \in RecordStore /\ r # Blank /\ r.sequence \in Nat /\ r.sequence > 0
  BY <1>1, <1>2, NextIsNamed
<1>4. contact' \in ContactRecord
  BY <1>2, RestFields DEF StoreInv, StoreTypeOK
<1>5. WriteIsNext' /\ JobIsSound'
  BY <1>2, RestFields DEF WriteIsNext, JobIsSound, AtWrite
<1>6. contact'.kind = "pair" =>
          /\ UNCHANGED contact /\ job.op = "revoke" /\ d = "identity" /\ r.state = "Revoking"
          /\ r.sequence = c.sequence + 1 /\ c.sequence \in Nat /\ Same(c)
          /\ (job.at # "delete" => r.sequence = t.sequence + 1)
          /\ (job.at = "delete" => t = r)
  <2>1. SUFFICES ASSUME contact'.kind = "pair"
                 PROVE  /\ UNCHANGED contact /\ job.op = "revoke" /\ d = "identity" /\ r.state = "Revoking"
                        /\ r.sequence = c.sequence + 1 /\ c.sequence \in Nat /\ Same(c)
                        /\ (job.at # "delete" => r.sequence = t.sequence + 1)
                        /\ (job.at = "delete" => t = r)
    OBVIOUS
  <2>2. UNCHANGED contact /\ job.op # "peer" /\ contact.kind = "pair"
    BY <1>2, <2>1, RestFields
  <2>3. job.op = "revoke" /\ d = "identity" /\ r.sequence = c.sequence + 1 /\ c.sequence \in Nat
    BY <1>1, <1>2, <2>2, PairingWrites
  <2>4. r.state = "Revoking" /\ (job.at # "delete" => r.sequence = t.sequence + 1)
    BY <1>1, <1>2, <2>3 DEF StoreInv, JobIsSound
  <2>5. job.at = "delete" => t = r
    BY <1>1, <2>3, <1>2 DEF StoreInv, WriteIsNext
  <2>6. Same(c)
    BY <2>2 DEF StoreInv, ContactIsFresh
  <2> QED BY <2>2, <2>3, <2>4, <2>5, <2>6
<1>7. job.at # "begin" /\ job'.at = "rest"
  BY <1>2, RestFields DEF AtWrite
<1>8. contact'.kind = "pair" => Same(contact.identity)'
  BY <1>2, <1>6 DEF Same
<1>9. CASE UNCHANGED <<slot, intent>>
  <2>1. \A s \in RecordStore : Top(s)' = Top(s)
    BY <1>9, TopStays
  <2>2. StoreTypeOK'
    BY <1>2, <1>4, <1>9, RestFields DEF StoreInv, StoreTypeOK
  <2>3. SlotsAreNamed' /\ NothingLost' /\ IntentIsNext'
    BY <1>2, <1>9, Untouched DEF StoreInv
  <2>4. ContactIsFresh'
    <3>1. CASE contact'.kind # "pair"
      BY <3>1 DEF ContactIsFresh
    <3>2. CASE contact'.kind = "pair"
      <4>1. t.sequence # c.sequence => t.state = "Revoking"
        <5>1. t.sequence \in Nat
          BY TopIsNewest DEF StoreInv, RecordStore, FlashRecord
        <5> QED BY <1>6, <3>2, <5>1
      <4> QED BY <1>2, <1>6, <1>7, <1>8, <1>9, <2>1, <3>2, <4>1
              DEF StoreInv, ContactIsFresh, AtWrite, RecordStore
    <3> QED BY <3>1, <3>2
  <2>5. RamIsTrue'
    BY <1>2, <1>7, <1>9, <2>1 DEF StoreInv, RamIsTrue, RecordStore
  <2>6. PinnedBefore' /\ GenerationNamesHost'
    BY <1>2, <2>1 DEF PinnedBefore, GenerationNamesHost, RecordStore, Newer, Same, StoreInv
  <2> QED BY <1>5, <2>2, <2>3, <2>4, <2>5, <2>6 DEF StoreInv
<1>10. CASE /\ job.at = "intent" /\ UNCHANGED slot
            /\ intent' = [intent EXCEPT ![job.store] = job.next.sequence]
  <2>1. \A s \in RecordStore : Top(s)' = Top(s)
    BY <1>10, TopStays
  <2>2. /\ intent' \in [RecordStore -> Nat] /\ intent'[job.store] = job.next.sequence
        /\ \A s \in RecordStore : s # job.store => intent'[s] = intent[s]
        /\ SlotsAreNamed' /\ NothingLost' /\ IntentIsNext'
    BY <1>2, <1>10, IntentWritten
  <2>3. StoreTypeOK'
    BY <1>2, <1>4, <1>10, <2>2, RestFields DEF StoreInv, StoreTypeOK
  <2>4. ContactIsFresh'
    <3>1. CASE contact'.kind # "pair"
      BY <3>1 DEF ContactIsFresh
    <3>2. CASE contact'.kind = "pair"
      <4>1. intent'["identity"] = c.sequence + 1
        BY <1>1, <1>6, <2>2, <3>2
      <4>2. t.sequence = c.sequence
        <5>1. t.sequence \in Nat
          BY TopIsNewest DEF StoreInv, RecordStore, FlashRecord
        <5>2. c.sequence \in Nat /\ c.sequence + 1 = t.sequence + 1
          BY <1>6, <1>10, <3>2
        <5> QED BY <5>1, <5>2
      <4> QED BY <1>2, <1>6, <1>7, <1>8, <2>1, <3>2, <4>1, <4>2
              DEF StoreInv, ContactIsFresh, AtWrite, RecordStore
    <3> QED BY <3>1, <3>2
  <2>5. RamIsTrue'
    <3>1. job.store = "identity" => intent'["identity"] # 0
      BY <1>1, <1>3, <2>2
    <3>2. job.store # "identity" => intent'["identity"] = intent["identity"]
      BY <2>2 DEF RecordStore
    <3> QED BY <1>2, <1>7, <2>1, <3>1, <3>2 DEF StoreInv, RamIsTrue, RecordStore
  <2>6. PinnedBefore' /\ GenerationNamesHost'
    BY <1>2, <2>1 DEF PinnedBefore, GenerationNamesHost, RecordStore, Newer, Same, StoreInv
  <2> QED BY <1>5, <2>2, <2>3, <2>4, <2>5, <2>6 DEF StoreInv
<1>11. CASE /\ job.at = "record" /\ UNCHANGED intent
            /\ slot' = [slot EXCEPT ![job.store][SlotOf(job.next.sequence)] = job.next]
  <2>1. /\ slot' \in [RecordStore -> [{"A", "B"} -> FlashRecord]]
        /\ Top(d)' = r /\ \A s \in RecordStore : s # d => Top(s)' = Top(s)
        /\ SlotsAreNamed' /\ NothingLost' /\ IntentIsNext'
    BY <1>1, <1>2, <1>11, SlotWritten
  <2>2. PinnedBefore' /\ GenerationNamesHost'
    BY <1>1, <1>2, <1>11, <2>1, WrittenAgrees
  <2>3. StoreTypeOK'
    BY <1>2, <1>4, <1>11, <2>1, RestFields DEF StoreInv, StoreTypeOK
  <2>4. intent[d] = r.sequence
    BY <1>1, <1>2, <1>11 DEF StoreInv, WriteIsNext
  <2>5. ContactIsFresh'
    <3>1. CASE contact'.kind # "pair"
      BY <3>1 DEF ContactIsFresh
    <3>2. CASE contact'.kind = "pair"
      <4>1. Top("identity")' = r /\ intent'["identity"] = c.sequence + 1
        BY <1>6, <1>11, <2>1, <2>4, <3>2
      <4> QED BY <1>2, <1>6, <1>7, <1>8, <3>2, <4>1 DEF StoreInv, ContactIsFresh, AtWrite
    <3> QED BY <3>1, <3>2
  <2>6. RamIsTrue'
    <3>1. CASE d = "identity"
      <4>1. intent'["identity"] # 0 /\ Top("identity")' = r
        BY <1>3, <1>11, <2>1, <2>4, <3>1
      <4> QED BY <1>3, <4>1 DEF RamIsTrue
    <3>2. CASE d # "identity"
      BY <1>2, <1>7, <1>11, <2>1, <3>2 DEF StoreInv, RamIsTrue, RecordStore
    <3> QED BY <3>1, <3>2
  <2> QED BY <1>5, <2>1, <2>2, <2>3, <2>5, <2>6 DEF StoreInv
<1> QED BY <1>9, <1>10, <1>11 DEF WriteFails

\* Power is lost, and the worker starts from what it can read.
LEMMA RebootKeeps ==
    ASSUME StoreInv, Reboot
    PROVE  StoreInv'
<1> DEFINE t == Top("identity")
           q == canonical_record("identity")
<1>1. /\ job' = Rest /\ contact' = NoContact /\ UNCHANGED <<slot, intent, stored, pinned>>
      /\ ram' = [generation |-> LoadedGeneration,
                 peer |-> IF IdentityLoads THEN q.state ELSE "Unpaired",
                 host |-> IF IdentityLoads THEN q.host ELSE NoHost, config |-> ConfigLoads]
  BY DEF Reboot
<1>2. \A s \in RecordStore : Top(s)' = Top(s)
  BY <1>1, TopStays
<1>3. /\ t \in FlashRecord /\ t # Unreadable
      /\ intent["identity"] # 0 => q = Unreadable
      /\ intent["identity"] = 0 => q = t
  BY TopIsNewest DEF StoreInv, RecordStore
<1>4. IdentityLoads => q = t
  BY <1>3 DEF IdentityLoads
<1>5. IdentityLoads \in BOOLEAN /\ ConfigLoads \in BOOLEAN
  BY DEF IdentityLoads, ConfigLoads
<1>6. ram'.peer = (IF IdentityLoads THEN q.state ELSE "Unpaired") /\ ram'.generation = LoadedGeneration
  BY <1>1
<1>7. ram' \in [generation : Nat, peer : RecordState, host : HostKey \cup {NoHost}, config : BOOLEAN]
  <2>1. LoadedGeneration \in Nat
    BY <1>3, <1>4 DEF LoadedGeneration, FlashRecord
  <2>2. (IF IdentityLoads THEN q.state ELSE "Unpaired") \in RecordState
    BY <1>3, <1>4 DEF FlashRecord, RecordState
  <2>3. (IF IdentityLoads THEN q.host ELSE NoHost) \in HostKey \cup {NoHost}
    BY <1>3, <1>4 DEF FlashRecord
  <2>4. PICK v \in BOOLEAN : v = ConfigLoads
    BY <1>5
  <2>5. ram' = [generation |-> LoadedGeneration,
                peer |-> IF IdentityLoads THEN q.state ELSE "Unpaired",
                host |-> IF IdentityLoads THEN q.host ELSE NoHost, config |-> v]
    BY <1>1, <2>4, Zenon
  <2> QED BY <2>1, <2>2, <2>3, <2>5
<1>8. StoreTypeOK'
  BY <1>1, <1>7, RestFields DEF StoreInv, StoreTypeOK
<1>9. SlotsAreNamed' /\ NothingLost' /\ IntentIsNext'
  BY <1>1, Untouched DEF StoreInv
<1>10. WriteIsNext' /\ JobIsSound' /\ ContactIsFresh'
  BY <1>1, RestFields DEF WriteIsNext, JobIsSound, ContactIsFresh, AtWrite
<1>11. RamIsTrue'
  <2>1. t = Blank => ram'.peer = "Unpaired"
    BY <1>4, <1>6 DEF IdentityLoads
  <2>2. ASSUME intent["identity"] = 0, t.state \in {"Unpaired", "Revoking"}
        PROVE  ram'.peer = t.state /\ ram'.generation = t.generation
    <3>1. IdentityLoads /\ q = t
      BY <1>3, <2>2, RestFields DEF IdentityLoads
    <3> QED BY <1>6, <3>1 DEF LoadedGeneration
  <2> QED BY <1>1, <1>2, <2>1, <2>2 DEF RamIsTrue, RecordStore
<1>12. PinnedBefore' /\ GenerationNamesHost'
  BY <1>1, <1>2 DEF PinnedBefore, GenerationNamesHost, RecordStore, Newer, Same, StoreInv
<1> QED BY <1>8, <1>9, <1>10, <1>11, <1>12 DEF StoreInv

-----------------------------------------------------------------------------
(* The theorems                                                            *)

\* The empty flash.
LEMMA StoreInitSound ==
    ASSUME StoreInit
    PROVE  StoreInv
<1>1. \A s \in RecordStore : Top(s) = Blank /\ stored[s] = Blank /\ intent[s] = 0
  BY DEF StoreInit, Top, select_slot
<1>2. /\ ram = [generation |-> 0, peer |-> "Unpaired", host |-> NoHost, config |-> FALSE]
      /\ job = Rest /\ contact = NoContact /\ pinned = {}
  BY DEF StoreInit
<1>3. StoreTypeOK
  <2>1. slot \in [RecordStore -> [{"A", "B"} -> FlashRecord]]
    BY RestFields DEF StoreInit
  <2>2. intent \in [RecordStore -> Nat] /\ stored \in [RecordStore -> FlashRecord]
    BY RestFields DEF StoreInit
  <2>3. ram \in [generation : Nat, peer : RecordState, host : HostKey \cup {NoHost}, config : BOOLEAN]
    BY <1>2 DEF RecordState
  <2> QED BY <1>2, <2>1, <2>2, <2>3, RestFields DEF StoreTypeOK
<1>4. SlotsAreNamed
  BY DEF StoreInit, SlotsAreNamed, Named
<1>5. NothingLost /\ IntentIsNext
  BY <1>1, RestFields DEF NothingLost, IntentIsNext
<1>6. WriteIsNext /\ JobIsSound /\ ContactIsFresh
  BY <1>2, RestFields DEF WriteIsNext, JobIsSound, ContactIsFresh, AtWrite
<1>7. RamIsTrue /\ PinnedBefore /\ GenerationNamesHost
  BY <1>1, <1>2, RestFields DEF RamIsTrue, PinnedBefore, GenerationNamesHost, RecordStore, Pinning
<1> QED BY <1>3, <1>4, <1>5, <1>6, <1>7 DEF StoreInv

\* Through every operation of the worker, every failed or half-made write and power
\* loss between any two of them: a slot holds only records its number names, an
\* intent announces the newest record or the next, RAM knows what was revoked,
\* and a pairing's own copy is at most one record behind the store.
THEOREM StoreInvariance == StoreSpec => []StoreInv
<1>1. StoreInit => StoreInv
  BY StoreInitSound
<1>2. StoreInv /\ [StoreNext]_storeVars => StoreInv'
  <2> SUFFICES ASSUME StoreInv, [StoreNext]_storeVars PROVE StoreInv'
    OBVIOUS
  <2>1. CASE \E g \in 0..DeviceGenMax : identity_init(g)
    BY <2>1, InitKeeps
  <2>2. CASE \E g \in 0..DeviceGenMax : wifi_provision(g) \/ clear_config(g)
    BY <2>2, ConfigOperationsKeep
  <2>3. CASE \E g \in 0..DeviceGenMax : \E h \in HostKey : Unpair(g, h)
    <3>1. PICK g \in 0..DeviceGenMax, h \in HostKey : Unpair(g, h)
      BY <2>3
    <3>2. Resting /\ job.at \in {"rest", "begin"}
      BY <3>1 DEF Unpair, Resting
    <3>3. CASE recover_identity_intent(h)
      BY <3>2, <3>3, RecoverKeeps
    <3>4. CASE begin_identity_unpair(h)
      BY <3>2, <3>4, BeginUnpairKeeps
    <3> QED BY <3>1, <3>3, <3>4 DEF Unpair
  <2>4. CASE \E h \in HostKey : connect_once(h)
    BY <2>4, ConnectKeeps
  <2>5. CASE publish_peer
    BY <2>5, PublishPeerKeeps
  <2>6. CASE ContactEnds
    BY <2>6, ContactEndKeeps
  <2>7. CASE UnpairGoesOn
    BY <2>7, GoesOnKeeps
  <2>8. CASE finish_identity_unpair
    BY <2>8, FinishKeeps
  <2>9. CASE WriteIntent
    BY <2>9, WriteIntentKeeps
  <2>10. CASE WriteRecord
    BY <2>10, WriteRecordKeeps
  <2>11. CASE DeleteIntent
    BY <2>11, DeleteIntentKeeps
  <2>12. CASE WriteFails
    BY <2>12, WriteFailsKeeps
  <2>13. CASE Reboot
    BY <2>13, RebootKeeps
  <2>14. CASE UNCHANGED storeVars
    <3>1. UNCHANGED <<slot, intent, ram, job, contact, stored, pinned>>
      BY <2>14 DEF storeVars
    <3>2. \A s \in RecordStore : Top(s)' = Top(s)
      BY <3>1, TopStays
    <3>3. StoreTypeOK'
      BY <3>1 DEF StoreInv, StoreTypeOK
    <3>4. SlotsAreNamed' /\ NothingLost' /\ IntentIsNext'
      BY <3>1, Untouched DEF StoreInv
    <3>5. WriteIsNext'
      <4>1. job.store \in RecordStore
        BY DEF StoreInv, StoreTypeOK, JobRecord
      <4> QED BY <3>1, <3>2, <4>1 DEF StoreInv, WriteIsNext
    <3>6. JobIsSound'
      BY <3>1, <3>2 DEF StoreInv, JobIsSound, Newer, RecordStore
    <3>7. ContactIsFresh'
      BY <3>1, <3>2 DEF StoreInv, ContactIsFresh, Same, RecordStore
    <3>8. RamIsTrue' /\ PinnedBefore' /\ GenerationNamesHost'
      BY <3>1, <3>2 DEF StoreInv, RamIsTrue, PinnedBefore, GenerationNamesHost, Newer, Same, RecordStore
    <3> QED BY <3>3, <3>4, <3>5, <3>6, <3>7, <3>8 DEF StoreInv
  <2> QED BY <2>1, <2>2, <2>3, <2>4, <2>5, <2>6, <2>7, <2>8, <2>9, <2>10, <2>11, <2>12, <2>13, <2>14
          DEF StoreNext
<1> QED BY <1>1, <1>2, PTL DEF StoreSpec

\* What the device has reported of its records holds, for any hosts and any number
\* of publications and generations: no acknowledged record is rolled back, and no
\* revoked host is listed by the status commands.
THEOREM ReportsAreKept == StoreSpec => []ReportsHold
<1>1. StoreInv => ReportsHold
  <2> SUFFICES ASSUME StoreInv PROVE ReportsHold
    OBVIOUS
  <2>1. \A s \in RecordStore : canonical_record(s) # Unreadable => intent[s] = 0 /\ canonical_record(s) = Top(s)
    BY TopIsNewest DEF StoreInv
  <2>2. NoRollback
    <3>1. \A s \in RecordStore : /\ Top(s).sequence \in Nat /\ stored[s].sequence \in Nat
                                 /\ stored[s].sequence <= Top(s).sequence
                                 /\ stored[s].sequence = Top(s).sequence => stored[s] = Top(s)
      BY TopIsNewest DEF StoreInv, NothingLost, StoreTypeOK, FlashRecord
    <3> QED BY <2>1, <3>1 DEF NoRollback
  <2>3. RevokedIsNotListed
    <3>1. "identity" \in RecordStore
      BY DEF RecordStore
    <3> QED BY <2>1, <3>1, RestFields DEF RevokedIsNotListed, StoreInv, RamIsTrue, Resting
  <2> QED BY <2>2, <2>3 DEF ReportsHold
<1> QED BY <1>1, StoreInvariance, PTL

\* A generation stands for one host, however many pairings, interrupted unpairs
\* and recoveries there were.
THEOREM GenerationIsOneHosts == StoreSpec => []GenerationNamesHost
<1>1. StoreInv => GenerationNamesHost
  BY DEF StoreInv
<1> QED BY <1>1, StoreInvariance, PTL

=============================================================================
