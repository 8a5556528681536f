--------------------------- MODULE HostFileProofs ---------------------------
(***************************************************************************)
(* The files of the host.  The identity files implement one record that    *)
(* changes by legal steps, and what was reported as stored survives, for   *)
(* any number of threads and processes, any interleaving of them and any   *)
(* crash or loss of power.  The records of the runs call no live run a     *)
(* crash, keep within their capacity and keep what is retained, for any    *)
(* number of processes that fail and die at any step.  The profile         *)
(* commands leave a running host alone.  What the host records of its own  *)
(* work is true, whatever a full queue loses of it.                        *)
(***************************************************************************)
EXTENDS IdentityFile, RunRecorder, ProfileLifecycle, HostDiagnostics, FiniteSetTheorems,
        SequenceTheorems, TLAPS

PeerStates == {"none", "Unpaired", "Pending", "Committing", "Paired", "Revoking"}
Value == [key : User \cup {"none"}, generation : Nat, peer : PeerStates]
Publishing == {"clear", "write", "sync", "rename"}
Locked == Publishing \cup {"locked", "directory", "joined"}
Places == Locked \cup {"idle", "scanned"}
Operation == [op : {"none", "init", "set", "unpair", "read"}, at : Places,
              have : Value, then : Value, renamed : BOOLEAN]

FileTypeOK ==
    /\ canonical \in Value /\ disk \in Value
    /\ tmp \in [value : Value, synced : BOOLEAN]
    /\ user \in [User -> Operation]

\* The changes that the register allows.
Legal(old, new) ==
    \/ Register!Created(old, new) \/ Register!Advanced(old, new)
    \/ Register!Revoked(old, new) \/ Register!Forgotten(old, new)

\* Whoever is past the lock holds it.
Holds(u) == user[u].at \in Locked => lock = u

\* The holder of the lock publishes a legal change of what it has read, and of
\* nothing older; the temporary file is its own and synced when it is renamed.
PublishesNext(u) ==
    /\ user[u].at \in Publishing => Legal(canonical, user[u].then)
    /\ user[u].at \in {"sync", "rename"} => tmp.value = user[u].then
    /\ user[u].at = "rename" => tmp.synced
    /\ user[u].at = "joined" => canonical.peer = "Revoking"

FileInv ==
    FileTypeOK /\ \A u \in User : Holds(u) /\ PublishesNext(u)

-----------------------------------------------------------------------------

\* One user at a time is past the lock.
LEMMA OneHolder ==
    ASSUME FileInv, NEW u \in User, user[u].at \in Locked, NEW v \in User, v # u
    PROVE  user[v].at \notin Locked
BY DEF FileInv, Holds

\* What the holder of the lock may do to the files, none of the others notices.
LEMMA OthersKeep ==
    ASSUME FileInv, NEW u \in User, user[u].at \in Locked,
           NEW v \in User, v # u, user'[v] = user[v]
    PROVE  Holds(v)' /\ PublishesNext(v)'
<1>1. user[v].at \notin Locked
  BY OneHolder
<1>2. user'[v].at \notin Locked
  BY <1>1
<1> QED
  BY <1>2 DEF Holds, PublishesNext, Locked, Publishing

\* The state of one user is replaced, the others keep theirs.
LEMMA Moves ==
    ASSUME FileTypeOK, NEW u \in User, NEW o \in Operation, user' = [user EXCEPT ![u] = o]
    PROVE  /\ user' \in [User -> Operation] /\ user'[u] = o
           /\ \A v \in User : v # u => user'[v] = user[v]
BY DEF FileTypeOK

\* Goes changes the place alone.
LEMMA GoesMoves ==
    ASSUME FileTypeOK, NEW u \in User, NEW at \in Places, Goes(u, at)
    PROVE  /\ user' \in [User -> Operation]
           /\ user'[u] = [user[u] EXCEPT !.at = at]
           /\ user'[u].at = at /\ user'[u].then = user[u].then
           /\ \A v \in User : v # u => user'[v] = user[v]
<1>1. user[u] \in Operation
  BY DEF FileTypeOK
<1>2. [user[u] EXCEPT !.at = at] \in Operation
  BY <1>1 DEF Operation
<1>3. user' = [user EXCEPT ![u] = [user[u] EXCEPT !.at = at]]
  BY DEF Goes
<1>4. /\ [user[u] EXCEPT !.at = at].at = at
      /\ [user[u] EXCEPT !.at = at].then = user[u].then
  BY <1>1 DEF Operation
<1> QED
  BY <1>2, <1>3, <1>4, Moves

\* The values that come up have the type.
LEMMA Values ==
    /\ Missing \in Value /\ NoOperation \in Operation
    /\ NoTmp \in [value : Value, synced : BOOLEAN]
<1>1. Missing \in Value
  BY DEF Missing, Identity, Value, PeerStates
<1> QED
  BY <1>1 DEF NoOperation, Operation, Places, Locked, Publishing, NoTmp

\* An operation that ends leaves every user with what it has to keep.
LEMMA ReturnsKeeps ==
    ASSUME FileInv, NEW u \in User, Returns(u), canonical' \in Value, disk' \in Value,
           tmp' \in [value : Value, synced : BOOLEAN],
           user[u].at \in Locked \/ UNCHANGED <<canonical, tmp>>
    PROVE  FileInv'
<1>1. /\ user' \in [User -> Operation] /\ user'[u] = NoOperation
      /\ \A v \in User : v # u => user'[v] = user[v]
  BY Values, Moves DEF FileInv, Returns
<1>2. FileTypeOK'
  BY <1>1 DEF FileTypeOK
<1>3. Holds(u)' /\ PublishesNext(u)'
  BY <1>1 DEF Holds, PublishesNext, NoOperation, Locked, Publishing
<1>4. ASSUME NEW v \in User, v # u PROVE Holds(v)' /\ PublishesNext(v)'
  <2>1. user'[v] = user[v]
    BY <1>1, <1>4
  <2>2. CASE user[u].at \in Locked
    BY <2>1, <2>2, <1>4, OthersKeep
  <2>3. CASE UNCHANGED <<canonical, tmp>>
    <3>1. Holds(v) /\ PublishesNext(v)
      BY DEF FileInv
    <3>2. PublishesNext(v)'
      BY <3>1, <2>1, <2>3 DEF PublishesNext
    <3>3. Holds(v)'
      BY <3>1, <2>1, <1>4 DEF Holds, Returns
    <3> QED
      BY <3>2, <3>3
  <2> QED
    BY <2>2, <2>3
<1> QED
  BY <1>2, <1>3, <1>4 DEF FileInv

-----------------------------------------------------------------------------

\* What the holder decides to publish is a legal change, and a value.
LEMMA NextIsLegal ==
    ASSUME NEW u \in User, user[u] \in Operation, NEW old \in Value, NextPeer(u, old) # old,
           user[u].op = "init" => old = Missing
    PROVE  Legal(old, NextPeer(u, old)) /\ NextPeer(u, old) \in Value
<1>1. old = [key |-> old.key, generation |-> old.generation, peer |-> old.peer]
  BY DEF Value
<1>2. CASE user[u].op = "init"
  <2>1. NextPeer(u, old) = Identity(u, 0, "Unpaired")
    BY <1>2 DEF NextPeer
  <2> QED
    BY <1>2, <2>1 DEF Legal, Register!Created, Register!Missing, Register!Identity, Missing,
                      Identity, Value, PeerStates
<1>3. CASE user[u].op = "set"
  <2>1. \/ old.peer = "Unpaired" /\ NextPeer(u, old) = [old EXCEPT !.peer = "Pending"]
        \/ old.peer = "Pending" /\ NextPeer(u, old) = [old EXCEPT !.peer = "Committing"]
        \/ old.peer = "Committing" /\ NextPeer(u, old) = [old EXCEPT !.peer = "Paired"]
    BY <1>3 DEF NextPeer
  <2>2. /\ NextPeer(u, old).key = old.key /\ NextPeer(u, old).generation = old.generation
        /\ <<old.peer, NextPeer(u, old).peer>> \in
              {<<"Unpaired", "Pending">>, <<"Pending", "Committing">>, <<"Committing", "Paired">>}
        /\ NextPeer(u, old) \in Value
    BY <2>1 DEF Value, PeerStates
  <2> QED
    BY <2>2 DEF Legal, Register!Advanced
<1>4. CASE user[u].op = "unpair"
  <2>1. CASE old.peer = "Revoking"
    <3>1. NextPeer(u, old) = [old EXCEPT !.peer = "Unpaired"]
      BY <1>4, <2>1 DEF NextPeer
    <3>2. NextPeer(u, old) = [key |-> old.key, generation |-> old.generation, peer |-> "Unpaired"]
      BY <3>1 DEF Value
    <3>3. NextPeer(u, old) \in Value
      BY <3>2 DEF Value, PeerStates
    <3> QED
      BY <2>1, <3>2, <3>3 DEF Legal, Register!Forgotten, Register!Identity
  <2>2. CASE old.peer # "Revoking"
    <3>1. /\ old.peer \in {"Pending", "Committing", "Paired"} /\ old.generation < GenerationMax
          /\ NextPeer(u, old) = Identity(old.key, old.generation + 1, "Revoking")
      BY <1>4, <2>2 DEF NextPeer
    <3>2. NextPeer(u, old) \in Value
      BY <3>1 DEF Value, PeerStates, Identity
    <3> QED
      BY <3>1, <3>2 DEF Legal, Register!Revoked, Register!Identity, Identity
  <2> QED
    BY <2>1, <2>2
<1>5. CASE user[u].op \notin {"init", "set", "unpair"}
  BY <1>5 DEF NextPeer
<1> QED
  BY <1>2, <1>3, <1>4, <1>5

\* The steps before the lock is held, and the ones that take it.
LEMMA OpenKeeps ==
    ASSUME FileInv, NEW u \in User,
           (\E op \in {"init", "set", "unpair", "read"} : Opens(u, op)) \/ Locks(u) \/ OpenFails(u)
    PROVE  FileInv'
<1>1. FileTypeOK /\ user[u] \in Operation
  BY DEF FileInv, FileTypeOK
<1>2. CASE OpenFails(u)
  BY <1>2, <1>1, ReturnsKeeps DEF OpenFails, FileTypeOK
<1>3. CASE \E op \in {"init", "set", "unpair", "read"} : Opens(u, op)
  <2>1. PICK op \in {"init", "set", "unpair", "read"} : Opens(u, op)
    BY <1>3
  <2> DEFINE o == [NoOperation EXCEPT !.op = op, !.at = "scanned"]
  <2>2. o \in Operation /\ o.at = "scanned"
    BY Values DEF Operation, Places
  <2>3. /\ user' \in [User -> Operation] /\ user'[u] = o
        /\ \A v \in User : v # u => user'[v] = user[v]
    BY <1>1, <2>1, <2>2, Moves DEF Opens
  <2>4. UNCHANGED <<canonical, disk, tmp, lock>>
    BY <2>1 DEF Opens
  <2>5. FileTypeOK'
    BY <1>1, <2>3, <2>4 DEF FileTypeOK
  <2>6. Holds(u)' /\ PublishesNext(u)'
    BY <2>2, <2>3 DEF Holds, PublishesNext, Locked, Publishing
  <2>7. ASSUME NEW v \in User, v # u PROVE Holds(v)' /\ PublishesNext(v)'
    BY <2>3, <2>4, <2>7 DEF FileInv, Holds, PublishesNext
  <2> QED
    BY <2>5, <2>6, <2>7 DEF FileInv
<1>4. CASE Locks(u)
  <2>1. /\ lock = NoUser /\ lock' = u /\ Goes(u, "locked")
        /\ UNCHANGED <<canonical, disk, tmp>>
    BY <1>4 DEF Locks
  <2>2. /\ user' \in [User -> Operation] /\ user'[u].at = "locked"
        /\ \A v \in User : v # u => user'[v] = user[v]
    BY <1>1, <2>1, GoesMoves DEF Places, Locked
  <2>3. FileTypeOK'
    BY <1>1, <2>1, <2>2 DEF FileTypeOK
  <2>4. Holds(u)' /\ PublishesNext(u)'
    BY <2>1, <2>2 DEF Holds, PublishesNext, Publishing
  <2>5. ASSUME NEW v \in User, v # u PROVE Holds(v)' /\ PublishesNext(v)'
    <3>1. user[v].at \notin Locked
      BY <2>1, UserAssumption DEF FileInv, Holds, NoUser
    <3>2. user'[v].at \notin Locked
      BY <2>2, <2>5, <3>1
    <3> QED
      BY <3>2 DEF Holds, PublishesNext, Locked, Publishing
  <2> QED
    BY <2>3, <2>4, <2>5 DEF FileInv
<1> QED
  BY <1>2, <1>3, <1>4

\* The holder of the lock moves on: all that has to be shown is its own part.
LEMMA HolderMoves ==
    ASSUME FileInv, NEW u \in User, user[u].at \in Locked, NEW o \in Operation,
           user' = [user EXCEPT ![u] = o], UNCHANGED lock,
           canonical' \in Value, disk' \in Value, tmp' \in [value : Value, synced : BOOLEAN],
           PublishesNext(u)'
    PROVE  FileInv'
<1>1. /\ user' \in [User -> Operation] /\ user'[u] = o
      /\ \A v \in User : v # u => user'[v] = user[v]
  BY Moves DEF FileInv
<1>2. FileTypeOK'
  BY <1>1 DEF FileTypeOK
<1>3. Holds(u)'
  BY DEF FileInv, Holds
<1>4. ASSUME NEW v \in User, v # u PROVE Holds(v)' /\ PublishesNext(v)'
  BY <1>1, <1>4, OthersKeep
<1> QED
  BY <1>2, <1>3, <1>4 DEF FileInv

\* What is read under the lock is changed legally, or the operation ends.
LEMMA LoadsKeeps ==
    ASSUME FileInv, NEW u \in User, Loads(u)
    PROVE  FileInv'
<1> DEFINE next == NextPeer(u, canonical)
<1>1. /\ FileTypeOK /\ user[u] \in Operation /\ user[u].at = "locked" /\ canonical \in Value
      /\ UNCHANGED <<canonical, disk, tmp>>
  BY DEF FileInv, FileTypeOK, Loads, UserAt
<1>2. user[u].at \in Locked
  BY <1>1 DEF Locked
<1>3. CASE Returns(u)
  BY <1>1, <1>2, <1>3, ReturnsKeeps DEF FileTypeOK
<1>4. CASE ~Returns(u)
  <2>1. /\ next # canonical /\ (user[u].op = "init" => canonical = Missing)
        /\ user' = [user EXCEPT ![u].at = "clear", ![u].have = canonical, ![u].then = next]
        /\ lock' = lock
    BY <1>4 DEF Loads
  <2>2. Legal(canonical, next) /\ next \in Value
    BY <1>1, <2>1, NextIsLegal
  <2> DEFINE o == [user[u] EXCEPT !.at = "clear", !.have = canonical, !.then = next]
  <2>3. o \in Operation /\ o.at = "clear" /\ o.then = next
    BY <1>1, <2>2 DEF Operation, Places, Locked, Publishing
  <2>4. user' = [user EXCEPT ![u] = o]
    BY <2>1
  <2>5. user'[u] = o
    BY <1>1, <2>3, <2>4, Moves
  <2>6. PublishesNext(u)'
    BY <1>1, <2>2, <2>3, <2>5 DEF PublishesNext, Legal, Register!Created, Register!Advanced,
          Register!Revoked, Register!Forgotten
  <2> HIDE DEF o
  <2> QED
    BY <1>1, <1>2, <2>1, <2>3, <2>4, <2>6, HolderMoves DEF FileTypeOK
<1> QED
  BY <1>3, <1>4

\* The temporary file is cleared, written and synced by the holder of the lock.
LEMMA TemporaryKeeps ==
    ASSUME FileInv, NEW u \in User, ClearsTmp(u) \/ WritesTmp(u) \/ SyncsTmp(u)
    PROVE  FileInv'
<1>1. /\ FileTypeOK /\ user[u] \in Operation /\ UNCHANGED <<canonical, disk, lock>>
      /\ user[u].then \in Value
  BY DEF FileInv, FileTypeOK, ClearsTmp, WritesTmp, SyncsTmp, Operation
<1>2. /\ user[u].at \in Publishing /\ user[u].at \in Locked
      /\ Legal(canonical, user[u].then)
  BY DEF FileInv, PublishesNext, ClearsTmp, WritesTmp, SyncsTmp, UserAt, Publishing, Locked
<1>3. Legal(canonical', user[u].then)
  BY <1>1, <1>2
<1> DEFINE Going(at) == [user[u] EXCEPT !.at = at]
<1>4. ASSUME NEW at \in Publishing, Goes(u, at), tmp' \in [value : Value, synced : BOOLEAN],
             at \in {"sync", "rename"} => tmp'.value = user[u].then,
             at = "rename" => tmp'.synced
      PROVE  FileInv'
  <2>1. at \in Places
    BY <1>4 DEF Places, Locked
  <2>2. /\ user'[u] = Going(at) /\ user'[u].at = at /\ user'[u].then = user[u].then
        /\ user' \in [User -> Operation]
    BY <1>1, <1>4, <2>1, GoesMoves
  <2>3. Going(at) \in Operation /\ user' = [user EXCEPT ![u] = Going(at)]
    BY <1>4, <2>2 DEF Goes
  <2>4. PublishesNext(u)'
    BY <1>3, <1>4, <2>2 DEF PublishesNext, Publishing, Legal, Register!Created,
          Register!Advanced, Register!Revoked, Register!Forgotten
  <2> HIDE DEF Going
  <2> QED
    BY <1>1, <1>2, <1>4, <2>3, <2>4, HolderMoves DEF FileTypeOK
<1>5. CASE ClearsTmp(u)
  <2>1. tmp' = NoTmp /\ Goes(u, "write")
    BY <1>5 DEF ClearsTmp
  <2> QED
    BY <2>1, <1>4, Values DEF Publishing
<1>6. CASE WritesTmp(u)
  <2>1. tmp' = [value |-> user[u].then, synced |-> FALSE] /\ Goes(u, "sync")
    BY <1>6 DEF WritesTmp
  <2>2. tmp' \in [value : Value, synced : BOOLEAN] /\ tmp'.value = user[u].then
    BY <1>1, <2>1
  <2> QED
    BY <2>1, <2>2, <1>4 DEF Publishing
<1>7. CASE SyncsTmp(u)
  <2>1. user[u].at = "sync" /\ tmp' = [tmp EXCEPT !.synced = TRUE] /\ Goes(u, "rename")
    BY <1>7 DEF SyncsTmp, UserAt
  <2>2. tmp \in [value : Value, synced : BOOLEAN] /\ tmp.value = user[u].then
    BY <1>1, <2>1 DEF FileTypeOK, FileInv, PublishesNext
  <2>3. tmp' \in [value : Value, synced : BOOLEAN] /\ tmp'.value = user[u].then /\ tmp'.synced
    BY <2>1, <2>2
  <2> QED
    BY <2>1, <2>3, <1>4 DEF Publishing
<1> QED
  BY <1>5, <1>6, <1>7

\* The rename makes the change that was decided on, whole.
LEMMA RenamesPublishes ==
    ASSUME FileInv, NEW u \in User, Renames(u)
    PROVE  Legal(canonical, canonical') /\ disk' = disk /\ canonical' \in Value
<1>1. user[u].at = "rename" /\ user[u] \in Operation
  BY DEF Renames, UserAt, FileInv, FileTypeOK
<1>2. tmp.value = user[u].then /\ tmp.synced /\ Legal(canonical, user[u].then)
  BY <1>1 DEF FileInv, PublishesNext, Publishing
<1>3. canonical' = user[u].then /\ disk' = disk
  BY <1>2 DEF Renames
<1>4. canonical' \in Value
  BY <1>1, <1>3 DEF Operation
<1> QED
  BY <1>2, <1>3, <1>4

\* The rename publishes the legal change that the lock holder prepared.
LEMMA RenamesKeeps ==
    ASSUME FileInv, NEW u \in User, Renames(u)
    PROVE  FileInv'
<1>1. /\ FileTypeOK /\ user[u] \in Operation /\ user[u].at = "rename" /\ disk \in Value
      /\ tmp' = NoTmp /\ lock' = lock
      /\ user' = [user EXCEPT ![u].at = "directory", ![u].renamed = TRUE]
  BY DEF FileInv, FileTypeOK, Renames, UserAt
<1>2. canonical' \in Value /\ disk' \in Value /\ tmp' \in [value : Value, synced : BOOLEAN]
  BY <1>1, RenamesPublishes, Values
<1> DEFINE o == [user[u] EXCEPT !.at = "directory", !.renamed = TRUE]
<1>3. o \in Operation /\ o.at = "directory"
  BY <1>1 DEF Operation, Places, Locked
<1>4. user' = [user EXCEPT ![u] = o]
  BY <1>1
<1>5. user'[u].at = "directory"
  BY <1>1, <1>3, <1>4, Moves
<1>6. PublishesNext(u)'
  BY <1>5 DEF PublishesNext, Publishing
<1>7. user[u].at \in Locked
  BY <1>1 DEF Locked, Publishing
<1> HIDE DEF o
<1> QED
  BY <1>1, <1>2, <1>3, <1>4, <1>6, <1>7, HolderMoves

\* The directory is synced, and an unpair goes on from what it revoked.
LEMMA DirectoryKeeps ==
    ASSUME FileInv, NEW u \in User, SyncsDirectory(u) \/ Joined(u)
    PROVE  FileInv'
<1>1. /\ FileTypeOK /\ user[u] \in Operation /\ canonical \in Value
      /\ UNCHANGED <<canonical, tmp>> /\ tmp \in [value : Value, synced : BOOLEAN]
      /\ disk' \in Value /\ user[u].at \in {"directory", "joined"}
  BY DEF FileInv, FileTypeOK, SyncsDirectory, Joined, UserAt
<1>2. user[u].at \in Locked
  BY <1>1 DEF Locked
<1>3. CASE Returns(u)
  BY <1>1, <1>2, <1>3, ReturnsKeeps
<1>4. CASE SyncsDirectory(u) /\ ~Returns(u)
  <2>1. /\ canonical.peer = "Revoking" /\ lock' = lock /\ Goes(u, "joined")
    BY <1>4 DEF SyncsDirectory, Goes
  <2>2. /\ user'[u] = [user[u] EXCEPT !.at = "joined"] /\ user'[u].at = "joined"
        /\ user' \in [User -> Operation]
    BY <1>1, <2>1, GoesMoves DEF Places, Locked
  <2>3. user' = [user EXCEPT ![u] = user'[u]] /\ user'[u] \in Operation
    BY <2>1, <2>2 DEF Goes
  <2>4. PublishesNext(u)'
    BY <1>1, <2>1, <2>2 DEF PublishesNext, Publishing
  <2> QED
    BY <1>1, <1>2, <2>1, <2>3, <2>4, HolderMoves
<1>5. CASE Joined(u)
  <2> DEFINE next == [canonical EXCEPT !.peer = "Unpaired"]
             o == [user[u] EXCEPT !.at = "clear", !.have = canonical, !.then = next]
  <2>1. /\ user[u].at = "joined" /\ lock' = lock /\ user' = [user EXCEPT ![u] = o]
    BY <1>5 DEF Joined, UserAt
  <2>2. canonical.peer = "Revoking"
    BY <2>1 DEF FileInv, PublishesNext
  <2>3. /\ next = [key |-> canonical.key, generation |-> canonical.generation, peer |-> "Unpaired"]
        /\ next \in Value
    BY <1>1 DEF Value, PeerStates
  <2>4. Legal(canonical', next)
    BY <1>1, <2>2, <2>3 DEF Legal, Register!Forgotten, Register!Identity
  <2> HIDE DEF next
  <2>5. o \in Operation /\ o.at = "clear" /\ o.then = next
    BY <1>1, <2>3 DEF Operation, Places, Locked, Publishing
  <2>6. user'[u].at = "clear" /\ user'[u].then = next
    BY <1>1, <2>1, <2>5, Moves
  <2>7. PublishesNext(u)'
    BY <2>4, <2>6 DEF PublishesNext, Publishing, Legal, Register!Created,
          Register!Advanced, Register!Revoked, Register!Forgotten
  <2> HIDE DEF o
  <2> QED
    BY <1>1, <1>2, <2>1, <2>5, <2>7, HolderMoves
<1> QED
  BY <1>3, <1>4, <1>5

\* What crashes, failures and losses of power leave is within the invariant.
LEMMA FaultsKeep ==
    ASSUME FileInv, PowerLoss \/ WriteBack \/ \E u \in User : Reads(u) \/ Fails(u) \/ Dies(u)
    PROVE  FileInv'
<1>1. /\ FileTypeOK /\ canonical \in Value /\ disk \in Value
      /\ tmp \in [value : Value, synced : BOOLEAN]
  BY DEF FileInv, FileTypeOK
<1>2. CASE PowerLoss
  <2>1. /\ canonical' \in Value /\ disk' \in Value /\ tmp' \in [value : Value, synced : BOOLEAN]
        /\ user' = [u \in User |-> NoOperation]
    BY <1>1, <1>2, Values DEF PowerLoss
  <2>2. FileTypeOK'
    BY <2>1, Values DEF FileTypeOK
  <2>3. \A u \in User : Holds(u)' /\ PublishesNext(u)'
    BY <2>1 DEF Holds, PublishesNext, NoOperation, Locked, Publishing
  <2> QED
    BY <2>2, <2>3 DEF FileInv
<1>3. CASE WriteBack
  <2>1. UNCHANGED <<canonical, tmp, lock, user>> /\ disk' \in Value
    BY <1>1, <1>3 DEF WriteBack
  <2>2. FileTypeOK'
    BY <1>1, <2>1 DEF FileTypeOK
  <2>3. \A u \in User : Holds(u)' /\ PublishesNext(u)'
    BY <2>1 DEF FileInv, Holds, PublishesNext
  <2> QED
    BY <2>2, <2>3 DEF FileInv
<1>4. ASSUME NEW u \in User, Reads(u) PROVE FileInv'
  <2>1. user[u].at \in Locked
    BY <1>4 DEF Reads, UserAt, Locked
  <2> QED
    BY <1>1, <1>4, <2>1, Values, ReturnsKeeps DEF Reads
<1>5. ASSUME NEW u \in User, Fails(u) \/ Dies(u) PROVE FileInv'
  BY <1>1, <1>5, ReturnsKeeps DEF Fails, Dies
<1> QED
  BY <1>2, <1>3, <1>4, <1>5
-----------------------------------------------------------------------------

\* At every moment one user at most is past the lock, and what it is about to
\* rename over the identity is a synced, legal change of what readers see
\* (lock_identity, publish_locked_with_rename_hook), for any set of users.
THEOREM FileInvariance == FileSpec => []FileInv
<1>1. FileInit => FileInv
  <2> SUFFICES ASSUME FileInit PROVE FileInv
    OBVIOUS
  <2>1. FileTypeOK
    BY Values DEF FileInit, FileTypeOK
  <2>2. \A u \in User : Holds(u) /\ PublishesNext(u)
    BY DEF FileInit, Holds, PublishesNext, NoOperation, Locked, Publishing
  <2> QED
    BY <2>1, <2>2 DEF FileInv
<1>2. FileInv /\ [FileNext]_fileVars => FileInv'
  <2> SUFFICES ASSUME FileInv, [FileNext]_fileVars PROVE FileInv'
    OBVIOUS
  <2>1. CASE UNCHANGED fileVars
    BY <2>1 DEF fileVars, FileInv, FileTypeOK, Holds, PublishesNext, Legal, Register!Created,
          Register!Advanced, Register!Revoked, Register!Forgotten
  <2>2. CASE PowerLoss \/ WriteBack \/ \E u \in User : Reads(u) \/ Fails(u) \/ Dies(u)
    BY <2>2, FaultsKeep
  <2>3. ASSUME NEW u \in User,
               (\E op \in {"init", "set", "unpair", "read"} : Opens(u, op)) \/ Locks(u) \/ OpenFails(u)
        PROVE  FileInv'
    BY <2>3, OpenKeeps
  <2>4. ASSUME NEW u \in User, Loads(u) PROVE FileInv'
    BY <2>4, LoadsKeeps
  <2>5. ASSUME NEW u \in User, ClearsTmp(u) \/ WritesTmp(u) \/ SyncsTmp(u) PROVE FileInv'
    BY <2>5, TemporaryKeeps
  <2>6. ASSUME NEW u \in User, Renames(u) PROVE FileInv'
    BY <2>6, RenamesKeeps
  <2>7. ASSUME NEW u \in User, SyncsDirectory(u) \/ Joined(u) PROVE FileInv'
    BY <2>7, DirectoryKeeps
  <2> QED
    BY <2>1, <2>2, <2>3, <2>4, <2>5, <2>6, <2>7 DEF FileNext
<1> QED
  BY <1>1, <1>2, PTL DEF FileSpec

\* The files implement the register: a rename is one legal change of the visible
\* record, a sync of the directory makes it durable, a loss of power takes back
\* what was not, and nothing else is seen (publish_locked_with_rename_hook).
THEOREM FilesAreARegister == FileSpec => ImplementsRegister
<1>1. FileInit => Register!RegisterInit
  BY DEF FileInit, Register!RegisterInit, Register!Missing, Register!Identity, Missing, Identity
<1>2. FileInv /\ [FileNext]_fileVars => [Register!RegisterNext]_<<canonical, disk>>
  <2> SUFFICES ASSUME FileInv, [FileNext]_fileVars
               PROVE  [Register!RegisterNext]_<<canonical, disk>>
    OBVIOUS
  <2>1. CASE UNCHANGED fileVars
    BY <2>1 DEF fileVars
  <2>2. CASE PowerLoss
    BY <2>2 DEF PowerLoss, Register!RegisterNext, Register!Lose
  <2>3. CASE WriteBack
    BY <2>3 DEF WriteBack, Register!RegisterNext, Register!Persist
  <2>4. ASSUME NEW u \in User, Renames(u) PROVE Register!RegisterNext
    BY <2>4, RenamesPublishes DEF Legal, Register!RegisterNext, Register!Change
  <2>5. ASSUME NEW u \in User, SyncsDirectory(u) PROVE Register!RegisterNext
    BY <2>5 DEF SyncsDirectory, Register!RegisterNext, Register!Persist
  <2>6. ASSUME NEW u \in User,
               \/ \E op \in {"init", "set", "unpair", "read"} : Opens(u, op)
               \/ Locks(u) \/ OpenFails(u) \/ Loads(u) \/ Reads(u) \/ ClearsTmp(u) \/ WritesTmp(u)
               \/ SyncsTmp(u) \/ Joined(u) \/ Fails(u) \/ Dies(u)
        PROVE  UNCHANGED <<canonical, disk>>
    BY <2>6 DEF Opens, Locks, OpenFails, Loads, Reads, ClearsTmp, WritesTmp, SyncsTmp, Joined,
          Fails, Dies
  <2> QED
    BY <2>1, <2>2, <2>3, <2>4, <2>5, <2>6 DEF FileNext
<1> QED
  BY <1>1, <1>2, FileInvariance, PTL DEF FileSpec, ImplementsRegister, Register!RegisterSpec

\* What an operation reported as stored is what readers see and what a loss of
\* power leaves, until another operation renames a new identity into place.
THEOREM AcknowledgedSurvives == FileSpec => []AckedIsDurable
<1>1. FileInit => AckedIsDurable
  BY DEF FileInit, AckedIsDurable
<1>2. AckedIsDurable /\ [FileNext]_fileVars => AckedIsDurable'
  <2> SUFFICES ASSUME AckedIsDurable, [FileNext]_fileVars PROVE AckedIsDurable'
    OBVIOUS
  <2>1. CASE UNCHANGED fileVars
    BY <2>1 DEF fileVars, AckedIsDurable
  <2>2. CASE PowerLoss \/ WriteBack
    BY <2>2 DEF PowerLoss, WriteBack, AckedIsDurable
  <2>3. ASSUME NEW u \in User, Renames(u) PROVE AckedIsDurable'
    BY <2>3 DEF Renames, AckedIsDurable
  <2>4. ASSUME NEW u \in User, SyncsDirectory(u) PROVE AckedIsDurable'
    BY <2>4 DEF SyncsDirectory, AckedIsDurable
  <2>5. ASSUME NEW u \in User,
               \/ \E op \in {"init", "set", "unpair", "read"} : Opens(u, op)
               \/ Locks(u) \/ OpenFails(u) \/ Loads(u) \/ Reads(u) \/ ClearsTmp(u) \/ WritesTmp(u)
               \/ SyncsTmp(u) \/ Joined(u) \/ Fails(u) \/ Dies(u)
        PROVE  AckedIsDurable'
    BY <2>5 DEF Opens, Locks, OpenFails, Loads, Reads, ClearsTmp, WritesTmp, SyncsTmp, Joined,
          Fails, Dies, AckedIsDurable
  <2> QED
    BY <2>1, <2>2, <2>3, <2>4, <2>5 DEF FileNext
<1> QED
  BY <1>1, <1>2, PTL DEF FileSpec

-----------------------------------------------------------------------------
(* The records of the runs                                                 *)

StoredRecord == [is : {"absent", "partial", "terminal"}, success : BOOLEAN, crash : BOOLEAN,
           retained : BOOLEAN, created : Nat]
Section == {"recover", "rename", "unmark", "job", "enforce", "unlock"}
JobPlace == Section \cup {"idle", "publish", "end", "ended"}
JobKind == {"none", "start", "finish", "retain", "unretain", "delete"}
Continuation == {"idle", "unmark", "enforce", "unlock"}
Job == [at : JobPlace, kind : JobKind, run : Run \cup {NoProcess}, record : StoredRecord,
        target : Run \cup {NoProcess}, write : StoredRecord, then : Continuation]

RecorderTypeOK ==
    /\ store \in [Run -> StoredRecord] /\ proc \in [Recording -> Job]
    /\ marker \subseteq Run /\ held \in [Run -> Recording \cup {NoProcess}]
    /\ runner \in [Run -> Recording \cup {NoProcess, Gone}]
    /\ reported \subseteq Run /\ begun \in [Run -> Nat]

\* Whoever is past store.lock holds it.
LockIsHeld == \A p \in Recording : proc[p].at \in Section => lockedBy = p

\* A run that nobody has begun has left nothing.
NewRunsAreClean ==
    \A r \in Run : runner[r] = NoProcess =>
        /\ r \notin marker /\ held[r] = NoProcess
        /\ r \notin reported /\ store[r].is = "absent"

\* The marker of a run whose process lives is locked by that process, until
\* end_live_run has let go of it.
MarkersAreHeld ==
    \A r \in Run : runner[r] \in Recording =>
        /\ held[r] = runner[r] => r \in marker
        /\ r \in marker => \/ held[r] = runner[r]
                           \/ proc[runner[r]].at = "ended" /\ proc[runner[r]].run = r

\* A process publishes the runs that are its own, each with the record it has
\* to show: in progress until the terminal one.
OwnRun(p) ==
    LET job == proc[p] IN
    /\ job.kind # "none" => job.run \in Run
    /\ job.kind \in {"start", "finish"} \/ job.at \in {"end", "ended"} =>
          job.run \in Run /\ runner[job.run] = p
    /\ job.kind = "start" => job.record.is = "partial" /\ ~job.record.crash
                             /\ job.run \notin reported
    /\ job.kind = "finish" => job.record.is = "terminal" /\ ~job.record.crash
    /\ job.at \in Section \cup {"publish"} => job.kind # "none"

\* A crash is nothing that its own process would deny.
Lost(r) ==
    /\ r \notin reported /\ runner[r] # NoProcess
    /\ runner[r] \in Recording => r \notin Owned /\ held[r] # runner[r]

\* What is being written is as true as what is stored, and there is room for it.
WriteIsSound(p) ==
    LET job == proc[p] IN
    /\ job.at = "rename" =>
          /\ job.target \in Run /\ runner[job.target] # NoProcess
          /\ job.write.is # "absent" /\ job.then # "idle"
          /\ job.write.crash => Lost(job.target)
          /\ job.write.is = "partial" => job.target \notin reported
          /\ job.then = "unmark" => job.write.crash
          /\ job.then = "enforce" /\ job.kind = "finish" =>
                job.target = job.run /\ job.write.is = "terminal" /\ ~job.write.crash
          /\ job.target \in Present \/ Cardinality(Present) + 1 <= ByteMax
    /\ job.at = "unmark" => job.target \in Run /\ Lost(job.target)

RecordIsSound(r) ==
    /\ store[r].crash => Lost(r)
    /\ store[r].is = "partial" => r \notin reported
    /\ store[r].is = "absent" => ~store[r].retained

RoomIsKept == IsFiniteSet(Present) /\ Cardinality(Present) <= ByteMax

RecorderInv ==
    /\ RecorderTypeOK /\ LockIsHeld /\ NewRunsAreClean /\ MarkersAreHeld
    /\ \A p \in Recording : OwnRun(p) /\ WriteIsSound(p)
    /\ \A r \in Run : RecordIsSound(r)
    /\ RoomIsKept

-----------------------------------------------------------------------------
(* One process at a time                                                   *)

\* What a step that only moves one process on leaves of it.
LEMMA JobMoves ==
    ASSUME RecorderTypeOK, NEW p \in Recording, NEW at \in JobPlace, To(p, at)
    PROVE  /\ proc' \in [Recording -> Job] /\ proc'[p].at = at
           /\ proc'[p].kind = proc[p].kind /\ proc'[p].run = proc[p].run
           /\ proc'[p].record = proc[p].record /\ proc'[p].target = proc[p].target
           /\ proc'[p].write = proc[p].write /\ proc'[p].then = proc[p].then
           /\ \A q \in Recording : q # p => proc'[q] = proc[q]
<1> DEFINE o == [proc[p] EXCEPT !.at = at]
<1>1. proc[p] \in Job /\ proc \in [Recording -> Job]
  BY DEF RecorderTypeOK
<1>2. /\ o \in Job /\ o.at = at /\ o.kind = proc[p].kind /\ o.run = proc[p].run
      /\ o.record = proc[p].record /\ o.target = proc[p].target
      /\ o.write = proc[p].write /\ o.then = proc[p].then
  BY <1>1 DEF Job
<1>3. proc' = [proc EXCEPT ![p] = o]
  BY DEF To
<1> HIDE DEF o
<1> QED BY <1>1, <1>2, <1>3

\* A process that takes up a job, or ends one.
LEMMA JobTaken ==
    ASSUME RecorderTypeOK, NEW p \in Recording, NEW o \in Job, proc' = [proc EXCEPT ![p] = o]
    PROVE  /\ proc' \in [Recording -> Job] /\ proc'[p] = o
           /\ \A q \in Recording : q # p => proc'[q] = proc[q]
BY DEF RecorderTypeOK

\* atomic_write's temporary file: the job goes on to the rename.
LEMMA JobWrites ==
    ASSUME RecorderTypeOK, NEW p \in Recording, NEW r \in Run, NEW w \in StoredRecord,
           NEW then \in Continuation, WritesTemp(p, r, w, then)
    PROVE  /\ proc' \in [Recording -> Job] /\ proc'[p].at = "rename"
           /\ proc'[p].kind = proc[p].kind /\ proc'[p].run = proc[p].run
           /\ proc'[p].record = proc[p].record /\ proc'[p].target = r
           /\ proc'[p].write = w /\ proc'[p].then = then
           /\ \A q \in Recording : q # p => proc'[q] = proc[q]
<1> DEFINE o == [proc[p] EXCEPT !.at = "rename", !.target = r, !.write = w, !.then = then]
<1>1. proc[p] \in Job /\ proc \in [Recording -> Job]
  BY DEF RecorderTypeOK
<1>2. /\ o \in Job /\ o.at = "rename" /\ o.kind = proc[p].kind /\ o.run = proc[p].run
      /\ o.record = proc[p].record /\ o.target = r /\ o.write = w /\ o.then = then
  BY <1>1 DEF Job, JobPlace, Section
<1>3. proc' = [proc EXCEPT ![p] = o]
  BY DEF WritesTemp
<1> HIDE DEF o
<1> QED BY <1>1, <1>2, <1>3

\* Only one process is past store.lock.
LEMMA OneInSection ==
    ASSUME RecorderInv, NEW p \in Recording, proc[p].at \in Section,
           NEW q \in Recording, q # p
    PROVE  proc[q].at \notin Section
BY DEF RecorderInv, LockIsHeld

\* What a process publishes stays its own while the others work.
LEMMA OthersOwn ==
    ASSUME RecorderInv, NEW p \in Recording, NEW q \in Recording, q # p, proc'[q] = proc[q],
           \A r \in Run : runner[r] = q => runner'[r] = q,
           \A r \in reported' : r \in reported \/ runner[r] = p
    PROVE  OwnRun(q)'
<1>1. OwnRun(q)
  BY DEF RecorderInv
<1> QED BY <1>1 DEF OwnRun

\* What a process is about to write stays sound: while it holds the lock, the
\* others change no record and settle no run.
LEMMA OthersWrite ==
    ASSUME RecorderInv, NEW p \in Recording, NEW q \in Recording, q # p, proc'[q] = proc[q],
           \/ proc[p].at \in Section
           \/ /\ store' = store /\ reported' = reported
              /\ \A r \in Run : Lost(r) => Lost(r)'
              /\ \A r \in Run : runner[r] # NoProcess => runner'[r] # NoProcess
    PROVE  WriteIsSound(q)'
<1>1. WriteIsSound(q)
  BY DEF RecorderInv
<1>2. CASE proc[p].at \in Section
  <2>1. proc[q].at \notin Section
    BY <1>2, OneInSection
  <2> QED BY <2>1 DEF WriteIsSound, Section
<1>3. CASE /\ store' = store /\ reported' = reported
           /\ \A r \in Run : Lost(r) => Lost(r)'
           /\ \A r \in Run : runner[r] # NoProcess => runner'[r] # NoProcess
  <2>1. Present' = Present
    BY <1>3 DEF Present
  <2>2. PICK t : t = proc[q].target
    OBVIOUS
  <2>3. proc[q].at \in {"rename", "unmark"} => t \in Run
    BY <1>1, <2>2 DEF WriteIsSound
  <2>4. proc'[q].target = t /\ (t \in Run /\ Lost(t) => Lost(t)')
    BY <1>3, <2>2
  <2> QED BY <1>1, <1>3, <2>1, <2>2, <2>3, <2>4 DEF WriteIsSound
<1> QED BY <1>2, <1>3

\* The own part of a job that keeps its run.
LEMMA OwnStays ==
    ASSUME RecorderInv, NEW p \in Recording, runner' = runner, reported' = reported,
           proc'[p].kind = proc[p].kind, proc'[p].run = proc[p].run,
           proc'[p].record = proc[p].record,
           proc'[p].at \in {"end", "ended"} => proc[p].at \in {"end", "ended"},
           proc'[p].at \in Section \cup {"publish"} => proc[p].at \in Section \cup {"publish"}
    PROVE  OwnRun(p)'
<1>1. OwnRun(p)
  BY DEF RecorderInv
<1> QED BY <1>1 DEF OwnRun

\* A step of one process that changes no file, no marker and no run.
LEMMA QuietKeeps ==
    ASSUME RecorderInv, NEW p \in Recording, proc' \in [Recording -> Job],
           \A q \in Recording : q # p => proc'[q] = proc[q],
           UNCHANGED <<store, marker, held, runner, reported, begun>>,
           proc[p].at # "ended", OwnRun(p)', WriteIsSound(p)',
           proc'[p].at \in Section => lockedBy' = p,
           lockedBy' = lockedBy \/ lockedBy = NoProcess \/ proc[p].at \in Section
    PROVE  RecorderInv'
<1>1. RecorderTypeOK'
  BY DEF RecorderInv, RecorderTypeOK
<1>2. \A r \in Run : Lost(r)' = Lost(r)
  BY DEF Lost
<1>3. \A q \in Recording : OwnRun(q)' /\ WriteIsSound(q)'
  <2> SUFFICES ASSUME NEW q \in Recording, q # p PROVE OwnRun(q)' /\ WriteIsSound(q)'
    OBVIOUS
  <2>1. \A r \in Run : Lost(r) => Lost(r)'
    BY <1>2
  <2> QED BY <2>1, OthersOwn, OthersWrite
<1>4. LockIsHeld'
  <2> SUFFICES ASSUME NEW q \in Recording, q # p, proc[q].at \in Section PROVE lockedBy' = q
    BY DEF LockIsHeld
  <2>1. lockedBy = q /\ q # NoProcess
    BY RecordingAssumption DEF RecorderInv, LockIsHeld, NoProcess
  <2> QED BY <2>1, OneInSection
<1>5. NewRunsAreClean' /\ MarkersAreHeld'
  BY DEF RecorderInv, RecorderTypeOK, NewRunsAreClean, MarkersAreHeld
<1>6. Present' = Present
  BY DEF Present
<1>7. (\A r \in Run : RecordIsSound(r)') /\ RoomIsKept'
  BY <1>2, <1>6 DEF RecorderInv, RecordIsSound, RoomIsKept
<1> QED BY <1>1, <1>3, <1>4, <1>5, <1>7 DEF RecorderInv

-----------------------------------------------------------------------------
(* Jobs taken up and passed on                                             *)

\* The records and jobs that the actions build.
LEMMA RecorderValues ==
    /\ Absent \in StoredRecord /\ NoJob \in Job
    /\ \A d \in Nat : Partial(d) \in StoredRecord /\ Partial(d).is = "partial" /\ Partial(d).crash = FALSE
    /\ \A s \in BOOLEAN, d \in Nat :
          Outcome(s, d) \in StoredRecord /\ Outcome(s, d).is = "terminal" /\ Outcome(s, d).crash = FALSE
<1>1. Absent \in StoredRecord
  BY DEF Absent, StoredRecord
<1>2. NoJob \in Job
  BY <1>1 DEF NoJob, Job, JobPlace, JobKind, Continuation
<1> QED BY <1>1, <1>2 DEF Partial, Outcome, Absent, StoredRecord

\* A command's job has no record of its own.
LEMMA CommandBegins ==
    ASSUME NEW k \in JobKind, NEW r \in Run
    PROVE  \E o \in Job :
              /\ o = [NoJob EXCEPT !.at = "publish", !.kind = k, !.run = r]
              /\ o.at = "publish" /\ o.kind = k /\ o.run = r
<1> DEFINE o == [NoJob EXCEPT !.at = "publish", !.kind = k, !.run = r]
<1>1. o \in Job /\ o.at = "publish" /\ o.kind = k /\ o.run = r
  BY RecorderValues DEF NoJob, Job, JobPlace
<1> QED BY <1>1

\* The terminal record of a run waits for the lock.
LEMMA FinishRunKeeps ==
    ASSUME RecorderInv, NEW p \in Recording, NEW r \in Run, FinishRun(p, r)
    PROVE  RecorderInv'
<1>1. PICK s \in BOOLEAN, d \in IF r \in Owned THEN Date ELSE {begun[r]} :
         proc' = [proc EXCEPT ![p] = [NoJob EXCEPT !.at = "publish", !.kind = "finish",
                                             !.run = r, !.record = Outcome(s, d)]]
  BY DEF FinishRun
<1>2. d \in Nat /\ proc[p].at = "idle" /\ RecorderTypeOK
  BY <1>1, DateAssumption DEF RecorderInv, RecorderTypeOK, FinishRun
<1>3. PICK w \in StoredRecord : w = Outcome(s, d) /\ w.is = "terminal" /\ w.crash = FALSE
  BY <1>2, RecorderValues
<1>4. PICK o : /\ o = [NoJob EXCEPT !.at = "publish", !.kind = "finish", !.run = r, !.record = w]
               /\ o \in Job /\ o.at = "publish" /\ o.kind = "finish" /\ o.run = r /\ o.record = w
  <2>1. PICK o : o = [NoJob EXCEPT !.at = "publish", !.kind = "finish", !.run = r, !.record = w]
    OBVIOUS
  <2>2. "finish" \in JobKind
    BY DEF JobKind
  <2>3. o \in Job /\ o.at = "publish" /\ o.kind = "finish" /\ o.run = r /\ o.record = w
    BY <2>1, <2>2, RecorderValues DEF NoJob, Job, JobPlace
  <2> QED BY <2>1, <2>3
<1>5. /\ proc' \in [Recording -> Job] /\ proc'[p] = o
      /\ \A q \in Recording : q # p => proc'[q] = proc[q]
  BY <1>1, <1>2, <1>3, <1>4, JobTaken
<1>6. OwnRun(p)' /\ WriteIsSound(p)'
  BY <1>3, <1>4, <1>5 DEF FinishRun, OwnRun, WriteIsSound
<1> QED BY <1>2, <1>4, <1>5, <1>6, QuietKeeps DEF FinishRun, Section

\* An administration command waits for the lock.
LEMMA AdministerKeeps ==
    ASSUME RecorderInv, NEW p \in Recording, NEW r \in Run, Administer(p, r)
    PROVE  RecorderInv'
<1>1. PICK k \in {"retain", "unretain", "delete"} :
         proc' = [proc EXCEPT ![p] = [NoJob EXCEPT !.at = "publish", !.kind = k, !.run = r]]
  BY DEF Administer
<1>2. RecorderTypeOK /\ proc[p].at = "idle" /\ k \in JobKind
  BY DEF RecorderInv, Administer, JobKind
<1>3. PICK o \in Job :
         /\ o = [NoJob EXCEPT !.at = "publish", !.kind = k, !.run = r]
         /\ o.at = "publish" /\ o.kind = k /\ o.run = r
  BY <1>2, CommandBegins
<1>5. /\ proc' \in [Recording -> Job] /\ proc'[p] = o
      /\ \A q \in Recording : q # p => proc'[q] = proc[q]
  BY <1>1, <1>2, <1>3, JobTaken
<1>6. OwnRun(p)' /\ WriteIsSound(p)'
  BY <1>1, <1>3, <1>5 DEF OwnRun, WriteIsSound
<1> QED BY <1>2, <1>3, <1>5, <1>6, QuietKeeps DEF Administer, Section

\* A step in the section that only moves on.
LEMMA MovesOn ==
    ASSUME RecorderInv, NEW p \in Recording, NEW at \in {"recover", "job", "unlock"}, To(p, at),
           proc[p].at \in Section \cup {"publish"}, lockedBy' = p,
           lockedBy' = lockedBy \/ lockedBy = NoProcess,
           UNCHANGED <<store, marker, held, runner, reported, begun>>
    PROVE  RecorderInv'
<1>1. /\ proc' \in [Recording -> Job] /\ proc'[p].at = at
      /\ proc'[p].kind = proc[p].kind /\ proc'[p].run = proc[p].run
      /\ proc'[p].record = proc[p].record /\ \A q \in Recording : q # p => proc'[q] = proc[q]
  BY JobMoves DEF RecorderInv, JobPlace, Section
<1>2. WriteIsSound(p)'
  BY <1>1 DEF WriteIsSound
<1>3. OwnRun(p)'
  BY <1>1, OwnStays DEF Section
<1> QED BY <1>1, <1>2, <1>3, QuietKeeps DEF Section

\* The lock is taken.
LEMMA CleanupKeeps ==
    ASSUME RecorderInv, NEW p \in Recording, cleanup_stale_temps(p)
    PROVE  RecorderInv'
BY MovesOn DEF cleanup_stale_temps

\* Whoever is in the section and leaves files, markers and runs alone holds
\* the lock on.
LEMMA SectionMovesOn ==
    ASSUME RecorderInv, NEW p \in Recording, NEW at \in {"recover", "job", "unlock"}, To(p, at),
           proc[p].at \in Section, lockedBy' = lockedBy,
           UNCHANGED <<store, marker, held, runner, reported, begun>>
    PROVE  RecorderInv'
BY MovesOn DEF RecorderInv, LockIsHeld

\* The lock is given up, and a finished run's marker is next.
LEMMA UnlocksKeeps ==
    ASSUME RecorderInv, NEW p \in Recording, Unlocks(p)
    PROVE  RecorderInv'
<1>1. /\ proc[p].at = "unlock" /\ lockedBy' = NoProcess /\ RecorderTypeOK /\ OwnRun(p)
      /\ UNCHANGED <<store, temp, marker, held, runner, reported, begun, admins>>
  BY DEF Unlocks, RecorderInv
<1>2. CASE proc[p].kind = "finish"
  <2>1. PICK r \in Run : r = proc[p].run /\ runner[r] = p
    BY <1>1, <1>2 DEF OwnRun
  <2>2. PICK o \in Job : o = [NoJob EXCEPT !.at = "end", !.run = r] /\ o.at = "end"
                         /\ o.kind = "none" /\ o.run = r
    <3> DEFINE o == [NoJob EXCEPT !.at = "end", !.run = r]
    <3>1. o \in Job /\ o.at = "end" /\ o.kind = "none" /\ o.run = r
      BY RecorderValues DEF NoJob, Job, JobPlace
    <3> QED BY <3>1
  <2>3. /\ proc' \in [Recording -> Job] /\ proc'[p] = o
        /\ \A q \in Recording : q # p => proc'[q] = proc[q]
    BY <1>1, <1>2, <2>1, <2>2, JobTaken DEF Unlocks
  <2>4. OwnRun(p)' /\ WriteIsSound(p)'
    BY <1>1, <2>1, <2>2, <2>3 DEF OwnRun, WriteIsSound, Section
  <2> QED BY <1>1, <2>2, <2>3, <2>4, QuietKeeps DEF Section
<1>3. CASE proc[p].kind # "finish"
  <2>1. /\ proc' \in [Recording -> Job] /\ proc'[p] = NoJob
        /\ \A q \in Recording : q # p => proc'[q] = proc[q]
    BY <1>1, <1>3, JobTaken, RecorderValues DEF Unlocks
  <2>2. OwnRun(p)' /\ WriteIsSound(p)'
    BY <2>1 DEF OwnRun, WriteIsSound, NoJob, Section
  <2>3. proc'[p].at = "idle"
    BY <2>1 DEF NoJob
  <2> QED BY <1>1, <2>1, <2>2, <2>3, QuietKeeps DEF Section
<1> QED BY <1>2, <1>3

-----------------------------------------------------------------------------
(* Under the lock                                                          *)

\* A write that is only prepared: the record it will put in place is as sound
\* as what is stored, and there is room for it.
LEMMA WriteBegins ==
    ASSUME RecorderInv, NEW p \in Recording, proc[p].at \in Section, lockedBy' = lockedBy,
           NEW r \in Run, NEW w \in StoredRecord, NEW then \in {"enforce", "unlock"},
           WritesTemp(p, r, w, then), runner[r] # NoProcess, w.is # "absent",
           w.crash => Lost(r), w.is = "partial" => r \notin reported,
           then = "enforce" /\ proc[p].kind = "finish" =>
               r = proc[p].run /\ w.is = "terminal" /\ ~w.crash,
           r \in Present \/ Cardinality(Present) + 1 <= ByteMax,
           UNCHANGED <<store, marker, held, runner, reported, begun>>
    PROVE  RecorderInv'
<1>1. /\ proc' \in [Recording -> Job] /\ proc'[p].at = "rename"
      /\ proc'[p].kind = proc[p].kind /\ proc'[p].run = proc[p].run
      /\ proc'[p].record = proc[p].record /\ proc'[p].target = r
      /\ proc'[p].write = w /\ proc'[p].then = then
      /\ \A q \in Recording : q # p => proc'[q] = proc[q]
  BY JobWrites DEF RecorderInv, Continuation
<1>2. Present' = Present /\ (Lost(r)' <=> Lost(r))
  BY DEF Present, Lost
<1>3. WriteIsSound(p)'
  BY <1>1, <1>2 DEF WriteIsSound
<1>4. OwnRun(p)'
  BY <1>1, OwnStays DEF Section
<1>5. lockedBy' = p /\ proc[p].at # "ended"
  BY DEF RecorderInv, LockIsHeld, Section
<1> QED BY <1>1, <1>3, <1>4, <1>5, QuietKeeps

\* A step under the lock that changes one record: the markers, the runs and the
\* jobs of the others stay as they are.
LEMMA SectionKeeps ==
    ASSUME RecorderInv, NEW p \in Recording, proc[p].at \in Section,
           proc' \in [Recording -> Job], \A q \in Recording : q # p => proc'[q] = proc[q],
           store' \in [Run -> StoredRecord], reported' \subseteq Run,
           \A r \in reported' : r \in reported \/ runner[r] = p,
           UNCHANGED <<marker, held, runner, lockedBy, begun>>
    PROVE  /\ RecorderTypeOK' /\ LockIsHeld' /\ MarkersAreHeld'
           /\ \A q \in Recording : q # p => OwnRun(q)' /\ WriteIsSound(q)'
<1>1. RecorderTypeOK'
  BY DEF RecorderInv, RecorderTypeOK
<1>2. LockIsHeld'
  BY DEF RecorderInv, LockIsHeld
<1>3. MarkersAreHeld'
  <2>1. proc[p].at # "ended"
    BY DEF Section
  <2> QED BY <2>1 DEF RecorderInv, RecorderTypeOK, MarkersAreHeld
<1>4. ASSUME NEW q \in Recording, q # p PROVE OwnRun(q)' /\ WriteIsSound(q)'
  BY <1>4, OthersOwn, OthersWrite
<1> QED BY <1>1, <1>2, <1>3, <1>4

\* A record that is removed.
LEMMA RemovesKeeps ==
    ASSUME RecorderInv, NEW p \in Recording, proc[p].at \in Section, NEW r \in Run, Removes(r),
           proc' \in [Recording -> Job], \A q \in Recording : q # p => proc'[q] = proc[q],
           proc'[p].kind = proc[p].kind, proc'[p].run = proc[p].run,
           proc'[p].record = proc[p].record, proc'[p].at \in {"job", "enforce", "unlock"},
           UNCHANGED <<marker, held, runner, reported, lockedBy, begun>>
    PROVE  RecorderInv'
<1>1. /\ store \in [Run -> StoredRecord] /\ store' = [store EXCEPT ![r] = Absent]
      /\ Absent \in StoredRecord /\ reported \subseteq Run
  BY RecorderValues DEF RecorderInv, RecorderTypeOK, Removes
<1>2. store' \in [Run -> StoredRecord] /\ store'[r] = Absent /\ \A s \in Run : s # r => store'[s] = store[s]
  BY <1>1
<1>3. /\ RecorderTypeOK' /\ LockIsHeld' /\ MarkersAreHeld'
      /\ \A q \in Recording : q # p => OwnRun(q)' /\ WriteIsSound(q)'
  BY <1>1, <1>2, SectionKeeps
<1>4. OwnRun(p)' /\ WriteIsSound(p)'
  <2>1. OwnRun(p)'
    BY OwnStays DEF Section
  <2>2. WriteIsSound(p)'
    BY DEF WriteIsSound
  <2> QED BY <2>1, <2>2
<1>5. \A s \in Run : Lost(s)' = Lost(s)
  BY DEF Lost
<1>6. /\ Absent.is = "absent" /\ Absent.crash = FALSE /\ Absent.retained = FALSE
  BY DEF Absent
<1>7. ASSUME NEW s \in Run PROVE RecordIsSound(s)'
  <2>1. CASE s = r
    BY <1>2, <1>6, <2>1 DEF RecordIsSound
  <2>2. CASE s # r
    BY <1>2, <1>5, <2>2 DEF RecordIsSound, RecorderInv
  <2> QED BY <2>1, <2>2
<1>8. NewRunsAreClean'
  BY <1>2, <1>6 DEF RecorderInv, NewRunsAreClean
<1>9. RoomIsKept'
  <2>1. Present' \subseteq Present
    BY <1>2, <1>6 DEF Present
  <2>2. IsFiniteSet(Present) /\ Cardinality(Present) <= ByteMax
    BY DEF RecorderInv, RoomIsKept
  <2>3. IsFiniteSet(Present') /\ Cardinality(Present') <= Cardinality(Present)
    BY <2>1, <2>2, FS_Subset
  <2>4. Cardinality(Present) \in Nat /\ Cardinality(Present') \in Nat
    BY <2>2, <2>3, FS_CardinalityType
  <2> QED BY <2>2, <2>3, <2>4, ByteAssumption DEF RoomIsKept
<1> QED BY <1>3, <1>4, <1>7, <1>8, <1>9 DEF RecorderInv

\* Making room, or writing the record that fits.
LEMMA EnsureCapacityKeeps ==
    ASSUME RecorderInv, NEW p \in Recording, ensure_capacity(p)
    PROVE  RecorderInv'
<1>1. /\ proc[p].at = "job" /\ proc[p].at \in Section /\ proc[p].kind \in {"start", "finish"}
      /\ OwnRun(p) /\ RecorderTypeOK /\ proc[p] \in Job
      /\ UNCHANGED <<marker, held, lockedBy, runner, reported, begun>>
  BY DEF ensure_capacity, RecorderInv, RecorderTypeOK, Section
<1>2. PICK r \in Run, w \in StoredRecord : r = proc[p].run /\ w = proc[p].record
  BY <1>1 DEF OwnRun, Job
<1>3. CASE Fits /\ WritesTemp(p, proc[p].run, proc[p].record, "enforce") /\ UNCHANGED store
  <2>1. runner[r] = p /\ runner[r] # NoProcess
    BY <1>1, <1>2, RecordingAssumption DEF OwnRun, NoProcess
  <2>2. /\ w.is # "absent" /\ ~w.crash /\ (w.is = "partial" => r \notin reported)
        /\ proc[p].kind = "finish" => w.is = "terminal"
    BY <1>1, <1>2 DEF OwnRun
  <2>3. WritesTemp(p, r, w, "enforce") /\ Cardinality(Present) + 1 <= ByteMax
    BY <1>2, <1>3 DEF Fits
  <2> QED BY <1>1, <1>2, <1>3, <2>1, <2>2, <2>3, WriteBegins
<1>4. CASE (\E s \in Oldest(Removable(Present)) : Removes(s)) /\ UNCHANGED <<proc, temp>>
  <2>1. PICK s \in Run : Removes(s)
    BY <1>4 DEF Oldest, Removable, Present
  <2>2. proc' = proc /\ proc \in [Recording -> Job]
    BY <1>1, <1>4 DEF RecorderTypeOK
  <2> QED BY <1>1, <2>1, <2>2, RemovesKeeps
<1>5. CASE To(p, "unlock") /\ UNCHANGED <<store, temp>>
  BY <1>1, <1>5, SectionMovesOn
<1> QED BY <1>3, <1>4, <1>5 DEF ensure_capacity

\* A record read back with its retention set or lifted.
LEMMA RetentionSet ==
    ASSUME NEW w \in StoredRecord, NEW b \in BOOLEAN
    PROVE  /\ [w EXCEPT !.retained = b] \in StoredRecord
           /\ [w EXCEPT !.retained = b].is = w.is /\ [w EXCEPT !.retained = b].crash = w.crash
BY DEF StoredRecord

\* An administration command in the section.
LEMMA AdminJobKeeps ==
    ASSUME RecorderInv, NEW p \in Recording, AdminJob(p)
    PROVE  RecorderInv'
<1>1. /\ proc[p].at = "job" /\ proc[p].at \in Section
      /\ proc[p].kind \in {"retain", "unretain", "delete"} /\ OwnRun(p) /\ RecorderTypeOK
      /\ UNCHANGED <<marker, held, lockedBy, runner, reported, begun>>
  BY DEF AdminJob, RecorderInv, Section
<1>2. PICK r \in Run : r = proc[p].run
  BY <1>1 DEF OwnRun
<1>3. CASE To(p, "unlock") /\ UNCHANGED <<store, temp>>
  BY <1>1, <1>3, SectionMovesOn
<1>4. CASE Removes(proc[p].run) /\ To(p, "unlock") /\ UNCHANGED temp
  <2>1. Removes(r)
    BY <1>2, <1>4
  <2>2. /\ proc' \in [Recording -> Job] /\ proc'[p].at = "unlock"
        /\ proc'[p].kind = proc[p].kind /\ proc'[p].run = proc[p].run
        /\ proc'[p].record = proc[p].record
        /\ \A q \in Recording : q # p => proc'[q] = proc[q]
    BY <1>1, <1>4, JobMoves DEF JobPlace, Section
  <2> QED BY <1>1, <2>1, <2>2, RemovesKeeps
<1>5. CASE /\ store[proc[p].run].is # "absent"
           /\ WritesTemp(p, proc[p].run,
                         [store[proc[p].run] EXCEPT !.retained = (proc[p].kind = "retain")],
                         IF proc[p].kind = "retain" THEN "unlock" ELSE "enforce")
           /\ UNCHANGED store
  <2>1. PICK b \in BOOLEAN : b = (proc[p].kind = "retain")
    OBVIOUS
  <2>2. PICK then \in {"enforce", "unlock"} :
           then = IF proc[p].kind = "retain" THEN "unlock" ELSE "enforce"
    OBVIOUS
  <2>3. PICK w \in StoredRecord : w = [store[r] EXCEPT !.retained = b]
                            /\ w.is = store[r].is /\ w.crash = store[r].crash
    BY <1>1, <2>1, RetentionSet DEF RecorderTypeOK
  <2>4. WritesTemp(p, r, w, then)
    BY <1>2, <1>5, <2>1, <2>2, <2>3
  <2>5. store[r].is # "absent" /\ r \in Present /\ runner[r] # NoProcess
    BY <1>2, <1>5 DEF Present, RecorderInv, NewRunsAreClean
  <2>6. w.is # "absent" /\ (w.crash => Lost(r)) /\ (w.is = "partial" => r \notin reported)
    BY <2>3, <2>5 DEF RecorderInv, RecordIsSound
  <2> QED BY <1>1, <1>5, <2>4, <2>5, <2>6, WriteBegins
<1> QED BY <1>3, <1>4, <1>5 DEF AdminJob

\* The retention limits.
LEMMA EnforceKeeps ==
    ASSUME RecorderInv, NEW p \in Recording, enforce_retention(p)
    PROVE  RecorderInv'
<1>1. /\ proc[p].at = "enforce" /\ proc[p].at \in Section /\ RecorderTypeOK
      /\ UNCHANGED <<marker, held, lockedBy, runner, reported, begun>>
  BY DEF enforce_retention, RecorderInv, Section
<1>2. CASE /\ \E r \in IF Excess(TRUE) # {} THEN Excess(TRUE) ELSE Excess(FALSE) : Removes(r)
           /\ UNCHANGED proc
  <2>1. Excess(TRUE) \subseteq Run /\ Excess(FALSE) \subseteq Run
    BY DEF Excess, Oldest, Present
  <2>2. PICK s \in Run : Removes(s)
    BY <1>2, <2>1
  <2>3. proc' = proc /\ proc \in [Recording -> Job]
    BY <1>1, <1>2 DEF RecorderTypeOK
  <2> QED BY <1>1, <2>2, <2>3, RemovesKeeps
<1>3. CASE To(p, "unlock") /\ UNCHANGED store
  BY <1>1, <1>3, SectionMovesOn
<1> QED BY <1>2, <1>3 DEF enforce_retention

\* The rename.
LEMMA RenamesRecordKeeps ==
    ASSUME RecorderInv, NEW p \in Recording, RenamesRecord(p)
    PROVE  RecorderInv'
<1>1. /\ proc[p].at = "rename" /\ proc[p].at \in Section /\ RecorderTypeOK /\ proc[p] \in Job
      /\ WriteIsSound(p) /\ OwnRun(p)
      /\ UNCHANGED <<marker, held, lockedBy, runner, begun>>
  BY DEF RenamesRecord, RecorderInv, RecorderTypeOK, Section
<1>2. PICK t \in Run, w \in StoredRecord : t = proc[p].target /\ w = proc[p].write
  BY <1>1 DEF WriteIsSound, Job
<1>3. store' \in [Run -> StoredRecord] /\ store'[t] = w /\ \A s \in Run : s # t => store'[s] = store[s]
  BY <1>1, <1>2 DEF RenamesRecord, RecorderTypeOK
<1>4. /\ runner[t] # NoProcess /\ w.is # "absent" /\ (w.crash => Lost(t))
      /\ (w.is = "partial" => t \notin reported) /\ (proc[p].then = "unmark" => w.crash)
      /\ proc[p].then \in {"unmark", "enforce", "unlock"}
      /\ t \in Present \/ Cardinality(Present) + 1 <= ByteMax
  BY <1>1, <1>2 DEF WriteIsSound, Job, Continuation
<1>5. \/ reported' = reported
      \/ /\ reported' = reported \cup {t} /\ runner[t] = p /\ w.is = "terminal" /\ ~w.crash
         /\ proc[p].then = "enforce" /\ proc[p].kind = "finish"
  BY <1>1, <1>2 DEF RenamesRecord, WriteIsSound, OwnRun
<1>6. /\ proc' \in [Recording -> Job] /\ proc'[p].at = proc[p].then
      /\ proc'[p].kind = proc[p].kind /\ proc'[p].run = proc[p].run
      /\ proc'[p].record = proc[p].record /\ proc'[p].target = t
      /\ \A q \in Recording : q # p => proc'[q] = proc[q]
  <2> DEFINE o == [proc[p] EXCEPT !.at = proc[p].then, !.write = Absent, !.then = "idle"]
  <2>1. proc[p].then \in JobPlace /\ "idle" \in Continuation /\ Absent \in StoredRecord
    BY <1>4, RecorderValues DEF JobPlace, Section, Continuation
  <2>2. /\ o \in Job /\ o.at = proc[p].then /\ o.kind = proc[p].kind /\ o.run = proc[p].run
        /\ o.record = proc[p].record /\ o.target = t
    BY <1>1, <1>2, <2>1 DEF Job
  <2>3. proc' = [proc EXCEPT ![p] = o]
    BY DEF RenamesRecord
  <2> HIDE DEF o
  <2> QED BY <1>1, <2>2, <2>3, JobTaken
<1>7. \A s \in Run : s # t => (Lost(s)' <=> Lost(s))
  BY <1>1, <1>5 DEF Lost
<1>8. reported' = reported => (Lost(t)' <=> Lost(t))
  BY <1>1 DEF Lost
<1>9. /\ RecorderTypeOK' /\ LockIsHeld' /\ MarkersAreHeld'
      /\ \A q \in Recording : q # p => OwnRun(q)' /\ WriteIsSound(q)'
  <2>1. reported' \subseteq Run /\ \A r \in reported' : r \in reported \/ runner[r] = p
    BY <1>1, <1>5 DEF RecorderTypeOK
  <2> QED BY <1>1, <1>3, <1>6, <2>1, SectionKeeps
<1>10. OwnRun(p)'
  <2>1. proc[p].then \notin {"end", "ended", "publish"}
    BY <1>4
  <2> QED BY <1>1, <1>5, <1>6, <2>1 DEF OwnRun, Section
<1>11. WriteIsSound(p)'
  <2>1. proc[p].then = "unmark" => Lost(t)'
    BY <1>4, <1>5, <1>8
  <2> QED BY <1>4, <1>6, <2>1 DEF WriteIsSound
<1>12. ASSUME NEW s \in Run PROVE RecordIsSound(s)'
  <2>1. CASE s = t
    <3>1. store'[t].crash => Lost(t)'
      BY <1>3, <1>4, <1>5, <1>8
    <3>2. store'[t].is = "partial" => t \notin reported'
      BY <1>3, <1>4, <1>5
    <3> QED BY <1>3, <1>4, <2>1, <3>1, <3>2 DEF RecordIsSound
  <2>2. CASE s # t
    BY <1>3, <1>5, <1>7, <2>2 DEF RecordIsSound, RecorderInv
  <2> QED BY <2>1, <2>2
<1>13. NewRunsAreClean'
  BY <1>1, <1>3, <1>4, <1>5 DEF RecorderInv, NewRunsAreClean
<1>14. RoomIsKept'
  <2>1. Present' \subseteq Present \cup {t}
    BY <1>3 DEF Present
  <2>2. IsFiniteSet(Present) /\ Cardinality(Present) <= ByteMax
    BY DEF RecorderInv, RoomIsKept
  <2>3. /\ IsFiniteSet(Present \cup {t})
        /\ Cardinality(Present \cup {t}) = IF t \in Present THEN Cardinality(Present)
                                           ELSE Cardinality(Present) + 1
    BY <2>2, FS_AddElement
  <2>4. IsFiniteSet(Present') /\ Cardinality(Present') <= Cardinality(Present \cup {t})
    BY <2>1, <2>3, FS_Subset
  <2>5. /\ Cardinality(Present) \in Nat /\ Cardinality(Present') \in Nat
        /\ Cardinality(Present \cup {t}) \in Nat
    BY <2>2, <2>3, <2>4, FS_CardinalityType
  <2>6. Cardinality(Present \cup {t}) <= ByteMax
    BY <1>4, <2>2, <2>3
  <2> QED BY <2>4, <2>5, <2>6, ByteAssumption DEF RoomIsKept
<1> QED BY <1>9, <1>10, <1>11, <1>12, <1>13, <1>14 DEF RecorderInv

-----------------------------------------------------------------------------
(* Markers and runs                                                        *)

\* A step that leaves the records alone: what was lost stays lost.
LEMMA MarkersMove ==
    ASSUME RecorderInv, NEW p \in Recording, proc' \in [Recording -> Job],
           \A q \in Recording : q # p => proc'[q] = proc[q],
           store' = store, reported' = reported,
           marker' \subseteq Run, held' \in [Run -> Recording \cup {NoProcess}],
           runner' \in [Run -> Recording \cup {NoProcess, Gone}], begun' \in [Run -> Nat],
           \A r \in Run : Lost(r) => Lost(r)',
           \A r \in Run : runner[r] # NoProcess => runner'[r] # NoProcess,
           \A r \in Run : runner[r] \in Recording /\ runner[r] # p => runner'[r] = runner[r],
           NewRunsAreClean', MarkersAreHeld', OwnRun(p)', WriteIsSound(p)',
           proc'[p].at \in Section => lockedBy' = p,
           lockedBy' = lockedBy \/ lockedBy = p
    PROVE  RecorderInv'
<1>1. RecorderTypeOK'
  BY DEF RecorderInv, RecorderTypeOK
<1>2. \A q \in Recording : OwnRun(q)' /\ WriteIsSound(q)'
  <2> SUFFICES ASSUME NEW q \in Recording, q # p PROVE OwnRun(q)' /\ WriteIsSound(q)'
    OBVIOUS
  <2> QED BY OthersOwn, OthersWrite
<1>3. LockIsHeld'
  BY DEF RecorderInv, LockIsHeld
<1>4. Present' = Present
  BY DEF Present
<1>5. RoomIsKept'
  BY <1>4 DEF RecorderInv, RoomIsKept
<1>6. ASSUME NEW r \in Run PROVE RecordIsSound(r)'
  <2>1. RecordIsSound(r)
    BY DEF RecorderInv
  <2> QED BY <2>1 DEF RecordIsSound
<1> QED BY <1>1, <1>2, <1>3, <1>5, <1>6 DEF RecorderInv

\* A record in progress that nothing keeps live is that of a lost run, and
\* locking its marker against the others takes it from nobody.
LEMMA UnsettledIsLost ==
    ASSUME RecorderInv, NEW p \in Recording, proc[p].at = "recover", NEW r \in Unsettled,
           UNCHANGED <<runner, reported>>,
           held' = IF r \in marker THEN [held EXCEPT ![r] = p] ELSE held
    PROVE  Lost(r)'
<1>1. /\ r \in Run /\ store[r].is = "partial" /\ ~OwnerIsLive(r) /\ RecorderTypeOK
      /\ RecordIsSound(r)
  BY DEF Unsettled, Present, RecorderInv
<1>2. r \notin reported /\ runner[r] # NoProcess
  BY <1>1 DEF RecordIsSound, RecorderInv, NewRunsAreClean
<1>3. ASSUME runner[r] \in Recording PROVE r \notin Owned /\ held'[r] # runner[r]
  <2>1. r \notin Owned /\ (r \in marker => held[r] = NoProcess)
    BY <1>1, <1>3 DEF OwnerIsLive, Live
  <2>2. runner[r] # NoProcess
    BY <1>3, RecordingAssumption DEF NoProcess
  <2>3. CASE r \in marker
    <3>1. proc[runner[r]].at = "ended"
      BY <1>1, <1>3, <2>1, <2>2, <2>3 DEF RecorderInv, MarkersAreHeld
    <3>2. runner[r] # p
      BY <3>1
    <3>3. held'[r] = p
      BY <1>1, <2>3 DEF RecorderTypeOK
    <3> QED BY <2>1, <3>2, <3>3
  <2>4. CASE r \notin marker
    BY <1>1, <1>3, <2>1, <2>4 DEF RecorderInv, MarkersAreHeld
  <2> QED BY <2>3, <2>4
<1> QED BY <1>2, <1>3 DEF Lost

\* A record in progress turned into that of a crash.
LEMMA CrashRecorded ==
    ASSUME NEW v \in StoredRecord
    PROVE  \E w \in StoredRecord : /\ w = [v EXCEPT !.is = "terminal", !.crash = TRUE, !.success = FALSE]
                             /\ w.is = "terminal" /\ w.crash = TRUE
<1> DEFINE w == [v EXCEPT !.is = "terminal", !.crash = TRUE, !.success = FALSE]
<1>1. w \in StoredRecord /\ w.is = "terminal"
  BY DEF StoredRecord
<1>2. w.crash = TRUE
  BY DEF StoredRecord
<1> QED BY <1>1, <1>2

\* recover_in_progress prepares the record of a crash.
LEMMA RecoverKeeps ==
    ASSUME RecorderInv, NEW p \in Recording, recover_in_progress(p)
    PROVE  RecorderInv'
<1>1. /\ proc[p].at = "recover" /\ proc[p].at \in Section /\ RecorderTypeOK /\ lockedBy = p
      /\ UNCHANGED <<store, marker, lockedBy, runner, reported, begun>>
  BY DEF recover_in_progress, RecorderInv, Section, LockIsHeld
<1>2. CASE To(p, "job") /\ UNCHANGED <<temp, held>>
  BY <1>1, <1>2, SectionMovesOn
<1>3. ASSUME NEW r \in Unsettled,
             WritesTemp(p, r, [store[r] EXCEPT !.is = "terminal", !.crash = TRUE,
                                               !.success = FALSE], "unmark"),
             held' = IF r \in marker THEN [held EXCEPT ![r] = p] ELSE held
      PROVE  RecorderInv'
  <2>1. r \in Run /\ r \in Present /\ Lost(r)'
    BY <1>1, <1>3, UnsettledIsLost DEF Unsettled, Present
  <2>2. PICK w \in StoredRecord : /\ w = [store[r] EXCEPT !.is = "terminal", !.crash = TRUE,
                                                    !.success = FALSE]
                            /\ w.is = "terminal" /\ w.crash = TRUE
    <3>1. store[r] \in StoredRecord
      BY <1>1, <2>1 DEF RecorderTypeOK
    <3> QED BY <3>1, CrashRecorded
  <2>3. /\ proc' \in [Recording -> Job] /\ proc'[p].at = "rename"
        /\ proc'[p].kind = proc[p].kind /\ proc'[p].run = proc[p].run
        /\ proc'[p].record = proc[p].record /\ proc'[p].target = r
        /\ proc'[p].write = w /\ proc'[p].then = "unmark"
        /\ \A q \in Recording : q # p => proc'[q] = proc[q]
    BY <1>1, <1>3, <2>1, <2>2, JobWrites DEF Continuation
  <2>4. /\ held' \in [Run -> Recording \cup {NoProcess}]
        /\ \A s \in Run : s # r => held'[s] = held[s]
        /\ r \notin marker => held' = held
    BY <1>1, <1>3 DEF RecorderTypeOK
  <2>5. \A s \in Run : Lost(s) => Lost(s)'
    <3> SUFFICES ASSUME NEW s \in Run, s # r, Lost(s) PROVE Lost(s)'
      BY <2>1
    <3> QED BY <1>1, <2>4 DEF Lost
  <2>6. OwnRun(p)'
    BY <1>1, <2>3, OwnStays DEF Section
  <2>7. Present' = Present /\ runner[r] # NoProcess
    BY <1>1, <2>1 DEF Present, Lost
  <2>8. WriteIsSound(p)'
    BY <1>1, <2>1, <2>2, <2>3, <2>7 DEF WriteIsSound
  <2>9. NewRunsAreClean'
    BY <1>1, <2>4, <2>7 DEF RecorderInv, NewRunsAreClean
  <2>10. MarkersAreHeld'
    <3> SUFFICES ASSUME NEW s \in Run, runner[s] \in Recording
                 PROVE  /\ held'[s] = runner[s] => s \in marker
                        /\ s \in marker => \/ held'[s] = runner[s]
                                           \/ proc'[runner[s]].at = "ended" /\ proc'[runner[s]].run = s
      BY <1>1 DEF MarkersAreHeld
    <3>1. /\ held[s] = runner[s] => s \in marker
          /\ s \in marker => \/ held[s] = runner[s]
                             \/ proc[runner[s]].at = "ended" /\ proc[runner[s]].run = s
      BY DEF RecorderInv, MarkersAreHeld
    <3>2. proc[runner[s]].at = "ended" => proc'[runner[s]] = proc[runner[s]]
      BY <1>1, <2>3
    <3>3. CASE s # r
      BY <2>4, <3>1, <3>2, <3>3
    <3>4. CASE s = r
      <4>1. s \in marker => held[s] = NoProcess
        BY <1>3, <2>1, <3>4 DEF Unsettled, OwnerIsLive, Live
      <4>2. runner[s] # NoProcess
        BY RecordingAssumption DEF NoProcess
      <4> QED BY <1>3, <2>1, <2>4, <3>1, <3>2, <3>4, <4>1, <4>2 DEF Lost
    <3> QED BY <3>3, <3>4
  <2>11. /\ marker' \subseteq Run /\ begun' \in [Run -> Nat]
         /\ runner' \in [Run -> Recording \cup {NoProcess, Gone}]
    BY <1>1 DEF RecorderTypeOK
  <2> QED BY <1>1, <2>3, <2>4, <2>5, <2>6, <2>8, <2>9, <2>10, <2>11, MarkersMove
<1> QED BY <1>2, <1>3 DEF recover_in_progress

\* The marker of a settled run is no longer its process's to hold.
LEMMA RemovesMarkerKeeps ==
    ASSUME RecorderInv, NEW p \in Recording, RemovesMarker(p)
    PROVE  RecorderInv'
<1>1. /\ proc[p].at = "unmark" /\ proc[p].at \in Section /\ RecorderTypeOK /\ proc[p] \in Job
      /\ WriteIsSound(p) /\ lockedBy = p
      /\ UNCHANGED <<store, lockedBy, runner, reported, begun>>
  BY DEF RemovesMarker, RecorderInv, RecorderTypeOK, Section, LockIsHeld
<1>2. PICK r \in Run : r = proc[p].target /\ Lost(r)
  BY <1>1 DEF WriteIsSound
<1>3. /\ marker' = marker \ {r}
      /\ held' = IF held[r] = p /\ r \in marker THEN [held EXCEPT ![r] = NoProcess] ELSE held
      /\ proc' = [proc EXCEPT ![p].at = "recover", ![p].target = NoProcess]
  BY <1>2 DEF RemovesMarker
<1>4. /\ proc' \in [Recording -> Job] /\ proc'[p].at = "recover"
      /\ proc'[p].kind = proc[p].kind /\ proc'[p].run = proc[p].run
      /\ proc'[p].record = proc[p].record
      /\ \A q \in Recording : q # p => proc'[q] = proc[q]
  <2> DEFINE o == [proc[p] EXCEPT !.at = "recover", !.target = NoProcess]
  <2>1. /\ o \in Job /\ o.at = "recover" /\ o.kind = proc[p].kind /\ o.run = proc[p].run
        /\ o.record = proc[p].record
    BY <1>1 DEF Job, JobPlace, Section
  <2>2. proc' = [proc EXCEPT ![p] = o]
    BY <1>3
  <2> HIDE DEF o
  <2> QED BY <1>1, <2>1, <2>2, JobTaken
<1>5. /\ held' \in [Run -> Recording \cup {NoProcess}]
      /\ \A s \in Run : s # r => held'[s] = held[s]
      /\ held'[r] = held[r] \/ held'[r] = NoProcess
  BY <1>1, <1>3 DEF RecorderTypeOK
<1>6. NoProcess \notin Recording
  BY RecordingAssumption DEF NoProcess
<1>7. \A s \in Run : Lost(s) => Lost(s)'
  BY <1>1, <1>5, <1>6 DEF Lost
<1>8. OwnRun(p)' /\ WriteIsSound(p)'
  <2>1. OwnRun(p)'
    BY <1>1, <1>4, OwnStays DEF Section
  <2>2. WriteIsSound(p)'
    BY <1>4 DEF WriteIsSound
  <2> QED BY <2>1, <2>2
<1>9. NewRunsAreClean'
  BY <1>1, <1>3, <1>5 DEF RecorderInv, NewRunsAreClean
<1>10. MarkersAreHeld'
  <2> SUFFICES ASSUME NEW s \in Run, runner[s] \in Recording
               PROVE  /\ held'[s] = runner[s] => s \in marker'
                      /\ s \in marker' => \/ held'[s] = runner[s]
                                          \/ proc'[runner[s]].at = "ended" /\ proc'[runner[s]].run = s
    BY <1>1 DEF MarkersAreHeld
  <2>1. /\ held[s] = runner[s] => s \in marker
        /\ s \in marker => \/ held[s] = runner[s]
                           \/ proc[runner[s]].at = "ended" /\ proc[runner[s]].run = s
    BY DEF RecorderInv, MarkersAreHeld
  <2>2. proc[runner[s]].at = "ended" => proc'[runner[s]] = proc[runner[s]]
    BY <1>1, <1>4
  <2>3. CASE s # r
    BY <1>3, <1>5, <2>1, <2>2, <2>3
  <2>4. CASE s = r
    BY <1>2, <1>3, <1>5, <1>6, <2>4 DEF Lost
  <2> QED BY <2>3, <2>4
<1>11. /\ marker' \subseteq Run /\ begun' \in [Run -> Nat]
       /\ runner' \in [Run -> Recording \cup {NoProcess, Gone}]
  BY <1>1, <1>3 DEF RecorderTypeOK
<1> QED BY <1>1, <1>4, <1>5, <1>7, <1>8, <1>9, <1>10, <1>11, MarkersMove

\* A storage error: the lock of another's marker is let go, the own ones stay.
LEMMA StorageFailsKeeps ==
    ASSUME RecorderInv, NEW p \in Recording, StorageFails(p)
    PROVE  RecorderInv'
<1>1. /\ proc[p].at \in Section /\ proc[p].at # "ended" /\ RecorderTypeOK /\ lockedBy = p
      /\ UNCHANGED <<store, marker, lockedBy, runner, reported, begun>>
  BY DEF StorageFails, RecorderInv, Section, LockIsHeld
<1>2. /\ proc' \in [Recording -> Job] /\ proc'[p].at = "unlock"
      /\ proc'[p].kind = proc[p].kind /\ proc'[p].run = proc[p].run
      /\ proc'[p].record = proc[p].record /\ \A q \in Recording : q # p => proc'[q] = proc[q]
  BY <1>1, JobMoves DEF StorageFails, JobPlace, Section
<1>3. held' = [r \in Run |-> IF held[r] = p /\ runner[r] # p THEN NoProcess ELSE held[r]]
  BY DEF StorageFails
<1>4. held' \in [Run -> Recording \cup {NoProcess}]
  BY <1>1, <1>3 DEF RecorderTypeOK
<1>5. NoProcess \notin Recording
  BY RecordingAssumption DEF NoProcess
<1>6. \A s \in Run : Lost(s) => Lost(s)'
  BY <1>1, <1>3, <1>5 DEF Lost
<1>7. OwnRun(p)' /\ WriteIsSound(p)'
  <2>1. OwnRun(p)'
    BY <1>1, <1>2, OwnStays DEF Section
  <2>2. WriteIsSound(p)'
    BY <1>2 DEF WriteIsSound
  <2> QED BY <2>1, <2>2
<1>8. NewRunsAreClean'
  BY <1>1, <1>3 DEF RecorderInv, NewRunsAreClean
<1>9. MarkersAreHeld'
  <2> SUFFICES ASSUME NEW s \in Run, runner[s] \in Recording
               PROVE  /\ held'[s] = runner[s] => s \in marker
                      /\ s \in marker => \/ held'[s] = runner[s]
                                         \/ proc'[runner[s]].at = "ended" /\ proc'[runner[s]].run = s
    BY <1>1 DEF MarkersAreHeld
  <2>1. /\ held[s] = runner[s] => s \in marker
        /\ s \in marker => \/ held[s] = runner[s]
                           \/ proc[runner[s]].at = "ended" /\ proc[runner[s]].run = s
    BY DEF RecorderInv, MarkersAreHeld
  <2>2. proc[runner[s]].at = "ended" => proc'[runner[s]] = proc[runner[s]]
    BY <1>1, <1>2
  <2>3. held'[s] = runner[s] <=> held[s] = runner[s]
    BY <1>3, <1>5
  <2> QED BY <2>1, <2>2, <2>3
<1>10. /\ marker' \subseteq Run /\ begun' \in [Run -> Nat]
       /\ runner' \in [Run -> Recording \cup {NoProcess, Gone}]
  BY <1>1 DEF RecorderTypeOK
<1> QED BY <1>1, <1>2, <1>4, <1>6, <1>7, <1>8, <1>9, <1>10, MarkersMove

\* A process dies with its locks; its runs are nobody's.
LEMMA RecorderDiesKeeps ==
    ASSUME RecorderInv, NEW p \in Recording, RecorderDies(p)
    PROVE  RecorderInv'
<1>1. /\ RecorderTypeOK /\ UNCHANGED <<store, marker, reported, begun>>
      /\ lockedBy' = IF lockedBy = p THEN NoProcess ELSE lockedBy
      /\ held' = [r \in Run |-> IF held[r] = p THEN NoProcess ELSE held[r]]
      /\ runner' = [r \in Run |-> IF runner[r] = p THEN Gone ELSE runner[r]]
  BY DEF RecorderDies, RecorderInv
<1>2. /\ proc' \in [Recording -> Job] /\ proc'[p] = NoJob
      /\ \A q \in Recording : q # p => proc'[q] = proc[q]
  BY <1>1, RecorderValues, JobTaken DEF RecorderDies
<1>3. {NoProcess, Gone} \cap Recording = {} /\ Gone # NoProcess
  BY RecordingAssumption DEF NoProcess, Gone
<1>4. /\ held' \in [Run -> Recording \cup {NoProcess}]
      /\ runner' \in [Run -> Recording \cup {NoProcess, Gone}]
      /\ marker' \subseteq Run /\ begun' \in [Run -> Nat]
  BY <1>1 DEF RecorderTypeOK
<1>5. /\ \A s \in Run : runner[s] # NoProcess => runner'[s] # NoProcess
      /\ \A s \in Run : runner[s] \in Recording /\ runner[s] # p => runner'[s] = runner[s]
      /\ \A s \in Run : runner'[s] \in Recording => runner'[s] = runner[s] /\ runner[s] # p
      /\ \A s \in Run : held'[s] \in Recording => held'[s] = held[s]
  BY <1>1, <1>3
<1>6. \A s \in Run : Lost(s) => Lost(s)'
  BY <1>1, <1>3, <1>5 DEF Lost
<1>7. OwnRun(p)' /\ WriteIsSound(p)'
  BY <1>2 DEF OwnRun, WriteIsSound, NoJob, Section
<1>8. NewRunsAreClean'
  BY <1>1, <1>3 DEF RecorderInv, NewRunsAreClean
<1>9. MarkersAreHeld'
  <2> SUFFICES ASSUME NEW s \in Run, runner'[s] \in Recording
               PROVE  /\ held'[s] = runner'[s] => s \in marker
                      /\ s \in marker => \/ held'[s] = runner'[s]
                                         \/ proc'[runner'[s]].at = "ended" /\ proc'[runner'[s]].run = s
    BY <1>1 DEF MarkersAreHeld
  <2>1. runner'[s] = runner[s] /\ runner[s] # p
    BY <1>5
  <2>2. /\ held[s] = runner[s] => s \in marker
        /\ s \in marker => \/ held[s] = runner[s]
                           \/ proc[runner[s]].at = "ended" /\ proc[runner[s]].run = s
    BY <2>1 DEF RecorderInv, MarkersAreHeld
  <2>3. held'[s] = runner[s] <=> held[s] = runner[s]
    BY <1>1, <1>3, <2>1
  <2>4. proc'[runner[s]] = proc[runner[s]]
    BY <1>2, <2>1
  <2> QED BY <2>1, <2>2, <2>3, <2>4
<1>10. proc'[p].at \in Section => lockedBy' = p
  BY <1>2 DEF NoJob, Section
<1> QED BY <1>1, <1>2, <1>4, <1>5, <1>6, <1>7, <1>8, <1>9, <1>10, MarkersMove

\* A run begins, with its marker or, when that fails or it is not asked for,
\* without one.
LEMMA BeginKeeps ==
    ASSUME RecorderInv, NEW p \in Recording, NEW r \in Run, begin_live_run(p, r)
    PROVE  RecorderInv'
<1>1. /\ proc[p].at = "idle" /\ runner[r] = NoProcess /\ RecorderTypeOK
      /\ runner' = [runner EXCEPT ![r] = p] /\ UNCHANGED <<store, lockedBy, reported>>
      /\ r \notin marker /\ held[r] = NoProcess
  BY DEF begin_live_run, RecorderInv, NewRunsAreClean
<1>2. PICK d \in Date :
         /\ begun' = [begun EXCEPT ![r] = d]
         /\ proc' = [proc EXCEPT ![p] = [NoJob EXCEPT !.at = "publish", !.kind = "start",
                                                      !.run = r, !.record = Partial(d)]]
  BY DEF begin_live_run
<1>3. \/ marker' = marker \cup {r} /\ held' = [held EXCEPT ![r] = p]
      \/ marker' = marker /\ held' = held
  BY DEF begin_live_run
<1>4. d \in Nat /\ NoProcess \notin Recording
  BY DateAssumption, RecordingAssumption DEF NoProcess
<1>5. PICK w \in StoredRecord : w = Partial(d) /\ w.is = "partial" /\ w.crash = FALSE
  BY <1>4, RecorderValues
<1>6. PICK o : o = [NoJob EXCEPT !.at = "publish", !.kind = "start", !.run = r, !.record = w]
  OBVIOUS
<1>7. o \in Job /\ o.at = "publish" /\ o.kind = "start" /\ o.run = r /\ o.record = w
  <2>1. "start" \in JobKind
    BY DEF JobKind
  <2> QED BY <1>6, <2>1, RecorderValues DEF NoJob, Job, JobPlace
<1>8. /\ proc' \in [Recording -> Job] /\ proc'[p] = o
      /\ \A q \in Recording : q # p => proc'[q] = proc[q]
  BY <1>1, <1>2, <1>5, <1>6, <1>7, JobTaken
<1>9. /\ marker' \subseteq Run /\ held' \in [Run -> Recording \cup {NoProcess}]
      /\ runner' \in [Run -> Recording \cup {NoProcess, Gone}] /\ begun' \in [Run -> Nat]
      /\ \A s \in Run : s # r => /\ held'[s] = held[s] /\ runner'[s] = runner[s]
                                 /\ s \in marker' <=> s \in marker
      /\ runner'[r] = p /\ \/ r \in marker' /\ held'[r] = p
                           \/ r \notin marker' /\ held'[r] = NoProcess
  BY <1>1, <1>2, <1>3, <1>4 DEF RecorderTypeOK
<1>10. /\ \A s \in Run : Lost(s) => Lost(s)'
       /\ \A s \in Run : runner[s] # NoProcess => runner'[s] # NoProcess
       /\ \A s \in Run : runner[s] \in Recording /\ runner[s] # p => runner'[s] = runner[s]
  BY <1>1, <1>4, <1>9 DEF Lost
<1>11. r \notin reported
  BY <1>1 DEF RecorderInv, NewRunsAreClean
<1>12. OwnRun(p)' /\ WriteIsSound(p)'
  BY <1>1, <1>5, <1>7, <1>8, <1>9, <1>11 DEF OwnRun, WriteIsSound
<1>13. NewRunsAreClean'
  BY <1>1, <1>4, <1>9 DEF RecorderInv, NewRunsAreClean
<1>14. MarkersAreHeld'
  <2> SUFFICES ASSUME NEW s \in Run, runner'[s] \in Recording
               PROVE  /\ held'[s] = runner'[s] => s \in marker'
                      /\ s \in marker' => \/ held'[s] = runner'[s]
                                          \/ proc'[runner'[s]].at = "ended" /\ proc'[runner'[s]].run = s
    BY DEF MarkersAreHeld
  <2>1. CASE s = r
    BY <1>4, <1>9, <2>1
  <2>2. CASE s # r
    <3>1. runner'[s] = runner[s] /\ held'[s] = held[s] /\ (s \in marker' <=> s \in marker)
      BY <1>9, <2>2
    <3>2. /\ held[s] = runner[s] => s \in marker
          /\ s \in marker => \/ held[s] = runner[s]
                             \/ proc[runner[s]].at = "ended" /\ proc[runner[s]].run = s
      BY <3>1 DEF RecorderInv, MarkersAreHeld
    <3>3. proc[runner[s]].at = "ended" => proc'[runner[s]] = proc[runner[s]]
      BY <1>1, <1>8, <3>1
    <3> QED BY <3>1, <3>2, <3>3
  <2> QED BY <2>1, <2>2
<1>15. proc'[p].at \notin Section
  BY <1>7, <1>8 DEF Section
<1> QED BY <1>1, <1>8, <1>9, <1>10, <1>12, <1>13, <1>14, <1>15, MarkersMove

\* end_live_run: the lock of the marker goes first, the marker and the run after.
LEMMA EndKeeps ==
    ASSUME RecorderInv, NEW p \in Recording, end_live_run(p)
    PROVE  RecorderInv'
<1>1. /\ RecorderTypeOK /\ OwnRun(p) /\ proc[p].at \in {"end", "ended"}
      /\ UNCHANGED <<store, lockedBy, reported, begun>>
  BY DEF end_live_run, RecorderInv
<1>2. PICK r \in Run : r = proc[p].run /\ runner[r] = p
  BY <1>1 DEF OwnRun
<1>3. {NoProcess, Gone} \cap Recording = {} /\ Gone # NoProcess
  BY RecordingAssumption DEF NoProcess, Gone
<1>4. CASE /\ proc[p].at = "end"
           /\ held' = IF held[r] = p THEN [held EXCEPT ![r] = NoProcess] ELSE held
           /\ To(p, "ended") /\ UNCHANGED <<marker, runner>>
  <2>1. /\ proc' \in [Recording -> Job] /\ proc'[p].at = "ended"
        /\ proc'[p].kind = proc[p].kind /\ proc'[p].run = proc[p].run
        /\ proc'[p].record = proc[p].record /\ \A q \in Recording : q # p => proc'[q] = proc[q]
    BY <1>1, <1>4, JobMoves DEF JobPlace
  <2>2. /\ held' \in [Run -> Recording \cup {NoProcess}]
        /\ \A s \in Run : s # r => held'[s] = held[s]
        /\ held'[r] = IF held[r] = p THEN NoProcess ELSE held[r]
    BY <1>1, <1>4 DEF RecorderTypeOK
  <2>3. \A s \in Run : Lost(s) => Lost(s)'
    BY <1>1, <1>3, <1>4, <2>2 DEF Lost
  <2>4. OwnRun(p)' /\ WriteIsSound(p)'
    <3>1. OwnRun(p)'
      BY <1>1, <1>4, <2>1, OwnStays DEF Section
    <3>2. WriteIsSound(p)'
      BY <2>1 DEF WriteIsSound
    <3> QED BY <3>1, <3>2
  <2>5. NewRunsAreClean'
    BY <1>1, <1>4, <2>2 DEF RecorderInv, NewRunsAreClean
  <2>6. MarkersAreHeld'
    <3> SUFFICES ASSUME NEW s \in Run, runner[s] \in Recording
                 PROVE  /\ held'[s] = runner[s] => s \in marker
                        /\ s \in marker => \/ held'[s] = runner[s]
                                           \/ proc'[runner[s]].at = "ended" /\ proc'[runner[s]].run = s
      BY <1>4 DEF MarkersAreHeld
    <3>1. /\ held[s] = runner[s] => s \in marker
          /\ s \in marker => \/ held[s] = runner[s]
                             \/ proc[runner[s]].at = "ended" /\ proc[runner[s]].run = s
      BY DEF RecorderInv, MarkersAreHeld
    <3>2. proc[runner[s]].at = "ended" => proc'[runner[s]] = proc[runner[s]]
      BY <1>4, <2>1
    <3>3. CASE s # r
      BY <2>2, <3>1, <3>2, <3>3
    <3>4. CASE s = r
      BY <1>2, <2>1, <2>2, <3>1, <3>4
    <3> QED BY <3>3, <3>4
  <2>7. /\ marker' \subseteq Run /\ begun' \in [Run -> Nat]
        /\ runner' \in [Run -> Recording \cup {NoProcess, Gone}]
        /\ proc'[p].at \notin Section
    BY <1>1, <1>4, <2>1 DEF RecorderTypeOK, Section
  <2> QED BY <1>1, <1>4, <2>1, <2>2, <2>3, <2>4, <2>5, <2>6, <2>7, MarkersMove
<1>5. CASE /\ proc[p].at = "ended" /\ marker' = marker \ {r}
           /\ runner' = [runner EXCEPT ![r] = Gone]
           /\ proc' = [proc EXCEPT ![p] = NoJob] /\ UNCHANGED held
  <2>1. /\ proc' \in [Recording -> Job] /\ proc'[p] = NoJob
        /\ \A q \in Recording : q # p => proc'[q] = proc[q]
    BY <1>1, <1>5, RecorderValues, JobTaken
  <2>2. /\ runner' \in [Run -> Recording \cup {NoProcess, Gone}] /\ runner'[r] = Gone
        /\ \A s \in Run : s # r => runner'[s] = runner[s] /\ (s \in marker' <=> s \in marker)
        /\ marker' \subseteq Run /\ begun' \in [Run -> Nat]
        /\ held' \in [Run -> Recording \cup {NoProcess}]
    BY <1>1, <1>5 DEF RecorderTypeOK
  <2>3. /\ \A s \in Run : Lost(s) => Lost(s)'
        /\ \A s \in Run : runner[s] # NoProcess => runner'[s] # NoProcess
        /\ \A s \in Run : runner[s] \in Recording /\ runner[s] # p => runner'[s] = runner[s]
    BY <1>1, <1>2, <1>3, <1>5, <2>2 DEF Lost
  <2>4. OwnRun(p)' /\ WriteIsSound(p)'
    BY <2>1 DEF OwnRun, WriteIsSound, NoJob, Section
  <2>5. NewRunsAreClean'
    BY <1>1, <1>3, <1>5, <2>2 DEF RecorderInv, NewRunsAreClean
  <2>6. MarkersAreHeld'
    <3> SUFFICES ASSUME NEW s \in Run, runner'[s] \in Recording
                 PROVE  /\ held'[s] = runner'[s] => s \in marker'
                        /\ s \in marker' => \/ held'[s] = runner'[s]
                                            \/ proc'[runner'[s]].at = "ended" /\ proc'[runner'[s]].run = s
      BY DEF MarkersAreHeld
    <3>1. s # r /\ runner'[s] = runner[s] /\ (s \in marker' <=> s \in marker) /\ held' = held
      BY <1>3, <1>5, <2>2
    <3>2. /\ held[s] = runner[s] => s \in marker
          /\ s \in marker => \/ held[s] = runner[s]
                             \/ proc[runner[s]].at = "ended" /\ proc[runner[s]].run = s
      BY <3>1 DEF RecorderInv, MarkersAreHeld
    <3>3. proc[runner[s]].run = s => proc'[runner[s]] = proc[runner[s]]
      BY <1>2, <2>1, <3>1
    <3> QED BY <3>1, <3>2, <3>3
  <2>7. proc'[p].at \in Section => lockedBy' = p
    BY <2>1 DEF NoJob, Section
  <2> QED BY <1>1, <2>1, <2>2, <2>3, <2>4, <2>5, <2>6, <2>7, <1>5, MarkersMove
<1> QED BY <1>2, <1>4, <1>5 DEF end_live_run

-----------------------------------------------------------------------------
(* The theorems about the records                                          *)

\* An empty directory, and nobody at work.
LEMMA RecorderStarts ==
    ASSUME RecorderInit
    PROVE  RecorderInv
<1>1. /\ store = [r \in Run |-> Absent] /\ marker = {} /\ held = [r \in Run |-> NoProcess]
      /\ proc = [p \in Recording |-> NoJob] /\ runner = [r \in Run |-> NoProcess]
      /\ reported = {} /\ begun = [r \in Run |-> 0]
  BY DEF RecorderInit
<1>2. RecorderTypeOK
  BY <1>1, RecorderValues DEF RecorderTypeOK
<1>3. /\ Absent.is = "absent" /\ Absent.crash = FALSE /\ Absent.retained = FALSE
      /\ NoJob.at = "idle" /\ NoJob.kind = "none"
  BY DEF Absent, NoJob
<1>4. NoProcess \notin Recording
  BY RecordingAssumption DEF NoProcess
<1>5. LockIsHeld /\ NewRunsAreClean /\ MarkersAreHeld
  BY <1>1, <1>3, <1>4 DEF LockIsHeld, NewRunsAreClean, MarkersAreHeld, Section
<1>6. \A p \in Recording : OwnRun(p) /\ WriteIsSound(p)
  BY <1>1, <1>3 DEF OwnRun, WriteIsSound, Section
<1>7. \A r \in Run : RecordIsSound(r)
  BY <1>1, <1>3 DEF RecordIsSound
<1>8. RoomIsKept
  <2>1. Present = {}
    BY <1>1, <1>3 DEF Present
  <2> QED BY <2>1, FS_EmptySet, ByteAssumption DEF RoomIsKept
<1> QED BY <1>2, <1>5, <1>6, <1>7, <1>8 DEF RecorderInv

\* Every step of every process keeps the recorder's invariant.
LEMMA RecorderKeeps ==
    ASSUME RecorderInv, [RecorderNext]_recorderVars
    PROVE  RecorderInv'
<1>1. ASSUME NEW p \in Recording, NEW r \in Run,
             begin_live_run(p, r) \/ FinishRun(p, r) \/ Administer(p, r)
      PROVE  RecorderInv'
  BY <1>1, BeginKeeps, FinishRunKeeps, AdministerKeeps
<1>2. ASSUME NEW p \in Recording, RecorderStep(p)
      PROVE  RecorderInv'
  BY <1>2, CleanupKeeps, RecoverKeeps, RenamesRecordKeeps, RemovesMarkerKeeps,
     EnsureCapacityKeeps, AdminJobKeeps, EnforceKeeps, UnlocksKeeps, EndKeeps DEF RecorderStep
<1>3. ASSUME NEW p \in Recording, StorageFails(p) \/ RecorderDies(p)
      PROVE  RecorderInv'
  BY <1>3, StorageFailsKeeps, RecorderDiesKeeps
<1>4. CASE UNCHANGED recorderVars
  BY <1>4 DEF recorderVars, RecorderInv, RecorderTypeOK, LockIsHeld, NewRunsAreClean,
     MarkersAreHeld, OwnRun, Lost, WriteIsSound, RecordIsSound, RoomIsKept, Present
<1> QED BY <1>1, <1>2, <1>3, <1>4 DEF RecorderNext

\* The recorder's invariant: one process at a time is past the lock, every live
\* run's marker is its process's, and what is stored or about to be stored calls
\* no run a crash that its own process would deny, for any number of processes
\* that begin, publish, administer, fail and die at any step.
THEOREM RecorderInvariance == RecorderSpec => []RecorderInv
<1>1. RecorderInit => RecorderInv
  BY RecorderStarts
<1>2. RecorderInv /\ [RecorderNext]_recorderVars => RecorderInv'
  BY RecorderKeeps
<1> QED BY <1>1, <1>2, PTL DEF RecorderSpec

\* No live or settled run is recorded as a crash, and the records keep within
\* the capacity: recover_in_progress_locked and ensure_capacity_locked against
\* every other process.
THEOREM RecordsStaySound == RecorderSpec => []RecordsAreSound
<1>1. RecorderInv => RecordsAreSound
  <2> SUFFICES ASSUME RecorderInv PROVE RecordsAreSound
    OBVIOUS
  <2>1. CrashIsReal
    BY DEF RecorderInv, RecordIsSound, Lost, CrashIsReal
  <2>2. StoreIsBounded
    BY DEF RecorderInv, RoomIsKept, StoreIsBounded
  <2> QED BY <2>1, <2>2 DEF RecordsAreSound
<1> QED BY <1>1, RecorderInvariance, PTL

\* A record that a step takes away was not retained, or is the one that a delete
\* command names.
LEMMA OnlyDeleted ==
    ASSUME RecorderInv, RecorderNext, NEW r \in Run, store[r].retained, store'[r].is = "absent"
    PROVE  \E p \in Recording : proc[p].kind = "delete" /\ proc[p].run = r
<1>1. store \in [Run -> StoredRecord] /\ store[r].is # "absent"
  BY DEF RecorderInv, RecordIsSound, RecorderTypeOK
<1>2. store' # store
  BY <1>1
<1>3. PICK p \in Recording : RenamesRecord(p) \/ ensure_capacity(p) \/ AdminJob(p) \/ enforce_retention(p)
  BY <1>2 DEF RecorderNext, RecorderStep, begin_live_run, FinishRun, Administer,
     cleanup_stale_temps, recover_in_progress, RemovesMarker, Unlocks, end_live_run,
     StorageFails, RecorderDies
<1>4. CASE RenamesRecord(p)
  <2>1. proc[p].write.is # "absent"
    BY <1>4 DEF RecorderInv, WriteIsSound, RenamesRecord
  <2> QED BY <1>1, <1>4, <2>1 DEF RenamesRecord
<1>5. CASE ensure_capacity(p)
  <2>1. PICK s \in Oldest(Removable(Present)) : Removes(s)
    BY <1>2, <1>5 DEF ensure_capacity
  <2>2. ~store[s].retained
    BY <2>1 DEF Oldest, Removable
  <2> QED BY <1>1, <2>1, <2>2 DEF Removes
<1>6. CASE AdminJob(p)
  BY <1>1, <1>2, <1>6 DEF AdminJob, Removes
<1>7. CASE enforce_retention(p)
  <2>1. PICK s \in Excess(TRUE) \cup Excess(FALSE) : Removes(s)
    BY <1>2, <1>7 DEF enforce_retention
  <2>2. ~store[s].retained
    BY <2>1 DEF Excess, Oldest
  <2> QED BY <1>1, <2>1, <2>2 DEF Removes
<1> QED BY <1>3, <1>4, <1>5, <1>6, <1>7

\* A retained record leaves the directory by a delete command and by nothing
\* else, whatever limits the other processes enforce.
THEOREM RetainedRecordsStay == RecorderSpec => RetainedStays
<1>1. RecorderInv /\ [RecorderNext]_recorderVars =>
         [\A r \in Run : store[r].retained /\ store'[r].is = "absent" =>
             \E p \in Recording : proc[p].kind = "delete" /\ proc[p].run = r]_recorderVars
  BY OnlyDeleted
<1> QED BY <1>1, RecorderInvariance, PTL DEF RecorderSpec, RetainedStays

-----------------------------------------------------------------------------
(***************************************************************************)
(* The profile commands.  The operation lock keeps commands apart until a  *)
(* host listens; from then on the owner lock of its role stands for it,    *)
(* and a command that finds this lock free has found that there is no host *)
(* of the role, and none comes while the command holds the operation lock. *)
(***************************************************************************)

Commanding == {"discover", "asking", "probing", "write", "rename", "remove", "shutdown", "waiting"}
Looking == {"discover", "asking", "probing"}
Changing == {"write", "rename", "remove"}
Starting == {"acquire", "bind", "bound"}
CommandPlace == Commanding \cup Hosting \cup {"idle", "acquire", "ended", "crashed"}
StageName == {"ProfileResolve", "HostOwnerAcquire", "HostBind", "HostRuntimeStart",
              "HostRuntimeStop", "HostOwnerRelease"}
CommandState ==
    [op : {"set", "delete", "status", "stop", "run", "none"}, name : ProfileName \cup {"none"},
     profile : Profile \cup {NoProfile}, look : Seq(RoleRoot), at : CommandPlace,
     sees : Proc \cup {Nobody}, cancel : BOOLEAN,
     did : SUBSET StageName, failed : StageName \cup {NoStage}]
SocketState == [by : Proc \cup {Nobody}, private : BOOLEAN]

ProfileTypeOK ==
    /\ profiles \in [ProfileName -> Profile \cup {NoProfile}]
    /\ temporary \subseteq ProfileName
    /\ operation \in Proc \cup {Nobody}
    /\ lockHolder \in [RoleRoot -> Proc \cup {Nobody}]
    /\ socket \in [RoleRoot -> SocketState]
    /\ process \in [Proc -> CommandState]

\* No host of the role is up, or on its way up or down.
NoHost(r) == \A p \in Proc : process[p].at \in Hosting => RoleOf(p) # r

\* A command holds the operation lock, and "run" does until its host listens.
HoldsOperation(p) ==
    (process[p].at \in Commanding \cup Starting \/ (process[p].at = "ready" /\ ~process[p].cancel))
        => operation = p

\* A host holds the owner lock of its role, and so does who removes a stale socket.
HoldsLock(p) ==
    /\ process[p].at \in Hosting => lockHolder[RoleOf(p)] = p
    /\ process[p].at = "probing" => lockHolder[Looks(p)] = p

\* The socket of a host is its own.
OwnsSocket(p) ==
    /\ process[p].at = "bound" => socket[RoleOf(p)] = [by |-> p, private |-> FALSE]
    /\ process[p].at \in {"ready", "serving"} => socket[RoleOf(p)] = [by |-> p, private |-> TRUE]

\* A host was launched from a profile that is still there.
KeepsProfile(p) ==
    process[p].at \in Hosting \cup {"acquire"} =>
        /\ process[p].op = "run" /\ process[p].name \in ProfileName
        /\ process[p].profile \in Profile /\ process[p].profile # NoProfile
        /\ profiles[process[p].name] = process[p].profile

\* What a command between taking and releasing the operation lock is about.
CommandOf(p) ==
    process[p].at \in Commanding =>
        /\ process[p].op \in {"set", "delete", "status", "stop"}
        /\ process[p].name \in ProfileName /\ process[p].profile \in Profile
        /\ process[p].at \in Looking => process[p].look # <<>>
        /\ process[p].at \in {"write", "rename"} => process[p].op = "set"
        /\ process[p].at = "remove" => process[p].op = "delete"
        /\ process[p].at = "shutdown" => process[p].sees \in Proc

\* A command that changes a profile has found that the profile that is there has
\* no host, or has still to look.
ChecksProfile(p) ==
    (/\ process[p].op \in {"set", "delete"} /\ process[p].at \in Looking \cup Changing
     /\ profiles[process[p].name] # NoProfile)
    => \/ NoHost(profiles[process[p].name].role)
       \/ process[p].at \in Looking /\ Looks(p) = profiles[process[p].name].role

\* The stages a host has behind it, and what it has to report.
KeepsStages(p) ==
    process[p].op = "run" =>
        LET did == process[p].did
            failed == process[p].failed
        IN
        /\ "ProfileResolve" \in did
        /\ process[p].at = "acquire" => failed = NoStage /\ ~process[p].cancel
        /\ process[p].at \in Hosting => "HostOwnerAcquire" \in did
        /\ process[p].at \in {"bind", "bound"} =>
              failed = IF process[p].cancel THEN "HostOwnerAcquire" ELSE NoStage
        /\ process[p].at = "ready" =>
              failed \in IF process[p].cancel THEN {"HostOwnerAcquire", "HostBind"} ELSE {NoStage}
        /\ process[p].at = "serving" => failed = NoStage
        /\ process[p].at \in {"ending", "finished", "ended"} =>
              failed \in {NoStage, "HostOwnerAcquire", "HostBind", "HostRuntimeStop"}
        /\ (process[p].at \in {"serving", "ending", "finished", "ended"}
              /\ failed \in {NoStage, "HostRuntimeStop"})
           => {"HostBind", "HostRuntimeStart"} \subseteq did
        /\ (process[p].at \in {"finished", "ended"} /\ failed = NoStage) => "HostRuntimeStop" \in did
        /\ (process[p].at = "ended" /\ failed # "HostOwnerAcquire")
           => {"HostOwnerAcquire", "HostOwnerRelease"} \subseteq did

CommandSound(p) ==
    /\ HoldsOperation(p) /\ HoldsLock(p) /\ OwnsSocket(p) /\ KeepsProfile(p)
    /\ CommandOf(p) /\ ChecksProfile(p) /\ KeepsStages(p)

ProfileInv == ProfileTypeOK /\ \A p \in Proc : CommandSound(p)

\* What a step of p may do to the others: it changes only locks that are free or
\* its own and the sockets under them, a profile only under the operation lock and
\* after looking, and it brings up a host only under the operation lock.
Within(p) ==
    /\ operation' = operation \/ operation \in {p, Nobody}
    /\ \A r \in RoleRoot : lockHolder'[r] = lockHolder[r] \/ lockHolder[r] \in {p, Nobody}
    /\ \A r \in RoleRoot : socket'[r] = socket[r] \/ lockHolder[r] = p
    /\ \/ profiles' = profiles
       \/ /\ operation = p /\ process[p].at \in {"rename", "remove"}
          /\ \A n \in ProfileName \ {process[p].name} : profiles'[n] = profiles[n]
    /\ \A x \in Proc : process'[x].at \in Hosting =>
          \/ process[x].at \in Hosting /\ RoleOf(x)' = RoleOf(x)
          \/ operation = p

\* Only p moves.
OnlyMoves(p) ==
    /\ process' \in [Proc -> CommandState]
    /\ \A q \in Proc \ {p} : process'[q] = process[q]

\* The other variables keep their types.
StoreTyped ==
    /\ profiles \in [ProfileName -> Profile \cup {NoProfile}]
    /\ temporary \subseteq ProfileName
    /\ operation \in Proc \cup {Nobody}
    /\ lockHolder \in [RoleRoot -> Proc \cup {Nobody}]
    /\ socket \in [RoleRoot -> SocketState]

-----------------------------------------------------------------------------

\* The fields of a command.
LEMMA CommandFields ==
    ASSUME ProfileTypeOK, NEW p \in Proc
    PROVE  /\ process[p] \in CommandState
           /\ process[p].profile \in Profile \cup {NoProfile} /\ process[p].look \in Seq(RoleRoot)
           /\ process[p].at \in CommandPlace /\ process[p].sees \in Proc \cup {Nobody}
           /\ process[p].did \subseteq StageName /\ process[p].failed \in StageName \cup {NoStage}
<1>1. process[p] \in CommandState
  BY DEF ProfileTypeOK
<1> QED BY <1>1 DEF CommandState

\* Nobody is no process.
LEMMA NobodyIsNone == \A p \in Proc : p # Nobody
BY ProcAssumption DEF Proc, Nobody

\* The role of a host, and the role that is looked at, are roles.
LEMMA RoleIsRoot ==
    ASSUME ProfileInv, NEW p \in Proc
    PROVE  /\ process[p].at \in Hosting \cup {"acquire"} => RoleOf(p) \in RoleRoot
           /\ process[p].at \in Looking => Looks(p) \in RoleRoot /\ process[p].look # <<>>
<1>1. process[p].at \in Hosting \cup {"acquire"} => RoleOf(p) \in RoleRoot
  BY DEF ProfileInv, CommandSound, KeepsProfile, RoleOf, Profile
<1>2. process[p].at \in Looking => process[p].look # <<>>
  BY DEF ProfileInv, CommandSound, CommandOf, Looking, Commanding
<1>3. process[p].look \in Seq(RoleRoot)
  BY CommandFields DEF ProfileInv
<1> QED BY <1>1, <1>2, <1>3 DEF Looks

\* What p may do to the others leaves them sound.
LEMMA OthersSound ==
    ASSUME ProfileInv, NEW p \in Proc, Within(p), NEW q \in Proc, q # p, process'[q] = process[q]
    PROVE  CommandSound(q)'
<1> USE NobodyIsNone
<1>0. CommandSound(q) /\ CommandSound(p)
  BY DEF ProfileInv
<1>1. HoldsOperation(q)'
  BY <1>0 DEF HoldsOperation, CommandSound, Within
<1>2. HoldsLock(q)'
  <2>1. CASE process[q].at \in Hosting
    BY <1>0, <2>1, RoleIsRoot DEF HoldsLock, CommandSound, Within, RoleOf, Hosting
  <2>2. CASE process[q].at = "probing"
    BY <1>0, <2>2, RoleIsRoot DEF HoldsLock, CommandSound, Within, Looks, Hosting, Looking
  <2> QED BY <2>1, <2>2 DEF HoldsLock
<1>3. OwnsSocket(q)'
  <2> SUFFICES ASSUME process[q].at \in Hosting PROVE OwnsSocket(q)'
    BY DEF OwnsSocket, Hosting
  <2>1. lockHolder[RoleOf(q)] = q /\ RoleOf(q) \in RoleRoot
    BY <1>0, RoleIsRoot DEF HoldsLock, CommandSound
  <2>2. socket'[RoleOf(q)] = socket[RoleOf(q)] /\ RoleOf(q)' = RoleOf(q)
    BY <2>1 DEF Within, RoleOf
  <2> QED BY <1>0, <2>2 DEF CommandSound, OwnsSocket
<1>4. KeepsProfile(q)'
  <2> SUFFICES ASSUME process[q].at \in Hosting \cup {"acquire"} PROVE KeepsProfile(q)'
    BY DEF KeepsProfile
  <2>1. profiles[process[q].name] = process[q].profile /\ process[q].name \in ProfileName
        /\ process[q].profile # NoProfile
    BY <1>0 DEF CommandSound, KeepsProfile
  <2>2. CASE profiles' = profiles
    BY <1>0, <2>2 DEF CommandSound, KeepsProfile
  <2>3. CASE profiles' # profiles
    <3>1. operation = p /\ process[p].at \in {"rename", "remove"}
          /\ \A n \in ProfileName \ {process[p].name} : profiles'[n] = profiles[n]
      BY <2>3 DEF Within
    <3>2. process[q].at \in Hosting
      BY <1>0, <3>1 DEF CommandSound, HoldsOperation, Starting
    <3>3. process[q].name # process[p].name
      <4> SUFFICES ASSUME process[q].name = process[p].name PROVE FALSE
        OBVIOUS
      <4>1. process[p].op \in {"set", "delete"} /\ process[p].at \in Looking \cup Changing
            /\ process[p].at \notin Looking
        BY <1>0, <3>1 DEF CommandSound, CommandOf, Commanding, Changing, Looking
      <4>2. NoHost(profiles[process[p].name].role)
        BY <1>0, <2>1, <4>1 DEF CommandSound, ChecksProfile
      <4> QED BY <2>1, <3>2, <4>2 DEF NoHost, RoleOf
    <3>4. profiles'[process[q].name] = profiles[process[q].name]
      BY <2>1, <3>1, <3>3
    <3> QED BY <1>0, <3>4 DEF CommandSound, KeepsProfile
  <2> QED BY <2>2, <2>3
<1>5. CommandOf(q)'
  BY <1>0 DEF CommandSound, CommandOf, Looking
<1>6. ChecksProfile(q)'
  <2> SUFFICES ASSUME process[q].at \in Looking \cup Changing PROVE ChecksProfile(q)'
    BY DEF ChecksProfile
  <2>1. operation = q
    BY <1>0 DEF CommandSound, HoldsOperation, Looking, Changing, Commanding
  <2>2. profiles' = profiles
    BY <2>1 DEF Within
  <2>3. \A x \in Proc : process'[x].at \in Hosting =>
            process[x].at \in Hosting /\ process'[x].profile.role = process[x].profile.role
    BY <2>1 DEF Within, RoleOf
  <2> QED BY <1>0, <2>2, <2>3 DEF CommandSound, ChecksProfile, NoHost, RoleOf, Looks
<1>7. KeepsStages(q)'
  BY <1>0 DEF CommandSound, KeepsStages
<1> QED BY <1>1, <1>2, <1>3, <1>4, <1>5, <1>6, <1>7 DEF CommandSound

\* A step in which only p moves keeps the invariant if p is sound after it.
LEMMA ActorKeeps ==
    ASSUME ProfileInv, NEW p \in Proc, OnlyMoves(p), Within(p), StoreTyped', CommandSound(p)'
    PROVE  ProfileInv'
<1>1. ProfileTypeOK'
  BY DEF OnlyMoves, StoreTyped, ProfileTypeOK
<1>2. \A q \in Proc : CommandSound(q)'
  BY OthersSound DEF OnlyMoves
<1> QED BY <1>1, <1>2 DEF ProfileInv

-----------------------------------------------------------------------------
(* The commands that look, change and stop.                                *)

\* A process that goes to another place.
LEMMA PlaceMoves ==
    ASSUME ProfileTypeOK, NEW p \in Proc, NEW a \in CommandPlace,
           process' = [process EXCEPT ![p].at = a]
    PROVE  OnlyMoves(p) /\ process'[p] = [process[p] EXCEPT !.at = a]
<1>1. process \in [Proc -> CommandState] /\ process[p] \in CommandState
  BY CommandFields DEF ProfileTypeOK
<1>2. [process[p] EXCEPT !.at = a] \in CommandState
  BY <1>1 DEF CommandState
<1> QED BY <1>1, <1>2 DEF OnlyMoves

\* A command that concludes has nothing left to keep.
LEMMA ConcludesSound ==
    ASSUME ProfileInv, NEW p \in Proc, process[p].at \in Commanding, Concludes(p)
    PROVE  /\ OnlyMoves(p) /\ CommandSound(p)' /\ process'[p].at = "ended"
           /\ operation = p /\ operation' = Nobody
<1>1. OnlyMoves(p) /\ process'[p] = [process[p] EXCEPT !.at = "ended"]
  BY PlaceMoves DEF ProfileInv, Concludes, CommandPlace
<1>2. process[p] \in CommandState
  BY CommandFields DEF ProfileInv
<1>3. process'[p].at = "ended" /\ process'[p].op = process[p].op
  BY <1>1, <1>2 DEF CommandState
<1>4. operation = p /\ process[p].op # "run"
  BY DEF ProfileInv, CommandSound, HoldsOperation, CommandOf
<1>5. CommandSound(p)'
  BY <1>3, <1>4 DEF CommandSound, HoldsOperation, HoldsLock, OwnsSocket, KeepsProfile,
     CommandOf, ChecksProfile, KeepsStages, Commanding, Starting, Hosting, Looking, Changing
<1> QED BY <1>1, <1>3, <1>4, <1>5 DEF Concludes

LEMMA ConcludesKeeps ==
    ASSUME ProfileInv, NEW p \in Proc, process[p].at \in Commanding, Concludes(p),
           temporary' \subseteq ProfileName, UNCHANGED <<profiles, lockHolder, socket>>
    PROVE  ProfileInv'
<1>1. /\ OnlyMoves(p) /\ CommandSound(p)' /\ process'[p].at = "ended"
      /\ operation = p /\ operation' = Nobody
  BY ConcludesSound
<1>2. Within(p)
  BY <1>1 DEF Within, OnlyMoves, RoleOf, Hosting
<1>3. StoreTyped'
  BY <1>1 DEF ProfileInv, ProfileTypeOK, StoreTyped
<1> QED BY <1>1, <1>2, <1>3, ActorKeeps

\* Whoever finds the owner lock free, or takes it, has no host of the role beside it.
LEMMA FreeLockNoHost ==
    ASSUME ProfileInv, NEW p \in Proc, process[p].at \notin Hosting,
           NEW r \in RoleRoot, lockHolder[r] \in {p, Nobody}
    PROVE  NoHost(r)
BY NobodyIsNone DEF ProfileInv, CommandSound, HoldsLock, NoHost

\* A command that goes on to another of its places is sound there, if the role it
\* leaves behind has no host.
LEMMA FoundNoneSound ==
    ASSUME ProfileInv, NEW p \in Proc, process[p].at \in Looking, NoHost(Looks(p)),
           FoundNone(p), profiles' = profiles
    PROVE  /\ OnlyMoves(p) /\ CommandSound(p)' /\ process'[p].at \notin Hosting
           /\ operation = p /\ operation' \in {p, Nobody}
<1>1. CASE process[p].op \in {"status", "stop"}
  <2>1. process[p].at \in Commanding /\ Concludes(p)
    BY <1>1 DEF FoundNone, Looking, Commanding
  <2> QED BY <2>1, ConcludesSound DEF Hosting
<1>2. CASE process[p].op \notin {"status", "stop"}
  <2> DEFINE s == process[p]
             a == IF Len(s.look) > 1 THEN "discover" ELSE IF s.op = "set" THEN "write" ELSE "remove"
             t == [s EXCEPT !.look = Tail(@), !.at = a]
  <2>1. process' = [process EXCEPT ![p] = t] /\ operation' = operation
    BY <1>2 DEF FoundNone
  <2>2. s \in CommandState /\ s.look \in Seq(RoleRoot) /\ s.look # <<>>
    BY CommandFields, RoleIsRoot DEF ProfileInv
  <2>3. Tail(s.look) \in Seq(RoleRoot) /\ Len(Tail(s.look)) = Len(s.look) - 1 /\ Len(s.look) \in Nat
    BY <2>2, HeadTailProperties
  <2>4. a \in {"discover", "write", "remove"} /\ a \in CommandPlace
        /\ (a = "discover" => Tail(s.look) # <<>>)
    <3>1. ASSUME NEW l, NEW k \in Nat, Len(l) = k - 1, k > 1 PROVE l # <<>>
      BY <3>1
    <3>2. Len(s.look) > 1 => Tail(s.look) # <<>>
      BY <2>3, <3>1
    <3>3. a = "discover" => Len(s.look) > 1
      OBVIOUS
    <3> QED BY <3>2, <3>3 DEF CommandPlace, Commanding
  <2> HIDE DEF a
  <2>5. t \in CommandState
    BY <2>2, <2>3, <2>4 DEF CommandState
  <2>6. t.at = a /\ t.look = Tail(s.look) /\ t.op = s.op /\ t.name = s.name /\ t.profile = s.profile
    BY <2>2 DEF CommandState
  <2> HIDE DEF t
  <2>7. process \in [Proc -> CommandState]
    BY DEF ProfileInv, ProfileTypeOK
  <2>8. OnlyMoves(p) /\ process'[p] = t
    BY <2>1, <2>5, <2>7 DEF OnlyMoves
  <2>9. CommandSound(p) /\ operation = p
    BY DEF ProfileInv, CommandSound, HoldsOperation, Looking, Commanding
  <2>10. s.op \in {"set", "delete"} /\ s.name \in ProfileName /\ s.profile \in Profile
    BY <1>2, <2>9 DEF CommandSound, CommandOf, Looking, Commanding
  <2>11. a = "write" => s.op = "set"
    BY DEF a
  <2>12. a = "remove" => s.op = "delete"
    BY <2>10 DEF a
  <2>13. HoldsOperation(p)' /\ HoldsLock(p)' /\ OwnsSocket(p)' /\ KeepsProfile(p)' /\ KeepsStages(p)'
    BY <2>1, <2>4, <2>6, <2>8, <2>9, <2>10 DEF HoldsOperation, HoldsLock, OwnsSocket, KeepsProfile,
       KeepsStages, Hosting
  <2>14. CommandOf(p)'
    BY <2>4, <2>6, <2>8, <2>10, <2>11, <2>12 DEF CommandOf, Looking
  <2>15. profiles[s.name] # NoProfile => NoHost(profiles[s.name].role)
    BY <2>9, <2>10 DEF CommandSound, ChecksProfile
  <2>16. ChecksProfile(p)'
    <3>1. \A r : NoHost(r) => NoHost(r)'
      BY <2>4, <2>6, <2>8 DEF NoHost, RoleOf, OnlyMoves, Hosting
    <3> QED BY <2>6, <2>8, <2>15, <3>1 DEF ChecksProfile
  <2> QED BY <2>1, <2>4, <2>6, <2>8, <2>9, <2>13, <2>14, <2>16 DEF CommandSound, Hosting
<1> QED BY <1>1, <1>2

\* A command that goes on looking, or from writing to the rename.
LEMMA GoesOnSound ==
    ASSUME ProfileInv, NEW p \in Proc, NEW a \in CommandPlace, UNCHANGED <<profiles, operation>>,
           process' = [process EXCEPT ![p].at = a],
           \/ process[p].at = "discover" /\ a = "asking"
           \/ process[p].at \in {"discover", "asking"} /\ a = "probing" /\ lockHolder'[Looks(p)] = p
           \/ process[p].at = "write" /\ a = "rename"
    PROVE  /\ OnlyMoves(p) /\ CommandSound(p)' /\ process'[p].at \notin Hosting /\ operation = p
<1> DEFINE s == process[p]
<1>1. OnlyMoves(p) /\ process'[p] = [s EXCEPT !.at = a]
  BY PlaceMoves DEF ProfileInv
<1>2. s \in CommandState
  BY CommandFields DEF ProfileInv
<1>3. process'[p].at = a /\ process'[p].look = s.look /\ process'[p].op = s.op
      /\ process'[p].name = s.name /\ process'[p].profile = s.profile
  BY <1>1, <1>2 DEF CommandState
<1>4. CommandSound(p) /\ operation = p
  BY DEF ProfileInv, CommandSound, HoldsOperation, Commanding
<1>5. HoldsOperation(p)' /\ HoldsLock(p)' /\ OwnsSocket(p)' /\ KeepsProfile(p)'
  BY <1>3, <1>4 DEF HoldsOperation, HoldsLock, OwnsSocket, KeepsProfile, Hosting, Looks
<1>6. CommandOf(p)' /\ KeepsStages(p)'
  BY <1>3, <1>4 DEF CommandSound, CommandOf, KeepsStages, Looking, Commanding
<1>7. ChecksProfile(p)'
  <2>1. \A r : NoHost(r) => NoHost(r)'
    BY <1>1, <1>3 DEF NoHost, RoleOf, OnlyMoves, Hosting
  <2> QED BY <1>3, <1>4, <2>1 DEF CommandSound, ChecksProfile, Looking, Changing, Looks
<1> QED BY <1>1, <1>3, <1>4, <1>5, <1>6, <1>7 DEF CommandSound, Hosting

\* discover_owner_info without a socket, or with one that is not private.
LEMMA DiscoverNoSocketKeeps ==
    ASSUME ProfileInv, NEW p \in Proc, DiscoverNoSocket(p)
    PROVE  ProfileInv'
<1>1. process[p].at \in Looking /\ process[p].at \in Commanding /\ process[p].at \notin Hosting
  BY DEF DiscoverNoSocket, Looking, Commanding, Hosting
<1>2. CASE lockHolder[Looks(p)] # Nobody
  BY <1>1, <1>2, ConcludesKeeps DEF DiscoverNoSocket, ProfileInv, ProfileTypeOK
<1>3. CASE lockHolder[Looks(p)] = Nobody
  <2>1. NoHost(Looks(p))
    BY <1>1, <1>3, RoleIsRoot, FreeLockNoHost
  <2>2. /\ OnlyMoves(p) /\ CommandSound(p)' /\ process'[p].at \notin Hosting
        /\ operation = p /\ operation' \in {p, Nobody}
    BY <1>1, <1>3, <2>1, FoundNoneSound DEF DiscoverNoSocket
  <2>3. Within(p)
    BY <2>2 DEF Within, OnlyMoves, RoleOf, DiscoverNoSocket
  <2>4. StoreTyped'
    BY <2>2 DEF StoreTyped, ProfileInv, ProfileTypeOK, DiscoverNoSocket
  <2> QED BY <2>2, <2>3, <2>4, ActorKeeps
<1> QED BY <1>2, <1>3

\* The owner lock is taken to remove a socket that nobody answers on.
LEMMA ProbingKeeps ==
    ASSUME ProfileInv, NEW p \in Proc, process[p].at \in {"discover", "asking"},
           lockHolder[Looks(p)] = Nobody, lockHolder' = [lockHolder EXCEPT ![Looks(p)] = p],
           process' = [process EXCEPT ![p].at = "probing"],
           UNCHANGED <<profiles, temporary, operation, socket>>
    PROVE  ProfileInv'
<1>1. Looks(p) \in RoleRoot
  BY RoleIsRoot DEF Looking
<1>2. lockHolder \in [RoleRoot -> Proc \cup {Nobody}]
  BY DEF ProfileInv, ProfileTypeOK
<1>3. lockHolder' \in [RoleRoot -> Proc \cup {Nobody}] /\ lockHolder'[Looks(p)] = p
      /\ \A r \in RoleRoot : lockHolder'[r] = lockHolder[r] \/ lockHolder[r] = Nobody
  BY <1>1, <1>2
<1>4. OnlyMoves(p) /\ CommandSound(p)' /\ process'[p].at \notin Hosting /\ operation = p
  BY <1>3, GoesOnSound DEF CommandPlace, Commanding
<1>5. Within(p)
  BY <1>3, <1>4 DEF Within, OnlyMoves, RoleOf
<1>6. StoreTyped'
  BY <1>3 DEF StoreTyped, ProfileInv, ProfileTypeOK
<1> QED BY <1>4, <1>5, <1>6, ActorKeeps

LEMMA DiscoverNotPrivateKeeps ==
    ASSUME ProfileInv, NEW p \in Proc, DiscoverNotPrivate(p)
    PROVE  ProfileInv'
<1>1. process[p].at \in Commanding
  BY DEF DiscoverNotPrivate, Commanding
<1>2. CASE lockHolder[Looks(p)] # Nobody
  BY <1>1, <1>2, ConcludesKeeps DEF DiscoverNotPrivate, ProfileInv, ProfileTypeOK
<1>3. CASE lockHolder[Looks(p)] = Nobody
  BY <1>3, ProbingKeeps DEF DiscoverNotPrivate
<1> QED BY <1>2, <1>3

LEMMA DiscoverUnansweredKeeps ==
    ASSUME ProfileInv, NEW p \in Proc, DiscoverUnanswered(p)
    PROVE  ProfileInv'
<1>1. process[p].at \in Commanding
  BY DEF DiscoverUnanswered, Commanding
<1>2. CASE lockHolder[Looks(p)] # Nobody
  BY <1>1, <1>2, ConcludesKeeps DEF DiscoverUnanswered, ProfileInv, ProfileTypeOK
<1>3. CASE lockHolder[Looks(p)] = Nobody
  BY <1>3, ProbingKeeps DEF DiscoverUnanswered
<1> QED BY <1>2, <1>3

LEMMA DiscoverSocketKeeps ==
    ASSUME ProfileInv, NEW p \in Proc, DiscoverSocket(p)
    PROVE  ProfileInv'
<1>1. OnlyMoves(p) /\ CommandSound(p)' /\ process'[p].at \notin Hosting /\ operation = p
  BY GoesOnSound DEF DiscoverSocket, CommandPlace, Commanding
<1>2. Within(p)
  BY <1>1 DEF Within, OnlyMoves, RoleOf, DiscoverSocket
<1>3. StoreTyped'
  BY DEF StoreTyped, ProfileInv, ProfileTypeOK, DiscoverSocket
<1> QED BY <1>1, <1>2, <1>3, ActorKeeps

LEMMA DiscoverRemovesKeeps ==
    ASSUME ProfileInv, NEW p \in Proc, DiscoverRemoves(p)
    PROVE  ProfileInv'
<1>1. process[p].at \in Looking /\ process[p].at \notin Hosting /\ lockHolder[Looks(p)] = p
      /\ Looks(p) \in RoleRoot
  BY RoleIsRoot DEF DiscoverRemoves, Looking, Hosting, ProfileInv, CommandSound, HoldsLock
<1>2. NoHost(Looks(p))
  BY <1>1, FreeLockNoHost
<1>3. /\ OnlyMoves(p) /\ CommandSound(p)' /\ process'[p].at \notin Hosting
      /\ operation = p /\ operation' \in {p, Nobody}
  BY <1>1, <1>2, FoundNoneSound DEF DiscoverRemoves
<1>4. lockHolder \in [RoleRoot -> Proc \cup {Nobody}] /\ socket \in [RoleRoot -> SocketState]
  BY DEF ProfileInv, ProfileTypeOK
<1>5. lockHolder' \in [RoleRoot -> Proc \cup {Nobody}]
      /\ \A r \in RoleRoot : lockHolder'[r] = lockHolder[r] \/ lockHolder[r] = p
  BY <1>1, <1>4 DEF DiscoverRemoves
<1>6. socket' \in [RoleRoot -> SocketState]
      /\ \A r \in RoleRoot : socket'[r] = socket[r] \/ lockHolder[r] = p
  <2>1. NoSocket \in SocketState
    BY DEF NoSocket, SocketState
  <2> QED BY <1>1, <1>4, <2>1 DEF DiscoverRemoves
<1>7. Within(p)
  BY <1>3, <1>5, <1>6 DEF Within, OnlyMoves, RoleOf, DiscoverRemoves
<1>8. StoreTyped'
  BY <1>3, <1>5, <1>6 DEF StoreTyped, ProfileInv, ProfileTypeOK, DiscoverRemoves
<1> QED BY <1>3, <1>7, <1>8, ActorKeeps

\* An answer makes stop go on, and ends every other command.
LEMMA DiscoverAnsweredKeeps ==
    ASSUME ProfileInv, NEW p \in Proc, NEW q \in Proc, DiscoverAnswered(p, q)
    PROVE  ProfileInv'
<1>1. process[p].at = "asking" /\ process[p].at \in Commanding
      /\ UNCHANGED <<profiles, temporary, lockHolder, socket>>
  BY DEF DiscoverAnswered, Commanding
<1>2. CASE ~(process[p].op = "stop" /\ Launched(q) = Launched(p))
  <2>1. Concludes(p)
    BY <1>2 DEF DiscoverAnswered, FoundOwner
  <2> QED BY <1>1, <2>1, ConcludesKeeps DEF ProfileInv, ProfileTypeOK
<1>3. CASE process[p].op = "stop" /\ Launched(q) = Launched(p)
  <2> DEFINE s == process[p]
             t == [s EXCEPT !.at = "shutdown", !.sees = q]
  <2>1. process' = [process EXCEPT ![p] = t] /\ operation' = operation
    BY <1>3 DEF DiscoverAnswered, FoundOwner
  <2>2. s \in CommandState /\ process \in [Proc -> CommandState]
    BY CommandFields DEF ProfileInv, ProfileTypeOK
  <2>3. t \in CommandState
    BY <2>2 DEF CommandState, CommandPlace, Commanding
  <2>4. t.at = "shutdown" /\ t.sees = q /\ t.op = "stop" /\ t.name = s.name /\ t.profile = s.profile
    BY <1>3, <2>2 DEF CommandState
  <2> HIDE DEF t
  <2>5. OnlyMoves(p) /\ process'[p] = t
    BY <2>1, <2>2, <2>3 DEF OnlyMoves
  <2>6. operation = p /\ s.name \in ProfileName /\ s.profile \in Profile
    BY <1>1 DEF ProfileInv, CommandSound, HoldsOperation, CommandOf
  <2>7. CommandSound(p)'
    BY <2>1, <2>4, <2>5, <2>6 DEF CommandSound, HoldsOperation, HoldsLock, OwnsSocket,
       KeepsProfile, CommandOf, ChecksProfile, KeepsStages, Hosting, Looking
  <2>8. Within(p)
    BY <1>1, <2>1, <2>4, <2>5 DEF Within, OnlyMoves, RoleOf, Hosting
  <2>9. StoreTyped'
    BY <1>1, <2>1 DEF StoreTyped, ProfileInv, ProfileTypeOK
  <2> QED BY <2>5, <2>7, <2>8, <2>9, ActorKeeps
<1> QED BY <1>2, <1>3

LEMMA SetWritesKeeps ==
    ASSUME ProfileInv, NEW p \in Proc, SetWrites(p)
    PROVE  ProfileInv'
<1>1. process[p].at = "write" /\ process[p].at \in Commanding
      /\ UNCHANGED <<profiles, lockHolder, socket>>
  BY DEF SetWrites, Commanding
<1>2. CASE Concludes(p) /\ UNCHANGED temporary
  BY <1>1, <1>2, ConcludesKeeps DEF ProfileInv, ProfileTypeOK
<1>3. CASE /\ temporary' = temporary \cup {process[p].name}
           /\ process' = [process EXCEPT ![p].at = "rename"] /\ UNCHANGED operation
  <2>1. OnlyMoves(p) /\ CommandSound(p)' /\ process'[p].at \notin Hosting /\ operation = p
    BY <1>1, <1>3, GoesOnSound DEF CommandPlace, Commanding
  <2>2. temporary' \subseteq ProfileName
    BY <1>1, <1>3 DEF ProfileInv, ProfileTypeOK, CommandSound, CommandOf
  <2>3. Within(p)
    BY <1>1, <1>3, <2>1 DEF Within, OnlyMoves, RoleOf
  <2>4. StoreTyped'
    BY <1>1, <1>3, <2>2 DEF StoreTyped, ProfileInv, ProfileTypeOK
  <2> QED BY <2>1, <2>3, <2>4, ActorKeeps
<1> QED BY <1>2, <1>3 DEF SetWrites

\* The rename and the removal: the profile has no host, as was found before.
LEMMA ChangesKeep ==
    ASSUME ProfileInv, NEW p \in Proc, process[p].at \in {"rename", "remove"}, Concludes(p),
           NEW new \in Profile \cup {NoProfile}, temporary' \subseteq ProfileName,
           profiles' \in {profiles, [profiles EXCEPT ![process[p].name] = new]},
           UNCHANGED <<lockHolder, socket>>
    PROVE  ProfileInv'
<1>1. /\ OnlyMoves(p) /\ CommandSound(p)' /\ process'[p].at = "ended"
      /\ operation = p /\ operation' = Nobody
  BY ConcludesSound DEF Commanding
<1>2. profiles \in [ProfileName -> Profile \cup {NoProfile}]
  BY DEF ProfileInv, ProfileTypeOK
<1>3. /\ profiles' \in [ProfileName -> Profile \cup {NoProfile}]
      /\ \A n \in ProfileName \ {process[p].name} : profiles'[n] = profiles[n]
  BY <1>2
<1>4. Within(p)
  BY <1>1, <1>3 DEF Within, OnlyMoves, RoleOf, Hosting
<1>5. StoreTyped'
  BY <1>1, <1>3 DEF ProfileInv, ProfileTypeOK, StoreTyped
<1> QED BY <1>1, <1>4, <1>5, ActorKeeps

LEMMA SetRenamesKeeps ==
    ASSUME ProfileInv, NEW p \in Proc, SetRenames(p)
    PROVE  ProfileInv'
<1>1. process[p].profile \in Profile \cup {NoProfile}
  BY CommandFields DEF ProfileInv
<1>2. temporary' \subseteq ProfileName
  BY DEF SetRenames, ProfileInv, ProfileTypeOK
<1> QED BY <1>1, <1>2, ChangesKeep DEF SetRenames

LEMMA DeleteRemovesKeeps ==
    ASSUME ProfileInv, NEW p \in Proc, DeleteRemoves(p)
    PROVE  ProfileInv'
BY ChangesKeep DEF DeleteRemoves, ProfileInv, ProfileTypeOK

\* The host that stop asks serves: one that does not yet would hold the operation lock.
LEMMA StopAsksKeeps ==
    ASSUME ProfileInv, NEW p \in Proc, StopAsks(p)
    PROVE  ProfileInv'
<1>1. process[p].at = "shutdown" /\ process[p].at \in Commanding /\ process[p].at \notin Hosting
      /\ UNCHANGED <<profiles, temporary, lockHolder, socket>>
  BY DEF StopAsks, Commanding, Hosting
<1>2. /\ operation = p /\ process[p].sees \in Proc
      /\ process[p].op \in {"set", "delete", "status", "stop"}
      /\ process[p].name \in ProfileName /\ process[p].profile \in Profile
  BY <1>1 DEF ProfileInv, CommandSound, HoldsOperation, CommandOf
<1>3. CASE Concludes(p)
  BY <1>1, <1>3, ConcludesKeeps DEF ProfileInv, ProfileTypeOK
<1>4. ASSUME NEW q \in Proc, Answers(q), NEW a \in {"waiting", "ended"},
             process' = [process EXCEPT ![p].at = a, ![q].at = "ending"],
             operation' = IF a = "waiting" THEN p ELSE Nobody
      PROVE  ProfileInv'
  <2>1. process \in [Proc -> CommandState] /\ process[p] \in CommandState /\ process[q] \in CommandState
    BY CommandFields DEF ProfileInv, ProfileTypeOK
  <2>2. process[q].at = "serving" /\ q # p
    BY <1>1, <1>2, <1>4 DEF Answers, ProfileInv, CommandSound, HoldsOperation
  <2>3. /\ process'[p] = [process[p] EXCEPT !.at = a]
        /\ process'[q] = [process[q] EXCEPT !.at = "ending"]
        /\ \A x \in Proc \ {p, q} : process'[x] = process[x]
        /\ DOMAIN process' = Proc /\ process' = [x \in Proc |-> process'[x]]
    BY <1>4, <2>1, <2>2
  <2>4. /\ [process[p] EXCEPT !.at = a] \in CommandState
        /\ [process[q] EXCEPT !.at = "ending"] \in CommandState
    <3>1. a \in CommandPlace /\ "ending" \in CommandPlace
      BY <1>4 DEF CommandPlace, Commanding, Hosting
    <3> QED BY <2>1, <3>1 DEF CommandState
  <2>5. process' \in [Proc -> CommandState]
    BY <2>1, <2>3, <2>4
  <2>6. /\ process'[p].at = a /\ process'[p].op = process[p].op
        /\ process'[p].name = process[p].name /\ process'[p].profile = process[p].profile
    BY <2>1, <2>3 DEF CommandState
  <2>7. /\ process'[q].at = "ending" /\ process'[q].op = process[q].op
        /\ process'[q].name = process[q].name /\ process'[q].profile = process[q].profile
        /\ process'[q].did = process[q].did /\ process'[q].failed = process[q].failed
    BY <2>1, <2>3 DEF CommandState
  <2>8. Within(p)
    BY <1>1, <1>2, <1>4, <2>2, <2>3, <2>6, <2>7 DEF Within, RoleOf, Hosting
  <2>9. CommandSound(p)'
    BY <1>1, <1>2, <1>4, <2>6 DEF CommandSound, HoldsOperation, HoldsLock, OwnsSocket,
       KeepsProfile, CommandOf, ChecksProfile, KeepsStages, Commanding, Starting, Hosting,
       Looking, Changing
  <2>10. CommandSound(q)'
    <3>1. CommandSound(q)
      BY DEF ProfileInv
    <3>2. HoldsOperation(q)' /\ HoldsLock(q)' /\ OwnsSocket(q)' /\ KeepsProfile(q)'
      BY <1>1, <2>2, <2>7, <3>1 DEF CommandSound, HoldsOperation, HoldsLock, OwnsSocket,
         KeepsProfile, RoleOf, Commanding, Starting, Hosting
    <3>3. CommandOf(q)' /\ ChecksProfile(q)'
      BY <2>7 DEF CommandOf, ChecksProfile, Commanding, Looking, Changing
    <3>4. KeepsStages(q)'
      BY <2>2, <2>7, <3>1 DEF CommandSound, KeepsStages, Hosting
    <3> QED BY <3>2, <3>3, <3>4 DEF CommandSound
  <2>11. \A x \in Proc : CommandSound(x)'
    <3> SUFFICES ASSUME NEW x \in Proc, x # p, x # q PROVE CommandSound(x)'
      BY <2>9, <2>10
    <3> QED BY <2>3, <2>8, OthersSound
  <2>12. ProfileTypeOK'
    BY <1>1, <1>4, <2>5 DEF ProfileInv, ProfileTypeOK
  <2> QED BY <2>11, <2>12 DEF ProfileInv
<1> QED BY <1>2, <1>3, <1>4 DEF StopAsks

LEMMA StopWaitsKeeps ==
    ASSUME ProfileInv, NEW p \in Proc, StopWaits(p)
    PROVE  ProfileInv'
BY ConcludesKeeps DEF StopWaits, Commanding, ProfileInv, ProfileTypeOK

-----------------------------------------------------------------------------
(* The start of a command, and the host.                                   *)

\* The new command, whatever it is, has the operation lock.
LEMMA CommandTyped ==
    ASSUME NEW op \in {"set", "delete", "status", "stop", "run"}, NEW n \in ProfileName,
           NEW f \in Profile, NEW l \in Seq(RoleRoot)
    PROVE  /\ Command(op, n, f, l) \in CommandState
           /\ Command(op, n, f, l).at = IF op = "run" THEN "acquire" ELSE "discover"
           /\ Command(op, n, f, l).op = op /\ Command(op, n, f, l).name = n
           /\ Command(op, n, f, l).profile = f /\ Command(op, n, f, l).look = l
           /\ Command(op, n, f, l).did = {"ProfileResolve"} /\ Command(op, n, f, l).failed = NoStage
           /\ ~Command(op, n, f, l).cancel
<1>1. (IF op = "run" THEN "acquire" ELSE "discover") \in CommandPlace
  BY DEF CommandPlace, Commanding
<1>2. {"ProfileResolve"} \in SUBSET StageName
  BY DEF StageName
<1> QED BY <1>1, <1>2 DEF Command, CommandState

LEMMA BeginsKeep ==
    ASSUME ProfileInv, NEW p \in Proc, Starts(p), operation' = p, temporary' \subseteq ProfileName,
           NEW op \in {"set", "delete", "status", "stop", "run"}, NEW n \in ProfileName,
           NEW f \in Profile, NEW l \in Seq(RoleRoot), l # <<>>,
           op = "run" => f = profiles[n] /\ f # NoProfile,
           op \in {"set", "delete"} /\ profiles[n] # NoProfile => Head(l) = profiles[n].role,
           process' = [process EXCEPT ![p] = Command(op, n, f, l)],
           UNCHANGED <<profiles, lockHolder, socket>>
    PROVE  ProfileInv'
<1> DEFINE t == Command(op, n, f, l)
<1>1. /\ t \in CommandState /\ t.at = (IF op = "run" THEN "acquire" ELSE "discover")
      /\ t.op = op /\ t.name = n /\ t.profile = f /\ t.look = l
      /\ t.did = {"ProfileResolve"} /\ t.failed = NoStage /\ ~t.cancel
  BY CommandTyped
<1> HIDE DEF t
<1>2. process \in [Proc -> CommandState]
  BY DEF ProfileInv, ProfileTypeOK
<1>3. OnlyMoves(p) /\ process'[p] = t
  BY <1>1, <1>2 DEF OnlyMoves, t
<1>4. t.at \in {"acquire", "discover"} /\ (t.at = "acquire" <=> op = "run")
  BY <1>1
<1>5. HoldsOperation(p)' /\ HoldsLock(p)' /\ OwnsSocket(p)'
  BY <1>3, <1>4 DEF HoldsOperation, HoldsLock, OwnsSocket, Hosting
<1>6. KeepsProfile(p)'
  BY <1>1, <1>3, <1>4 DEF KeepsProfile, Hosting
<1>7. CommandOf(p)'
  BY <1>1, <1>3, <1>4 DEF CommandOf, Commanding
<1>8. ChecksProfile(p)'
  BY <1>1, <1>3, <1>4 DEF ChecksProfile, Looks, Looking
<1>9. KeepsStages(p)'
  BY <1>1, <1>3, <1>4 DEF KeepsStages, Hosting
<1>10. CommandSound(p)'
  BY <1>5, <1>6, <1>7, <1>8, <1>9 DEF CommandSound
<1>11. Within(p)
  BY <1>3, <1>4 DEF Within, OnlyMoves, RoleOf, Hosting, Starts
<1>12. StoreTyped'
  BY DEF StoreTyped, ProfileInv, ProfileTypeOK
<1> QED BY <1>3, <1>10, <1>11, <1>12, ActorKeeps

LEMMA SetBeginsKeeps ==
    ASSUME ProfileInv, NEW p \in Proc, NEW n \in ProfileName, NEW new \in Profile,
           SetBegins(p, n, new)
    PROVE  ProfileInv'
<1> DEFINE l == RolesToCheck(profiles[n], new)
<1>1. profiles[n] \in Profile \cup {NoProfile}
  BY DEF ProfileInv, ProfileTypeOK
<1>2. l \in Seq(RoleRoot) /\ l # <<>> /\ (profiles[n] # NoProfile => Head(l) = profiles[n].role)
  <2>1. new.role \in RoleRoot
    BY DEF Profile
  <2>2. CASE profiles[n] = NoProfile
    BY <2>1, <2>2 DEF RolesToCheck
  <2>3. CASE profiles[n] # NoProfile
    <3>1. profiles[n].role \in RoleRoot
      BY <1>1, <2>3 DEF Profile
    <3>2. l = <<profiles[n].role, new.role>>
      BY <2>3 DEF RolesToCheck
    <3> QED BY <2>1, <3>1, <3>2
  <2> QED BY <2>2, <2>3
<1> HIDE DEF l
<1>3. process' = [process EXCEPT ![p] = Command("set", n, new, l)]
  BY DEF SetBegins, l
<1>4. Starts(p) /\ operation' = p /\ temporary' \subseteq ProfileName
      /\ UNCHANGED <<profiles, lockHolder, socket>>
  BY DEF SetBegins
<1> QED BY <1>2, <1>3, <1>4, BeginsKeep

LEMMA ProfileBeginsKeeps ==
    ASSUME ProfileInv, NEW p \in Proc, NEW n \in ProfileName,
           NEW op \in {"delete", "status", "stop", "run"}, ProfileBegins(p, n, op)
    PROVE  ProfileInv'
<1>1. profiles[n] \in Profile /\ profiles[n] # NoProfile
  BY DEF ProfileInv, ProfileTypeOK, ProfileBegins, Existing
<1> DEFINE l == <<profiles[n].role>>
<1>2. l \in Seq(RoleRoot) /\ l # <<>> /\ Head(l) = profiles[n].role
  <2>1. profiles[n].role \in RoleRoot
    BY <1>1 DEF Profile
  <2> QED BY <2>1
<1>3. process' = [process EXCEPT ![p] = Command(op, n, profiles[n], l)]
  BY DEF ProfileBegins
<1> HIDE DEF l
<1>4. Starts(p) /\ operation' = p /\ temporary' \subseteq ProfileName
      /\ UNCHANGED <<profiles, lockHolder, socket>>
  BY DEF ProfileInv, ProfileTypeOK, ProfileBegins
<1>5. op \in {"set", "delete", "status", "stop", "run"}
  OBVIOUS
<1> QED BY <1>1, <1>2, <1>3, <1>4, <1>5, BeginsKeep

LEMMA ProfileListKeeps ==
    ASSUME ProfileInv, ProfileList
    PROVE  ProfileInv'
<1>1. ProfileTypeOK'
  BY DEF ProfileInv, ProfileTypeOK, ProfileList
<1>2. ASSUME NEW p \in Proc PROVE CommandSound(p)'
  <2>1. CommandSound(p) /\ UNCHANGED <<profiles, operation, lockHolder, socket, process>>
    BY DEF ProfileInv, ProfileList
  <2>2. HoldsOperation(p)' /\ HoldsLock(p)' /\ OwnsSocket(p)' /\ KeepsProfile(p)'
    BY <2>1 DEF CommandSound, HoldsOperation, HoldsLock, OwnsSocket, KeepsProfile, RoleOf, Looks
  <2>3. CommandOf(p)' /\ ChecksProfile(p)' /\ KeepsStages(p)'
    BY <2>1 DEF CommandSound, CommandOf, ChecksProfile, KeepsStages, NoHost, RoleOf, Looks
  <2> QED BY <2>2, <2>3 DEF CommandSound
<1> QED BY <1>1, <1>2 DEF ProfileInv

\* What a host does to itself: it was launched from the profile it has, looks at
\* nothing and changes no profile, so that the rest is left to show.
LEMMA HostKeeps ==
    ASSUME ProfileInv, NEW p \in Proc, process[p].at \in Hosting \cup {"acquire"},
           NEW t \in CommandState, process' = [process EXCEPT ![p] = t],
           t.at \in Hosting \cup {"ended"},
           t.op = process[p].op, t.name = process[p].name, t.profile = process[p].profile,
           UNCHANGED <<profiles, temporary>>,
           operation' \in Proc \cup {Nobody}, operation' = operation \/ operation = p,
           lockHolder' \in [RoleRoot -> Proc \cup {Nobody}],
           \A r \in RoleRoot : lockHolder'[r] = lockHolder[r] \/ lockHolder[r] \in {p, Nobody},
           socket' \in [RoleRoot -> SocketState],
           \A r \in RoleRoot : socket'[r] = socket[r] \/ lockHolder[r] = p,
           HoldsOperation(p)', HoldsLock(p)', OwnsSocket(p)', KeepsStages(p)'
    PROVE  ProfileInv'
<1>1. process \in [Proc -> CommandState] /\ CommandSound(p)
  BY DEF ProfileInv, ProfileTypeOK
<1>2. OnlyMoves(p) /\ process'[p] = t
  BY <1>1 DEF OnlyMoves
<1>3. KeepsProfile(p)'
  BY <1>1, <1>2 DEF CommandSound, KeepsProfile
<1>4. CommandOf(p)' /\ ChecksProfile(p)'
  BY <1>1, <1>2 DEF CommandSound, KeepsProfile, CommandOf, ChecksProfile, Hosting, Commanding
<1>5. Within(p)
  <2>1. process[p].at \in Hosting \/ operation = p
    BY <1>1 DEF CommandSound, HoldsOperation, Starting
  <2> QED BY <1>2, <2>1 DEF Within, OnlyMoves, RoleOf
<1>6. StoreTyped'
  BY DEF StoreTyped, ProfileInv, ProfileTypeOK
<1> QED BY <1>2, <1>3, <1>4, <1>5, <1>6, ActorKeeps DEF CommandSound

\* What is known of a host before its step.
LEMMA HostKnown ==
    ASSUME ProfileInv, NEW p \in Proc, process[p].at \in Hosting \cup {"acquire"}
    PROVE  /\ RoleOf(p) \in RoleRoot /\ process[p] \in CommandState /\ process[p].op = "run"
           /\ process[p].did \subseteq StageName /\ process[p].failed \in StageName \cup {NoStage}
           /\ HoldsOperation(p) /\ HoldsLock(p) /\ OwnsSocket(p) /\ KeepsStages(p)
           /\ operation \in Proc \cup {Nobody} /\ lockHolder \in [RoleRoot -> Proc \cup {Nobody}]
           /\ socket \in [RoleRoot -> SocketState]
BY RoleIsRoot, CommandFields DEF ProfileInv, ProfileTypeOK, CommandSound, KeepsProfile

LEMMA OwnerAcquiresKeeps ==
    ASSUME ProfileInv, NEW p \in Proc, OwnerAcquires(p)
    PROVE  ProfileInv'
<1> DEFINE s == process[p]
           t == [s EXCEPT !.at = "bind", !.did = @ \cup {"HostOwnerAcquire"}]
<1>1. s.at = "acquire" /\ lockHolder[RoleOf(p)] = Nobody
      /\ lockHolder' = [lockHolder EXCEPT ![RoleOf(p)] = p]
      /\ process' = [process EXCEPT ![p] = t]
      /\ UNCHANGED <<profiles, temporary, operation, socket>>
  BY DEF OwnerAcquires, Advance
<1>2. /\ RoleOf(p) \in RoleRoot /\ s \in CommandState /\ s.did \subseteq StageName /\ s.op = "run"
      /\ HoldsOperation(p) /\ KeepsStages(p) /\ operation \in Proc \cup {Nobody}
      /\ lockHolder \in [RoleRoot -> Proc \cup {Nobody}] /\ socket \in [RoleRoot -> SocketState]
  BY <1>1, HostKnown
<1>3. t \in CommandState
  BY <1>2 DEF CommandState, CommandPlace, Hosting, StageName
<1>4. /\ t.at = "bind" /\ t.did = s.did \cup {"HostOwnerAcquire"} /\ t.failed = s.failed
      /\ t.cancel = s.cancel /\ t.op = s.op /\ t.name = s.name /\ t.profile = s.profile
  BY <1>2 DEF CommandState
<1> HIDE DEF t
<1>5. process'[p] = t
  BY <1>1 DEF ProfileInv, ProfileTypeOK
<1>6. HoldsOperation(p)' /\ HoldsLock(p)' /\ OwnsSocket(p)'
  BY <1>1, <1>2, <1>4, <1>5 DEF HoldsOperation, HoldsLock, OwnsSocket, RoleOf, Starting
<1>7. KeepsStages(p)'
  BY <1>1, <1>2, <1>4, <1>5 DEF KeepsStages, Hosting
<1>8. t.at \in Hosting /\ s.at \in Hosting \cup {"acquire"}
  BY <1>1, <1>4 DEF Hosting
<1>9. lockHolder' \in [RoleRoot -> Proc \cup {Nobody}]
      /\ \A r \in RoleRoot : lockHolder'[r] = lockHolder[r] \/ lockHolder[r] \in {p, Nobody}
  BY <1>1, <1>2
<1> QED BY <1>1, <1>2, <1>3, <1>4, <1>6, <1>7, <1>8, <1>9, HostKeeps

\* A host that ends lets the operation lock go.
LEMMA HostEndsMoves ==
    ASSUME ProfileInv, NEW p \in Proc, process[p].at \in Hosting \cup {"acquire"},
           NEW stage \in StageName \cup {NoStage}, NEW done \in SUBSET StageName,
           HostEnds(p, stage, done)
    PROVE  \E t \in CommandState :
              /\ process' = [process EXCEPT ![p] = t]
              /\ t.at = "ended" /\ t.did = process[p].did \cup done /\ t.op = process[p].op
              /\ t.failed = (IF process[p].failed = NoStage THEN stage ELSE process[p].failed)
              /\ t.name = process[p].name /\ t.profile = process[p].profile
              /\ operation' \in Proc \cup {Nobody} /\ (operation' = operation \/ operation = p)
<1> DEFINE s == process[p]
           f == IF s.failed = NoStage THEN stage ELSE s.failed
           t == [s EXCEPT !.at = "ended", !.did = s.did \cup done, !.failed = f]
<1>1. process' = [process EXCEPT ![p] = t]
      /\ operation' = IF operation = p THEN Nobody ELSE operation
  BY DEF HostEnds
<1>2. s \in CommandState /\ s.did \subseteq StageName /\ s.failed \in StageName \cup {NoStage}
      /\ operation \in Proc \cup {Nobody}
  BY HostKnown
<1>3. f \in StageName \cup {NoStage} /\ s.did \cup done \in SUBSET StageName /\ "ended" \in CommandPlace
  BY <1>2 DEF CommandPlace
<1>4. t \in CommandState
  BY <1>2, <1>3 DEF CommandState
<1>5. /\ t.at = "ended" /\ t.did = s.did \cup done /\ t.failed = f
      /\ t.op = s.op /\ t.name = s.name /\ t.profile = s.profile
  BY <1>2 DEF CommandState
<1> HIDE DEF t
<1> WITNESS t \in CommandState
<1> QED BY <1>1, <1>2, <1>5

LEMMA OwnerRefusedKeeps ==
    ASSUME ProfileInv, NEW p \in Proc, OwnerRefused(p)
    PROVE  ProfileInv'
<1> DEFINE s == process[p]
<1>1. s.at = "acquire" /\ s.at \in Hosting \cup {"acquire"} /\ HostEnds(p, "HostOwnerAcquire", {})
      /\ UNCHANGED <<profiles, temporary, lockHolder, socket>>
  BY DEF OwnerRefused
<1>2. PICK t \in CommandState :
              /\ process' = [process EXCEPT ![p] = t]
              /\ t.at = "ended" /\ t.did = s.did \cup {} /\ t.op = s.op
              /\ t.failed = (IF s.failed = NoStage THEN "HostOwnerAcquire" ELSE s.failed)
              /\ t.name = s.name /\ t.profile = s.profile
              /\ operation' \in Proc \cup {Nobody} /\ (operation' = operation \/ operation = p)
  BY <1>1, HostEndsMoves DEF StageName
<1>3. /\ s.op = "run" /\ KeepsStages(p) /\ lockHolder \in [RoleRoot -> Proc \cup {Nobody}]
      /\ socket \in [RoleRoot -> SocketState]
  BY <1>1, HostKnown
<1>4. process'[p] = t
  BY <1>2 DEF ProfileInv, ProfileTypeOK
<1>5. HoldsOperation(p)' /\ HoldsLock(p)' /\ OwnsSocket(p)'
  BY <1>2, <1>4 DEF HoldsOperation, HoldsLock, OwnsSocket, Starting, Hosting, Commanding
<1>6. KeepsStages(p)'
  BY <1>1, <1>2, <1>3, <1>4 DEF KeepsStages, Hosting, NoStage
<1> QED BY <1>1, <1>2, <1>3, <1>5, <1>6, HostKeeps

LEMMA OwnerReleasesKeeps ==
    ASSUME ProfileInv, NEW p \in Proc, OwnerReleases(p)
    PROVE  ProfileInv'
<1> DEFINE s == process[p]
<1>1. s.at = "finished" /\ s.at \in Hosting /\ HostEnds(p, NoStage, {"HostOwnerRelease"})
      /\ lockHolder' = [lockHolder EXCEPT ![RoleOf(p)] = Nobody]
      /\ UNCHANGED <<profiles, temporary, socket>>
  BY DEF OwnerReleases, Hosting
<1>2. PICK t \in CommandState :
              /\ process' = [process EXCEPT ![p] = t]
              /\ t.at = "ended" /\ t.did = s.did \cup {"HostOwnerRelease"} /\ t.op = s.op
              /\ t.failed = (IF s.failed = NoStage THEN NoStage ELSE s.failed)
              /\ t.name = s.name /\ t.profile = s.profile
              /\ operation' \in Proc \cup {Nobody} /\ (operation' = operation \/ operation = p)
  BY <1>1, HostEndsMoves DEF StageName
<1>3. /\ s.op = "run" /\ KeepsStages(p) /\ HoldsLock(p) /\ RoleOf(p) \in RoleRoot
      /\ lockHolder \in [RoleRoot -> Proc \cup {Nobody}] /\ socket \in [RoleRoot -> SocketState]
  BY <1>1, HostKnown
<1>4. process'[p] = t
  BY <1>2 DEF ProfileInv, ProfileTypeOK
<1>5. HoldsOperation(p)' /\ HoldsLock(p)' /\ OwnsSocket(p)'
  BY <1>2, <1>4 DEF HoldsOperation, HoldsLock, OwnsSocket, Starting, Hosting, Commanding
<1>6. KeepsStages(p)'
  BY <1>1, <1>2, <1>3, <1>4 DEF KeepsStages, Hosting, NoStage
<1>7. lockHolder' \in [RoleRoot -> Proc \cup {Nobody}]
      /\ \A r \in RoleRoot : lockHolder'[r] = lockHolder[r] \/ lockHolder[r] \in {p, Nobody}
  BY <1>1, <1>3 DEF HoldsLock
<1> QED BY <1>1, <1>2, <1>3, <1>5, <1>6, <1>7, HostKeeps

\* A host that goes on under its owner lock.
LEMMA HostGoesOn ==
    ASSUME ProfileInv, NEW p \in Proc, process[p].at \in Hosting,
           NEW t \in CommandState, process' = [process EXCEPT ![p] = t], t.at \in Hosting,
           t.op = process[p].op, t.name = process[p].name, t.profile = process[p].profile,
           UNCHANGED <<profiles, temporary, lockHolder>>,
           operation' \in Proc \cup {Nobody}, operation' = operation \/ operation = p,
           NEW k \in SocketState, socket' = socket \/ socket' = [socket EXCEPT ![RoleOf(p)] = k],
           HoldsOperation(p)', OwnsSocket(p)', KeepsStages(p)'
    PROVE  ProfileInv'
<1>1. /\ RoleOf(p) \in RoleRoot /\ HoldsLock(p) /\ lockHolder[RoleOf(p)] = p
      /\ lockHolder \in [RoleRoot -> Proc \cup {Nobody}] /\ socket \in [RoleRoot -> SocketState]
  BY HostKnown DEF HoldsLock
<1>2. process'[p] = t
  BY DEF ProfileInv, ProfileTypeOK
<1>3. HoldsLock(p)'
  BY <1>1, <1>2 DEF HoldsLock, RoleOf, Hosting
<1>4. socket' \in [RoleRoot -> SocketState]
      /\ \A r \in RoleRoot : socket'[r] = socket[r] \/ lockHolder[r] = p
  BY <1>1
<1> QED BY <1>1, <1>3, <1>4, HostKeeps

\* bind and the permissions of the socket.
LEMMA OwnerBindsKeeps ==
    ASSUME ProfileInv, NEW p \in Proc, OwnerBinds(p)
    PROVE  ProfileInv'
<1> DEFINE s == process[p]
           t == [s EXCEPT !.at = "bound", !.did = @ \cup {}]
           k == [by |-> p, private |-> FALSE]
<1>1. s.at = "bind" /\ s.at \in Hosting /\ process' = [process EXCEPT ![p] = t]
      /\ socket' = [socket EXCEPT ![RoleOf(p)] = k]
      /\ UNCHANGED <<profiles, temporary, operation, lockHolder>>
  BY DEF OwnerBinds, Advance, Hosting
<1>2. /\ RoleOf(p) \in RoleRoot /\ s \in CommandState /\ s.did \subseteq StageName /\ s.op = "run"
      /\ HoldsOperation(p) /\ KeepsStages(p) /\ operation \in Proc \cup {Nobody}
      /\ socket \in [RoleRoot -> SocketState]
  BY <1>1, HostKnown
<1>3. t \in CommandState
  BY <1>2 DEF CommandState, CommandPlace, Hosting
<1>4. /\ t.at = "bound" /\ t.did = s.did /\ t.failed = s.failed
      /\ t.cancel = s.cancel /\ t.op = s.op /\ t.name = s.name /\ t.profile = s.profile
  BY <1>2 DEF CommandState
<1> HIDE DEF t
<1>5. process'[p] = t
  BY <1>1 DEF ProfileInv, ProfileTypeOK
<1>6. HoldsOperation(p)' /\ OwnsSocket(p)'
  BY <1>1, <1>2, <1>4, <1>5 DEF HoldsOperation, OwnsSocket, RoleOf, Starting
<1>7. KeepsStages(p)'
  BY <1>1, <1>2, <1>4, <1>5 DEF KeepsStages, Hosting
<1>8. t.at \in Hosting /\ k \in SocketState
  BY <1>4 DEF Hosting, SocketState
<1> QED BY <1>1, <1>2, <1>3, <1>4, <1>6, <1>7, <1>8, HostGoesOn

LEMMA OwnerReadyKeeps ==
    ASSUME ProfileInv, NEW p \in Proc, OwnerReady(p)
    PROVE  ProfileInv'
<1> DEFINE s == process[p]
           t == [s EXCEPT !.at = "ready", !.did = @ \cup {}]
           k == [by |-> p, private |-> TRUE]
<1>1. s.at = "bound" /\ s.at \in Hosting /\ process' = [process EXCEPT ![p] = t]
      /\ socket' = [socket EXCEPT ![RoleOf(p)].private = TRUE]
      /\ UNCHANGED <<profiles, temporary, operation, lockHolder>>
  BY DEF OwnerReady, Advance, Hosting
<1>2. /\ RoleOf(p) \in RoleRoot /\ s \in CommandState /\ s.did \subseteq StageName /\ s.op = "run"
      /\ HoldsOperation(p) /\ OwnsSocket(p) /\ KeepsStages(p) /\ operation \in Proc \cup {Nobody}
      /\ socket \in [RoleRoot -> SocketState]
  BY <1>1, HostKnown
<1>3. t \in CommandState
  BY <1>2 DEF CommandState, CommandPlace, Hosting
<1>4. /\ t.at = "ready" /\ t.did = s.did /\ t.failed = s.failed
      /\ t.cancel = s.cancel /\ t.op = s.op /\ t.name = s.name /\ t.profile = s.profile
  BY <1>2 DEF CommandState
<1> HIDE DEF t
<1>5. process'[p] = t
  BY <1>1 DEF ProfileInv, ProfileTypeOK
<1>6. socket' = [socket EXCEPT ![RoleOf(p)] = k]
  <2>1. socket[RoleOf(p)] = [by |-> p, private |-> FALSE]
    BY <1>1, <1>2 DEF OwnsSocket
  <2>2. \A a, b : [[by |-> p, private |-> a] EXCEPT !.private = b] = [by |-> p, private |-> b]
    OBVIOUS
  <2>3. [[by |-> p, private |-> FALSE] EXCEPT !.private = TRUE] = k
    BY <2>2
  <2> QED BY <1>1, <2>1, <2>3
<1>7. HoldsOperation(p)' /\ OwnsSocket(p)'
  BY <1>1, <1>2, <1>4, <1>5, <1>6 DEF HoldsOperation, OwnsSocket, RoleOf, Starting
<1>8. KeepsStages(p)'
  BY <1>1, <1>2, <1>4, <1>5 DEF KeepsStages, Hosting
<1>9. t.at \in Hosting /\ k \in SocketState
  BY <1>4 DEF Hosting, SocketState
<1> QED BY <1>1, <1>2, <1>3, <1>4, <1>6, <1>7, <1>8, <1>9, HostGoesOn

\* The owner thread is given up on while it starts.
LEMMA ReadyTimeoutKeeps ==
    ASSUME ProfileInv, NEW p \in Proc, ReadyTimeout(p)
    PROVE  ProfileInv'
<1> DEFINE s == process[p]
           t == [s EXCEPT !.cancel = TRUE, !.failed = "HostOwnerAcquire"]
<1>1. s.at \in {"bind", "bound"} /\ s.at \in Hosting /\ process' = [process EXCEPT ![p] = t]
      /\ UNCHANGED <<profiles, temporary, operation, lockHolder, socket>>
  BY DEF ReadyTimeout, Hosting
<1>2. /\ s \in CommandState /\ s.op = "run" /\ HoldsOperation(p) /\ OwnsSocket(p) /\ KeepsStages(p)
      /\ operation \in Proc \cup {Nobody}
  BY <1>1, HostKnown
<1>3. t \in CommandState
  BY <1>2 DEF CommandState, StageName
<1>4. /\ t.at = s.at /\ t.did = s.did /\ t.failed = "HostOwnerAcquire"
      /\ t.cancel /\ t.op = s.op /\ t.name = s.name /\ t.profile = s.profile
  BY <1>2 DEF CommandState
<1> HIDE DEF t
<1>5. process'[p] = t
  BY <1>1 DEF ProfileInv, ProfileTypeOK
<1>6. HoldsOperation(p)' /\ OwnsSocket(p)'
  BY <1>1, <1>2, <1>4, <1>5 DEF HoldsOperation, OwnsSocket, RoleOf, Starting
<1>7. KeepsStages(p)'
  BY <1>1, <1>2, <1>4, <1>5 DEF KeepsStages, Hosting
<1>8. NoSocket \in SocketState
  BY DEF NoSocket, SocketState
<1> QED BY <1>1, <1>2, <1>3, <1>4, <1>6, <1>7, <1>8, HostGoesOn

\* The listener is bound, or the host is given up on; the operation lock goes.
LEMMA HostBindsKeeps ==
    ASSUME ProfileInv, NEW p \in Proc, HostBinds(p)
    PROVE  ProfileInv'
<1> DEFINE s == process[p]
<1>1. s.at = "ready" /\ s.at \in Hosting /\ ~s.cancel /\ operation' = Nobody
      /\ UNCHANGED <<profiles, temporary, lockHolder, socket>>
  BY DEF HostBinds, Hosting
<1>2. /\ s \in CommandState /\ s.did \subseteq StageName /\ s.op = "run"
      /\ HoldsOperation(p) /\ OwnsSocket(p) /\ KeepsStages(p)
  BY <1>1, HostKnown
<1>3. operation = p /\ s.failed = NoStage
  BY <1>1, <1>2 DEF HoldsOperation, KeepsStages
<1>4. NoSocket \in SocketState
  BY DEF NoSocket, SocketState
<1>5. CASE Advance(p, "serving", {"HostBind", "HostRuntimeStart"})
  <2> DEFINE t == [s EXCEPT !.at = "serving", !.did = @ \cup {"HostBind", "HostRuntimeStart"}]
  <2>1. process' = [process EXCEPT ![p] = t]
    BY <1>5 DEF Advance
  <2>2. s.did \cup {"HostBind", "HostRuntimeStart"} \in SUBSET StageName /\ "serving" \in CommandPlace
    BY <1>2 DEF StageName, CommandPlace, Hosting
  <2>3. t \in CommandState
    BY <1>2, <2>2 DEF CommandState
  <2>4. /\ t.at = "serving" /\ t.did = s.did \cup {"HostBind", "HostRuntimeStart"}
        /\ t.failed = s.failed /\ t.op = s.op /\ t.name = s.name /\ t.profile = s.profile
    BY <1>2 DEF CommandState
  <2> HIDE DEF t
  <2>5. process'[p] = t
    BY <2>1 DEF ProfileInv, ProfileTypeOK
  <2>6. HoldsOperation(p)' /\ OwnsSocket(p)'
    BY <1>1, <1>2, <2>4, <2>5 DEF HoldsOperation, OwnsSocket, RoleOf, Starting, Commanding
  <2>7. KeepsStages(p)'
    BY <1>1, <1>2, <1>3, <2>4, <2>5 DEF KeepsStages, Hosting
  <2>8. t.at \in Hosting
    BY <2>4 DEF Hosting
  <2> QED BY <1>1, <1>3, <1>4, <2>1, <2>3, <2>4, <2>6, <2>7, <2>8, HostGoesOn
<1>6. CASE process' = [process EXCEPT ![p].cancel = TRUE, ![p].failed = "HostBind"]
  <2> DEFINE t == [s EXCEPT !.cancel = TRUE, !.failed = "HostBind"]
  <2>1. process' = [process EXCEPT ![p] = t]
    BY <1>6
  <2>2. t \in CommandState
    BY <1>2 DEF CommandState, StageName
  <2>3. /\ t.at = s.at /\ t.did = s.did /\ t.failed = "HostBind" /\ t.cancel
        /\ t.op = s.op /\ t.name = s.name /\ t.profile = s.profile
    BY <1>2 DEF CommandState
  <2> HIDE DEF t
  <2>4. process'[p] = t
    BY <2>1 DEF ProfileInv, ProfileTypeOK
  <2>5. HoldsOperation(p)' /\ OwnsSocket(p)'
    BY <1>1, <1>2, <2>3, <2>4 DEF HoldsOperation, OwnsSocket, RoleOf, Starting, Commanding
  <2>6. KeepsStages(p)'
    BY <1>1, <1>2, <2>3, <2>4 DEF KeepsStages, Hosting
  <2> QED BY <1>1, <1>3, <1>4, <2>1, <2>2, <2>3, <2>5, <2>6, HostGoesOn
<1> QED BY <1>5, <1>6 DEF HostBinds

LEMMA HostIsStoppedKeeps ==
    ASSUME ProfileInv, NEW p \in Proc, HostIsStopped(p)
    PROVE  ProfileInv'
<1> DEFINE s == process[p]
<1>1. s.at \in {"ready", "serving"} /\ s.at \in Hosting /\ (s.at = "ready" => s.cancel)
      /\ UNCHANGED <<profiles, temporary, operation, lockHolder, socket>>
  BY DEF HostIsStopped, Hosting
<1>2. /\ s \in CommandState /\ s.op = "run" /\ KeepsStages(p)
      /\ s.failed \in StageName \cup {NoStage} /\ operation \in Proc \cup {Nobody}
  BY <1>1, HostKnown
<1>3. NoSocket \in SocketState
  BY DEF NoSocket, SocketState
<1>4. PICK f \in {s.failed, "HostRuntimeStop"} :
        /\ process' = [process EXCEPT ![p] = [s EXCEPT !.at = "ending", !.failed = f]]
        /\ f # s.failed => s.at = "serving"
  <2>1. [process EXCEPT ![p].at = "ending"] =
           [process EXCEPT ![p] = [s EXCEPT !.at = "ending", !.failed = s.failed]]
    BY <1>2 DEF CommandState
  <2> QED BY <2>1 DEF HostIsStopped
<1> DEFINE t == [s EXCEPT !.at = "ending", !.failed = f]
<1>5. f \in StageName \cup {NoStage} /\ "ending" \in CommandPlace
  BY <1>2 DEF StageName, CommandPlace, Hosting
<1>6. t \in CommandState
  BY <1>2, <1>5 DEF CommandState
<1>7. /\ t.at = "ending" /\ t.did = s.did /\ t.failed = f
      /\ t.op = s.op /\ t.name = s.name /\ t.profile = s.profile
  BY <1>2 DEF CommandState
<1>8. process' = [process EXCEPT ![p] = t]
  BY <1>4
<1> HIDE DEF t
<1>9. process'[p] = t
  BY <1>8 DEF ProfileInv, ProfileTypeOK
<1>10. HoldsOperation(p)' /\ OwnsSocket(p)'
  BY <1>7, <1>9 DEF HoldsOperation, OwnsSocket, Starting, Commanding
<1>11. KeepsStages(p)'
  BY <1>1, <1>2, <1>4, <1>7, <1>9 DEF KeepsStages, Hosting, NoStage
<1>12. t.at \in Hosting
  BY <1>7 DEF Hosting
<1> QED BY <1>1, <1>2, <1>3, <1>6, <1>7, <1>8, <1>10, <1>11, <1>12, HostGoesOn

LEMMA OwnerFinishesKeeps ==
    ASSUME ProfileInv, NEW p \in Proc, OwnerFinishes(p)
    PROVE  ProfileInv'
<1> DEFINE s == process[p]
<1>1. s.at = "ending" /\ s.at \in Hosting
      /\ UNCHANGED <<profiles, temporary, operation, lockHolder>>
  BY DEF OwnerFinishes, Hosting
<1>2. /\ s \in CommandState /\ s.op = "run" /\ KeepsStages(p) /\ s.did \subseteq StageName
      /\ s.failed \in StageName \cup {NoStage} /\ operation \in Proc \cup {Nobody}
  BY <1>1, HostKnown
<1>3. NoSocket \in SocketState
  BY DEF NoSocket, SocketState
<1>4. PICK d \in SUBSET StageName, f \in StageName \cup {NoStage} :
        /\ process' = [process EXCEPT ![p] = [s EXCEPT !.at = "finished", !.did = d, !.failed = f]]
        /\ socket' = socket \/ socket' = [socket EXCEPT ![RoleOf(p)] = NoSocket]
        /\ \/ f = s.failed /\ d = s.did \cup {"HostRuntimeStop"}
           \/ d = s.did /\ f = (IF s.failed = NoStage THEN "HostRuntimeStop" ELSE s.failed)
  <2>1. [process EXCEPT ![p].at = "finished", ![p].did = @ \cup {"HostRuntimeStop"}] =
           [process EXCEPT ![p] = [s EXCEPT !.at = "finished", !.did = s.did \cup {"HostRuntimeStop"},
                                            !.failed = s.failed]]
    BY <1>2 DEF CommandState
  <2>2. [process EXCEPT ![p].at = "finished",
                 ![p].failed = IF @ = NoStage THEN "HostRuntimeStop" ELSE @] =
           [process EXCEPT ![p] = [s EXCEPT !.at = "finished", !.did = s.did,
                !.failed = IF s.failed = NoStage THEN "HostRuntimeStop" ELSE s.failed]]
    BY <1>2 DEF CommandState
  <2>3. "HostRuntimeStop" \in StageName
    BY DEF StageName
  <2> QED BY <1>2, <2>1, <2>2, <2>3 DEF OwnerFinishes, Advance
<1> DEFINE t == [s EXCEPT !.at = "finished", !.did = d, !.failed = f]
<1>5. t \in CommandState
  BY <1>2 DEF CommandState, CommandPlace, Hosting
<1>6. /\ t.at = "finished" /\ t.did = d /\ t.failed = f
      /\ t.op = s.op /\ t.name = s.name /\ t.profile = s.profile
  BY <1>2 DEF CommandState
<1>7. process' = [process EXCEPT ![p] = t]
  BY <1>4
<1> HIDE DEF t
<1>8. process'[p] = t
  BY <1>7 DEF ProfileInv, ProfileTypeOK
<1>9. HoldsOperation(p)' /\ OwnsSocket(p)'
  BY <1>6, <1>8 DEF HoldsOperation, OwnsSocket, Starting, Commanding
<1>10. KeepsStages(p)'
  BY <1>1, <1>2, <1>4, <1>6, <1>8 DEF KeepsStages, Hosting, NoStage
<1>11. t.at \in Hosting
  BY <1>6 DEF Hosting
<1> QED BY <1>1, <1>2, <1>3, <1>4, <1>5, <1>6, <1>7, <1>9, <1>10, <1>11, HostGoesOn

\* A process that dies lets go of what it holds and of nothing else.
LEMMA CrashKeeps ==
    ASSUME ProfileInv, NEW p \in Proc, Crash(p)
    PROVE  ProfileInv'
<1> DEFINE s == process[p]
<1>1. s \in CommandState /\ CommandSound(p) /\ operation \in Proc \cup {Nobody}
      /\ lockHolder \in [RoleRoot -> Proc \cup {Nobody}]
  BY CommandFields DEF ProfileInv, ProfileTypeOK
<1>2. OnlyMoves(p) /\ process'[p] = [s EXCEPT !.at = "crashed"]
  BY PlaceMoves DEF ProfileInv, Crash, CommandPlace
<1>3. process'[p].at = "crashed" /\ process'[p].op = s.op /\ process'[p].did = s.did
  BY <1>1, <1>2 DEF CommandState
<1>4. CommandSound(p)'
  <2>1. HoldsOperation(p)' /\ HoldsLock(p)' /\ OwnsSocket(p)' /\ KeepsProfile(p)'
    BY <1>3 DEF HoldsOperation, HoldsLock, OwnsSocket, KeepsProfile, Commanding, Starting, Hosting
  <2>2. CommandOf(p)' /\ ChecksProfile(p)'
    BY <1>3 DEF CommandOf, ChecksProfile, Commanding, Looking, Changing
  <2>3. KeepsStages(p)'
    BY <1>1, <1>3 DEF CommandSound, KeepsStages, Hosting
  <2> QED BY <2>1, <2>2, <2>3 DEF CommandSound
<1>5. lockHolder' \in [RoleRoot -> Proc \cup {Nobody}]
      /\ \A r \in RoleRoot : lockHolder'[r] = lockHolder[r] \/ lockHolder[r] = p
  BY <1>1 DEF Crash
<1>6. Within(p)
  BY <1>2, <1>3, <1>5 DEF Within, OnlyMoves, RoleOf, Hosting, Crash
<1>7. StoreTyped'
  BY <1>1, <1>5 DEF StoreTyped, ProfileInv, ProfileTypeOK, Crash
<1> QED BY <1>2, <1>4, <1>6, <1>7, ActorKeeps

-----------------------------------------------------------------------------

LEMMA ProfileInitSound == ProfileInit => ProfileInv
<1> SUFFICES ASSUME ProfileInit PROVE ProfileInv
  OBVIOUS
<1> DEFINE u == Unstarted
<1>1. u \in CommandState /\ u.at = "idle" /\ u.op = "none"
  <2> DEFINE c == Command("none", "none", NoProfile, <<>>)
  <2>1. c \in CommandState /\ c.op = "none"
    <3>1. {"ProfileResolve"} \in SUBSET StageName /\ "discover" \in CommandPlace
          /\ <<>> \in Seq(RoleRoot) /\ Nobody \in Proc \cup {Nobody}
      BY DEF StageName, CommandPlace, Commanding
    <3> QED BY <3>1 DEF Command, CommandState
  <2> HIDE DEF c
  <2>2. u = [c EXCEPT !.at = "idle"]
    BY DEF Unstarted, c
  <2>3. "idle" \in CommandPlace
    BY DEF CommandPlace
  <2> QED BY <2>1, <2>2, <2>3 DEF CommandState
<1>2. process = [p \in Proc |-> u]
  BY DEF ProfileInit
<1> HIDE DEF u
<1>3. NoSocket \in SocketState
  BY DEF NoSocket, SocketState
<1>4. ProfileTypeOK
  BY <1>1, <1>2, <1>3 DEF ProfileInit, ProfileTypeOK
<1>5. \A p \in Proc : CommandSound(p)
  BY <1>1, <1>2 DEF CommandSound, HoldsOperation, HoldsLock, OwnsSocket, KeepsProfile, CommandOf,
     ChecksProfile, KeepsStages, Commanding, Starting, Hosting, Looking, Changing
<1> QED BY <1>4, <1>5 DEF ProfileInv

LEMMA ProfileKeeps == ProfileInv /\ [ProfileNext]_profileVars => ProfileInv'
<1> SUFFICES ASSUME ProfileInv, [ProfileNext]_profileVars PROVE ProfileInv'
  OBVIOUS
<1>1. CASE UNCHANGED profileVars
  <2>1. ProfileTypeOK'
    BY <1>1 DEF profileVars, ProfileInv, ProfileTypeOK
  <2>2. ASSUME NEW p \in Proc PROVE CommandSound(p)'
    <3>1. CommandSound(p) /\ UNCHANGED <<profiles, operation, lockHolder, socket, process>>
      BY <1>1 DEF ProfileInv, profileVars
    <3>2. HoldsOperation(p)' /\ HoldsLock(p)' /\ OwnsSocket(p)' /\ KeepsProfile(p)'
      BY <3>1 DEF CommandSound, HoldsOperation, HoldsLock, OwnsSocket, KeepsProfile, RoleOf, Looks
    <3>3. CommandOf(p)' /\ ChecksProfile(p)' /\ KeepsStages(p)'
      BY <3>1 DEF CommandSound, CommandOf, ChecksProfile, KeepsStages, NoHost, RoleOf, Looks
    <3> QED BY <3>2, <3>3 DEF CommandSound
  <2> QED BY <2>1, <2>2 DEF ProfileInv
<1>2. CASE ProfileList
  BY <1>2, ProfileListKeeps
<1>3. ASSUME NEW p \in Proc, NEW n \in ProfileName,
             \/ \E new \in Profile : SetBegins(p, n, new)
             \/ \E op \in {"delete", "status", "stop", "run"} : ProfileBegins(p, n, op)
      PROVE  ProfileInv'
  BY <1>3, SetBeginsKeeps, ProfileBeginsKeeps
<1>4. ASSUME NEW p \in Proc, ProfileStep(p) PROVE ProfileInv'
  <2>1. CASE \/ DiscoverNoSocket(p) \/ DiscoverNotPrivate(p) \/ DiscoverSocket(p)
             \/ DiscoverUnanswered(p) \/ DiscoverRemoves(p)
             \/ (\E q \in Proc : DiscoverAnswered(p, q))
    BY <2>1, DiscoverNoSocketKeeps, DiscoverNotPrivateKeeps, DiscoverSocketKeeps,
       DiscoverUnansweredKeeps, DiscoverRemovesKeeps, DiscoverAnsweredKeeps
  <2>2. CASE SetWrites(p) \/ SetRenames(p) \/ DeleteRemoves(p) \/ StopAsks(p) \/ StopWaits(p)
    BY <2>2, SetWritesKeeps, SetRenamesKeeps, DeleteRemovesKeeps, StopAsksKeeps, StopWaitsKeeps
  <2>3. CASE \/ OwnerAcquires(p) \/ OwnerRefused(p) \/ OwnerBinds(p) \/ OwnerReady(p)
             \/ HostBinds(p) \/ OwnerFinishes(p) \/ OwnerReleases(p)
    BY <2>3, OwnerAcquiresKeeps, OwnerRefusedKeeps, OwnerBindsKeeps, OwnerReadyKeeps,
       HostBindsKeeps, OwnerFinishesKeeps, OwnerReleasesKeeps
  <2> QED BY <1>4, <2>1, <2>2, <2>3 DEF ProfileStep
<1>5. ASSUME NEW p \in Proc, ReadyTimeout(p) \/ HostIsStopped(p) \/ Crash(p) PROVE ProfileInv'
  BY <1>5, ReadyTimeoutKeeps, HostIsStoppedKeeps, CrashKeeps
<1> QED BY <1>1, <1>2, <1>3, <1>4, <1>5 DEF ProfileNext

\* The two locks and what is known under them, for any number of commands, hosts,
\* profiles and role roots, each of which may die at any step.
THEOREM ProfileInvariance == ProfileSpec => []ProfileInv
<1>1. ProfileInit => ProfileInv
  BY ProfileInitSound
<1>2. ProfileInv /\ [ProfileNext]_profileVars => ProfileInv'
  BY ProfileKeeps
<1> QED BY <1>1, <1>2, PTL DEF ProfileSpec

\* Where each stage stands in the order of a run.
LEMMA StagePositions ==
    /\ Position("ProfileResolve") = 1 /\ Position("HostOwnerAcquire") = 2
    /\ Position("HostBind") = 3 /\ Position("HostRuntimeStart") = 4
    /\ Position("HostRuntimeStop") = 5 /\ Position("HostOwnerRelease") = 6
<1>1. DOMAIN Stage = 1..6
  BY DEF Stage
<1>2. /\ Stage[1] = "ProfileResolve" /\ Stage[2] = "HostOwnerAcquire" /\ Stage[3] = "HostBind"
      /\ Stage[4] = "HostRuntimeStart" /\ Stage[5] = "HostRuntimeStop"
      /\ Stage[6] = "HostOwnerRelease"
  BY DEF Stage
<1>3. \A i \in 1..6 : i = 1 \/ i = 2 \/ i = 3 \/ i = 4 \/ i = 5 \/ i = 6
  OBVIOUS
<1>4. \A i, j \in 1..6 : Stage[i] = Stage[j] => i = j
  BY <1>2, <1>3
<1>5. ASSUME NEW i \in 1..6 PROVE Position(Stage[i]) = i
  <2>1. Position(Stage[i]) \in 1..6 /\ Stage[Position(Stage[i])] = Stage[i]
    BY <1>1 DEF Position
  <2> QED BY <1>4, <2>1
<1> QED BY <1>2, <1>5

\* While a host is up its profile is stored unchanged and its socket is in place,
\* and the record of a run calls a stage successful only if it happened.
THEOREM CommandsStaySafe == ProfileSpec => []CommandsAreSafe
<1>1. ProfileInv => CommandsAreSafe
  <2> SUFFICES ASSUME ProfileInv PROVE CommandsAreSafe
    OBVIOUS
  <2>1. LaunchedProfileKept
    BY DEF ProfileInv, CommandSound, KeepsProfile, LaunchedProfileKept
  <2>2. OwnerStaysReachable
    BY DEF ProfileInv, CommandSound, OwnsSocket, OwnerStaysReachable
  <2>3. RecordedStagesTrue
    <3> SUFFICES ASSUME NEW p \in Proc, process[p].op = "run", process[p].at = "ended",
                        NEW i \in DOMAIN Stage
                 PROVE  /\ LifecycleStatus(process[p].failed, Stage[i]) = "Success"
                              => Stage[i] \in process[p].did
                        /\ LifecycleStatus(process[p].failed, "HostOwnerRelease") = "Cancel"
                              => process[p].failed = "HostOwnerAcquire"
      BY DEF RecordedStagesTrue
    <3> DEFINE failed == process[p].failed
               did == process[p].did
    <3>1. Stage[i] \in StageName
      BY DEF Stage, StageName
    <3>2. failed \in {NoStage, "HostOwnerAcquire", "HostBind", "HostRuntimeStop"}
          /\ "ProfileResolve" \in did
      BY DEF ProfileInv, CommandSound, KeepsStages
    <3>3. failed \in {NoStage, "HostRuntimeStop"} => "HostBind" \in did /\ "HostRuntimeStart" \in did
      BY DEF ProfileInv, CommandSound, KeepsStages
    <3>4. failed = NoStage => "HostRuntimeStop" \in did
      BY DEF ProfileInv, CommandSound, KeepsStages
    <3>5. failed # "HostOwnerAcquire" => "HostOwnerAcquire" \in did /\ "HostOwnerRelease" \in did
      BY DEF ProfileInv, CommandSound, KeepsStages
    <3> HIDE DEF failed, did
    <3>6. ASSUME NEW s \in StageName
          PROVE  /\ LifecycleStatus(failed, s) = "Success" => s \in did
                 /\ LifecycleStatus(failed, "HostOwnerRelease") = "Cancel"
                       => failed = "HostOwnerAcquire"
      <4>1. CASE failed = NoStage
        BY <3>2, <3>3, <3>4, <3>5, <4>1 DEF LifecycleStatus, StageName, NoStage
      <4>2. CASE failed = "HostOwnerAcquire"
        BY <3>2, <4>2, StagePositions DEF LifecycleStatus, StageName, NoStage
      <4>3. CASE failed = "HostBind"
        BY <3>2, <3>5, <4>3, StagePositions DEF LifecycleStatus, StageName, NoStage
      <4>4. CASE failed = "HostRuntimeStop"
        BY <3>2, <3>3, <3>5, <4>4, StagePositions DEF LifecycleStatus, StageName, NoStage
      <4> QED BY <3>2, <4>1, <4>2, <4>3, <4>4
    <3> QED BY <3>1, <3>6 DEF failed, did
  <2> QED BY <2>1, <2>2, <2>3 DEF CommandsAreSafe, RunningHostUndisturbed
<1> QED BY <1>1, ProfileInvariance, PTL

-----------------------------------------------------------------------------
(***************************************************************************)
(* The diagnostics of the host.  What is on its way to the recorder speaks *)
(* of reads that nothing more happens to, the map's spans are those of the *)
(* connection that holds the admission, and the end of a run that started  *)
(* is behind its start in the queue or its loss is told.                   *)
(***************************************************************************)

WorkPlace == {"out", "busy", "negotiate", "admitted", "open", "closing", "drain", "draining",
              "served", "over"}
ReadPlace == {"none", "started", "classified", "queued", "answered", "abandoned"}
WorkFailure ==
    DOMAIN error_type \cup {NoError, "ReadFailed", "IdentityStore", "RevocationRecoveryRequired"}
WorkState == [kind : WorkKind \cup {"none"}, at : WorkPlace, error : WorkFailure]
ReadState == [at : ReadPlace, on : Work \cup {NoSession}, connector : ConnectorErrors \cup {NoError}]

\* What fails, or does not, is named by the record of a run that has ended.
NamesFailure(record) ==
    /\ record.kind \in DOMAIN Operations
    /\ \/ /\ record.outcome = "success" /\ record.error = NoError
          /\ record.connector \notin ConnectorErrors
       \/ /\ record.outcome = "error"
          /\ \/ record.error # NoError
             \/ record.kind = "HostAvailabilityRead" /\ record.connector \in ConnectorErrors

ErrorName ==
    {error_type[e] : e \in DOMAIN error_type}
    \cup {NoError, "HandshakeTimeout", "ReadUnavailable", "IdentityStore", "RevocationRecoveryRequired"}
RecordState ==
    [run : Work \cup Read, kind : DOMAIN Operations, outcome : {"success", "error"},
     error : ErrorName, connector : ConnectorErrors \cup {NoError}]
Event == [type : {"Start", "Finish"}, record : RecordState]

DiagnosticsTypeOK ==
    /\ work \in [Work -> WorkState] /\ admission \in Work \cup {NoSession}
    /\ read \in [Read -> ReadState] /\ spans \subseteq Work \cup Read /\ drained \subseteq Read
    /\ queue \in Seq(Event)
    /\ flagging \in BOOLEAN /\ dropped \in BOOLEAN /\ noted \in BOOLEAN
    /\ live \subseteq Work \cup Read
    /\ DOMAIN recorded = Work \cup Read

\* The connection between its admission and the end of its reads.
IsServed(s) == work[s].at \in {"admitted", "open", "closing", "drain", "draining"}

\* One connection at a time is served, and what has returned can be reported.
WorkIsSound(s) ==
    /\ IsServed(s) => admission = s
    /\ work[s].at \notin {"out", "busy", "served", "over"} =>
          /\ work[s].kind = "ProtocolSession" /\ "ProtocolSession" \in WorkKind
          /\ work[s].error \in DOMAIN error_type \cup {NoError}
    /\ work[s].at = "busy" => work[s].kind \in WorkKind \ {"ProtocolSession"}
    /\ work[s].at = "served" =>
          /\ work[s].kind \in WorkKind
          /\ work[s].error # NoError =>
                WorkError(work[s].kind, work[s].error) \in ErrorName \ {NoError}

\* The spans of the map, and those taken out of it, are of reads of the connection
\* that is served, and were not answered.
SpanIsServed(r) ==
    /\ read[r].at # "none" => read[r].on \in Work
    /\ r \in spans \cup drained =>
          /\ read[r].on \in Work /\ read[r].on = admission
          /\ read[r].at \in {"started", "classified", "queued", "abandoned"}
    /\ r \in spans => work[read[r].on].at \in {"open", "closing", "drain"}
    /\ r \in drained => work[read[r].on].at = "draining"

Past == {"drain", "draining", "served", "over"}

\* Nothing more happens to the read.
Settled(r) ==
    \/ read[r].at \in {"answered", "abandoned"}
    \/ /\ read[r].on \in Work /\ read[r].at # "none"
       /\ work[read[r].on].at \in Past

Succeeded(r) == read[r].at = "answered" /\ read[r].connector = NoError

\* The end of a run is reported as it was.
EventIsTrue(event) ==
    event.type = "Finish" =>
        /\ NamesFailure(event.record)
        /\ event.record.run \in Read =>
              /\ Settled(event.record.run)
              /\ event.record.outcome = "success" <=> Succeeded(event.record.run)

RecordIsTrue(run) ==
    recorded[run].is = "complete" =>
        /\ recorded[run].outcome = "error" <=>
              \E i \in DOMAIN recorded[run].steps : recorded[run].steps[i] # "Success"
        /\ run \in Read =>
              /\ Settled(run)
              /\ recorded[run].outcome = "success" <=> Succeeded(run)

LossIsTold == flagging \/ dropped \/ noted

\* The run's end is at place i of the queue.
EndsAt(i, run) == queue[i].type = "Finish" /\ queue[i].record.run = run

\* Behind the start of a run comes its end, unless it still runs or the loss is told.
StartHasEnd ==
    LossIsTold \/ \A i \in 1..Len(queue) : queue[i].type = "Start" =>
        \/ queue[i].record.run \in spans \cup drained
        \/ \E j \in (i + 1)..Len(queue) : EndsAt(j, queue[i].record.run)

LiveHasEnd ==
    LossIsTold \/ \A run \in live :
        run \in spans \cup drained \/ \E j \in 1..Len(queue) : EndsAt(j, run)

DiagnosticsInv ==
    /\ DiagnosticsTypeOK
    /\ \A s \in Work : WorkIsSound(s)
    /\ \A r \in Read : SpanIsServed(r)
    /\ \A i \in 1..Len(queue) : EventIsTrue(queue[i])
    /\ \A run \in Work \cup Read : RecordIsTrue(run)
    /\ StartHasEnd /\ LiveHasEnd

\* Reads that are settled stay so, and as they are.
SettledStay ==
    \A r \in Read : Settled(r) => Settled(r)' /\ (Succeeded(r)' <=> Succeeded(r))

-----------------------------------------------------------------------------

\* The fields of the work and of the reads.
LEMMA WorkFields ==
    ASSUME DiagnosticsTypeOK, NEW w \in Work
    PROVE  /\ work[w] \in WorkState /\ work[w].kind \in WorkKind \cup {"none"}
           /\ work[w].at \in WorkPlace /\ work[w].error \in WorkFailure
<1>1. work[w] \in WorkState
  BY DEF DiagnosticsTypeOK
<1> QED BY <1>1 DEF WorkState

LEMMA ReadFields ==
    ASSUME DiagnosticsTypeOK, NEW r \in Read
    PROVE  /\ read[r] \in ReadState /\ read[r].at \in ReadPlace
           /\ read[r].on \in Work \cup {NoSession} /\ read[r].connector \in ConnectorErrors \cup {NoError}
<1>1. read[r] \in ReadState
  BY DEF DiagnosticsTypeOK
<1> QED BY <1>1 DEF ReadState

\* No connection is NoSession, and none is a read.
LEMMA WorkIsNoRead == \A w \in Work : w # NoSession /\ w \notin Read
BY WorkAssumption DEF NoSession

\* Work that goes on.
LEMMA WorkMoves ==
    ASSUME DiagnosticsTypeOK, NEW w \in Work, NEW at \in WorkPlace, NEW error \in WorkFailure,
           WorkGoes(w, at, error)
    PROVE  /\ work' \in [Work -> WorkState]
           /\ work'[w].at = at /\ work'[w].error = error /\ work'[w].kind = work[w].kind
           /\ \A x \in Work \ {w} : work'[x] = work[x]
<1> DEFINE t == [work[w] EXCEPT !.at = at, !.error = error]
<1>1. work \in [Work -> WorkState] /\ work[w] \in WorkState
  BY DEF DiagnosticsTypeOK
<1>2. t \in WorkState /\ t.at = at /\ t.error = error /\ t.kind = work[w].kind
  BY <1>1 DEF WorkState
<1>3. work' = [work EXCEPT ![w] = t]
  BY DEF WorkGoes
<1> HIDE DEF t
<1> QED BY <1>1, <1>2, <1>3

\* A name that error_type gives is a name, and not that of no error.
LEMMA ErrorNames ==
    \A e \in DOMAIN error_type : e # NoError /\ error_type[e] \in ErrorName \ {NoError}
<1>1. \A e \in DOMAIN error_type : e # NoError /\ error_type[e] # NoError
  BY DEF error_type, NoError
<1> QED BY <1>1 DEF ErrorName

\* What has been sent and what has been recorded stays true, if the new event is.
LEMMA TruthStays ==
    ASSUME DiagnosticsInv, SettledStay, recorded' = recorded,
           \/ queue' = queue
           \/ \E e \in Event : queue' = Append(queue, e) /\ EventIsTrue(e)'
    PROVE  /\ \A i \in 1..Len(queue') : EventIsTrue(queue[i])'
           /\ \A run \in Work \cup Read : RecordIsTrue(run)'
<1>1. \A e : EventIsTrue(e) => EventIsTrue(e)'
  BY DEF EventIsTrue, SettledStay
<1>2. queue \in Seq(Event) /\ \A i \in 1..Len(queue) : EventIsTrue(queue[i])
  BY DEF DiagnosticsInv, DiagnosticsTypeOK
<1>3. \A i \in 1..Len(queue') : EventIsTrue(queue[i])'
  <2>1. CASE queue' = queue
    BY <1>1, <1>2, <2>1
  <2>2. CASE \E e \in Event : queue' = Append(queue, e) /\ EventIsTrue(e)'
    <3>1. PICK e \in Event : queue' = Append(queue, e) /\ EventIsTrue(e)'
      BY <2>2
    <3>2. ASSUME NEW i \in 1..Len(queue') PROVE EventIsTrue(queue[i])'
      <4>1. queue'[i] = e \/ (i \in 1..Len(queue) /\ queue'[i] = queue[i])
        BY <1>2, <3>1
      <4> QED BY <1>1, <1>2, <3>1, <4>1
    <3> QED BY <3>2
  <2> QED BY <2>1, <2>2
<1>4. \A run \in Work \cup Read : RecordIsTrue(run)'
  BY DEF DiagnosticsInv, RecordIsTrue, SettledStay
<1> QED BY <1>3, <1>4

\* An event is sent, or lost and the loss about to be told.
LEMMA SendGrows ==
    ASSUME DiagnosticsTypeOK, NEW e \in Event, send(e)
    PROVE  /\ queue' \in Seq(Event) /\ flagging' \in BOOLEAN
           /\ flagging => flagging'
           /\ QueueHasRoom => queue' = Append(queue, e)
           /\ ~QueueHasRoom => queue' = queue /\ flagging'
<1>1. queue \in Seq(Event) /\ flagging \in BOOLEAN
  BY DEF DiagnosticsTypeOK
<1>2. CASE QueueHasRoom
  <2>1. queue' = Append(queue, e)
    BY <1>2 DEF send
  <2>2. flagging' = flagging
    BY <1>1, <1>2 DEF send
  <2> QED BY <1>1, <1>2, <2>1, <2>2
<1>3. CASE ~QueueHasRoom
  <2>1. queue' = queue
    BY <1>3 DEF send
  <2>2. flagging' = TRUE
    BY <1>1, <1>3 DEF send
  <2> QED BY <1>1, <1>3, <2>1, <2>2
<1> QED BY <1>2, <1>3

\* The ends of the runs stay in sight when an event is sent, if the span that goes
\* is the one that the event ends.
LEMMA EndsStay ==
    ASSUME DiagnosticsInv, NEW e \in Event, send(e), UNCHANGED <<dropped, noted, live>>,
           \A x \in spans \cup drained :
               x \in spans' \cup drained' \/ (e.type = "Finish" /\ e.record.run = x),
           e.type = "Start" /\ QueueHasRoom => e.record.run \in spans'
    PROVE  StartHasEnd' /\ LiveHasEnd'
<1>1. queue \in Seq(Event) /\ DiagnosticsTypeOK
  BY DEF DiagnosticsInv, DiagnosticsTypeOK
<1>2. CASE LossIsTold \/ ~QueueHasRoom
  <2>1. LossIsTold'
    BY <1>1, <1>2, SendGrows DEF LossIsTold
  <2> QED BY <2>1 DEF StartHasEnd, LiveHasEnd
<1>3. CASE ~LossIsTold /\ QueueHasRoom
  <2> DEFINE n == Len(queue)
  <2>1. n \in Nat /\ queue' = Append(queue, e)
    BY <1>1, <1>3, SendGrows
  <2>2. Len(queue') = n + 1 /\ queue'[n + 1] = e /\ \A i \in 1..n : queue'[i] = queue[i]
    BY <1>1, <2>1
  <2>3. /\ \A i \in 1..n : queue[i].type = "Start" =>
              \/ queue[i].record.run \in spans \cup drained
              \/ \E j \in (i + 1)..n : EndsAt(j, queue[i].record.run)
        /\ \A run \in live : run \in spans \cup drained \/ \E j \in 1..n : EndsAt(j, run)
    BY <1>3 DEF DiagnosticsInv, StartHasEnd, LiveHasEnd
  <2> HIDE DEF n
  <2>4. \A i \in 1..(n + 1) : queue'[i].type = "Start" =>
              \/ queue'[i].record.run \in spans' \cup drained'
              \/ \E j \in (i + 1)..(n + 1) : queue'[j].type = "Finish" /\ queue'[j].record.run = queue'[i].record.run
    <3> SUFFICES ASSUME NEW i \in 1..(n + 1), queue'[i].type = "Start"
                 PROVE  \/ queue'[i].record.run \in spans' \cup drained'
                        \/ \E j \in (i + 1)..(n + 1) :
                              queue'[j].type = "Finish" /\ queue'[j].record.run = queue'[i].record.run
      OBVIOUS
    <3>1. CASE i = n + 1
      BY <1>3, <2>2, <3>1
    <3>2. CASE i \in 1..n
      <4>1. CASE queue[i].record.run \in spans \cup drained
        BY <2>1, <2>2, <3>2, <4>1
      <4>2. CASE \E j \in (i + 1)..n : EndsAt(j, queue[i].record.run)
        <5>1. PICK j \in (i + 1)..n : EndsAt(j, queue[i].record.run)
          BY <4>2
        <5>2. j \in 1..n /\ j \in (i + 1)..(n + 1)
          BY <2>1, <3>2
        <5> QED BY <2>2, <3>2, <5>1, <5>2 DEF EndsAt
      <4> QED BY <2>2, <2>3, <3>2, <4>1, <4>2
    <3>3. i = n + 1 \/ i \in 1..n
      BY <2>1
    <3> QED BY <3>1, <3>2, <3>3
  <2>5. \A run \in live : run \in spans' \cup drained' \/
              \E j \in 1..(n + 1) : queue'[j].type = "Finish" /\ queue'[j].record.run = run
    <3> SUFFICES ASSUME NEW run \in live
                 PROVE  run \in spans' \cup drained' \/
                        \E j \in 1..(n + 1) : queue'[j].type = "Finish" /\ queue'[j].record.run = run
      OBVIOUS
    <3>1. CASE run \in spans \cup drained
      BY <2>1, <2>2, <3>1
    <3>2. CASE \E j \in 1..n : EndsAt(j, run)
      <4>1. PICK j \in 1..n : EndsAt(j, run)
        BY <3>2
      <4>2. j \in 1..(n + 1)
        BY <2>1
      <4> QED BY <2>2, <4>1, <4>2 DEF EndsAt
    <3> QED BY <2>3, <3>1, <3>2
  <2> QED BY <2>2, <2>4, <2>5 DEF StartHasEnd, LiveHasEnd, EndsAt
<1> QED BY <1>2, <1>3

\* Nothing sent: the ends stay in sight if no span is lost.
LEMMA EndsUnmoved ==
    ASSUME DiagnosticsInv, queue' = queue, live' \subseteq live, LossIsTold => LossIsTold',
           spans \cup drained \subseteq spans' \cup drained'
    PROVE  StartHasEnd' /\ LiveHasEnd'
<1>1. StartHasEnd /\ LiveHasEnd
  BY DEF DiagnosticsInv
<1> QED BY <1>1 DEF StartHasEnd, LiveHasEnd, EndsAt

\* A step of the work w that nobody else sees: its place, its error, the admission.
LEMMA WorkKeeps ==
    ASSUME DiagnosticsInv, NEW w \in Work, NEW at \in WorkPlace, NEW error \in WorkFailure,
           WorkGoes(w, at, error),
           \/ admission' = admission
           \/ admission \in {w, NoSession} /\ admission' \in {w, NoSession}
              /\ work[w].at \notin {"open", "closing", "drain"} /\ drained = {},
           work[w].at \in {"open", "closing", "drain"} => at \in {"open", "closing", "drain"},
           work[w].at = "draining" => drained = {},
           work[w].at \in Past => at \in Past,
           WorkIsSound(w)',
           UNCHANGED <<recorderOnly, read, spans, drained, queue, flagging>>
    PROVE  DiagnosticsInv'
<1>1. /\ work' \in [Work -> WorkState]
      /\ work'[w].at = at /\ work'[w].error = error /\ work'[w].kind = work[w].kind
      /\ \A x \in Work \ {w} : work'[x] = work[x]
  BY WorkMoves DEF DiagnosticsInv
<1>2. UNCHANGED <<dropped, noted, recorder, live, recorded, read, spans, drained, queue, flagging>>
  BY DEF recorderOnly
<1>3. DiagnosticsTypeOK'
  BY <1>1, <1>2 DEF DiagnosticsInv, DiagnosticsTypeOK
<1>4. ASSUME NEW s \in Work PROVE WorkIsSound(s)'
  <2>1. CASE s = w
    BY <2>1
  <2>2. CASE s # w
    BY <1>1, <2>2, WorkIsNoRead DEF DiagnosticsInv, WorkIsSound, IsServed
  <2> QED BY <2>1, <2>2
<1>5. ASSUME NEW r \in Read PROVE SpanIsServed(r)'
  <2>1. SpanIsServed(r)
    BY DEF DiagnosticsInv
  <2>2. CASE r \notin spans \cup drained
    BY <1>2, <2>1, <2>2 DEF SpanIsServed
  <2>3. CASE r \in spans \cup drained
    <3>1. read[r].on \in Work /\ read[r].on = admission
      BY <2>1, <2>3 DEF SpanIsServed
    <3>2. admission' = admission
      BY <2>1, <2>3, <3>1, WorkIsNoRead DEF SpanIsServed
    <3> QED BY <1>1, <1>2, <2>1, <3>1, <3>2 DEF SpanIsServed
  <2> QED BY <2>2, <2>3
<1>6. SettledStay
  BY <1>1, <1>2 DEF SettledStay, Settled, Succeeded
<1>7. /\ \A i \in 1..Len(queue') : EventIsTrue(queue[i])'
      /\ \A run \in Work \cup Read : RecordIsTrue(run)'
  BY <1>2, <1>6, TruthStays
<1>8. StartHasEnd' /\ LiveHasEnd'
  BY <1>2, EndsUnmoved DEF LossIsTold
<1> QED BY <1>2, <1>3, <1>4, <1>5, <1>7, <1>8 DEF DiagnosticsInv

\* What a piece of work fails with has a name in its record.
LEMMA FailureHasName ==
    ASSUME NEW kind \in WorkKind \ {"ProtocolSession"}, NEW error \in WorkErrors(kind)
    PROVE  error \in WorkFailure /\ WorkError(kind, error) \in ErrorName \ {NoError}
<1>1. kind \in {"ProtocolPairing", "AvailabilityRead", "IdentityInit", "IdentityUnpair"}
  BY WorkAssumption
<1>2. CASE kind = "ProtocolPairing"
  <2>1. error = "Timeout" \/ error = "StoreFailed"
    BY <1>2 DEF WorkErrors
  <2>2. "Timeout" \in DOMAIN error_type /\ "StoreFailed" \in DOMAIN error_type
    BY DEF error_type
  <2>3. WorkError(kind, error) = IF error = "Timeout" THEN "HandshakeTimeout" ELSE error_type[error]
    BY <1>2 DEF WorkError
  <2> QED BY <2>1, <2>2, <2>3, ErrorNames DEF ErrorName, NoError, WorkFailure
<1>3. CASE kind = "AvailabilityRead"
  <2>1. error \in DOMAIN error_type \cup {"ReadFailed"}
    BY <1>3, ErrorAssumption DEF WorkErrors
  <2>2. WorkError(kind, error) = IF error = "ReadFailed" THEN "ReadUnavailable" ELSE error_type[error]
    BY <1>3 DEF WorkError
  <2> QED BY <2>1, <2>2, ErrorNames DEF ErrorName, NoError, WorkFailure
<1>4. CASE kind \in {"IdentityInit", "IdentityUnpair"}
  <2>1. error \in {"IdentityStore", "RevocationRecoveryRequired"}
    BY <1>4 DEF WorkErrors
  <2>2. WorkError(kind, error) = error
    BY <1>4 DEF WorkError
  <2> QED BY <2>1, <2>2 DEF ErrorName, NoError, WorkFailure
<1> QED BY <1>1, <1>2, <1>3, <1>4

LEMMA WorkReturnsKeeps ==
    ASSUME DiagnosticsInv, NEW w \in Work, WorkReturns(w)
    PROVE  DiagnosticsInv'
<1>1. work[w].at = "busy" /\ work[w].kind \in WorkKind \ {"ProtocolSession"}
      /\ UNCHANGED <<recorderOnly, admission, read, spans, drained, queue, flagging>>
  BY DEF WorkReturns, DiagnosticsInv, WorkIsSound
<1>2. PICK error \in WorkErrors(work[w].kind) \cup {NoError} : WorkGoes(w, "served", error)
  BY DEF WorkReturns
<1>3. error \in WorkFailure /\ (error # NoError => WorkError(work[w].kind, error) \in ErrorName \ {NoError})
  BY <1>1, FailureHasName DEF WorkFailure
<1>4. "served" \in WorkPlace
  BY DEF WorkPlace
<1>5. work'[w].at = "served" /\ work'[w].error = error /\ work'[w].kind = work[w].kind
  BY <1>2, <1>3, <1>4, WorkMoves DEF DiagnosticsInv
<1>6. WorkIsSound(w)'
  BY <1>1, <1>3, <1>5 DEF WorkIsSound, IsServed
<1> QED BY <1>1, <1>2, <1>3, <1>4, <1>6, WorkKeeps DEF Past

\* What the steps of a connection know of it.
LEMMA SessionKnown ==
    ASSUME DiagnosticsInv, NEW s \in Work, work[s].at \notin {"out", "busy", "served", "over"}
    PROVE  /\ work[s].kind = "ProtocolSession" /\ "ProtocolSession" \in WorkKind
           /\ work[s].error \in DOMAIN error_type \cup {NoError}
           /\ IsServed(s) => admission = s
BY DEF DiagnosticsInv, WorkIsSound

\* A connection that goes on with an error of its own, or with none.
LEMMA SessionGoes ==
    ASSUME DiagnosticsInv, NEW s \in Work, work[s].at \notin {"out", "busy", "served", "over"},
           NEW at \in WorkPlace \ {"out", "busy", "over"}, NEW error \in DOMAIN error_type \cup {NoError},
           WorkGoes(s, at, error),
           at \in {"admitted", "open", "closing", "drain", "draining"} => admission' = s
    PROVE  WorkIsSound(s)' /\ error \in WorkFailure
<1>1. error \in WorkFailure
  BY DEF WorkFailure
<1>2. work'[s].at = at /\ work'[s].error = error /\ work'[s].kind = work[s].kind
  BY <1>1, WorkMoves DEF DiagnosticsInv
<1>3. work[s].kind = "ProtocolSession" /\ "ProtocolSession" \in WorkKind
  BY SessionKnown
<1>4. error # NoError => WorkError("ProtocolSession", error) \in ErrorName \ {NoError}
  <2>1. WorkError("ProtocolSession", error) = error_type[error]
    BY DEF WorkError
  <2> QED BY <2>1, ErrorNames
<1>5. WorkIsSound(s)'
  BY <1>2, <1>3, <1>4 DEF WorkIsSound, IsServed
<1> QED BY <1>1, <1>5

LEMMA SessionIsAdmittedKeeps ==
    ASSUME DiagnosticsInv, NEW s \in Work, SessionIsAdmitted(s)
    PROVE  DiagnosticsInv'
<1>1. work[s].at = "negotiate" /\ admission = NoSession /\ admission' = s
      /\ WorkGoes(s, "admitted", NoError)
      /\ UNCHANGED <<recorderOnly, read, spans, drained, queue, flagging>>
  BY DEF SessionIsAdmitted
<1>2. WorkIsSound(s)' /\ NoError \in WorkFailure
  BY <1>1, SessionGoes DEF WorkPlace
<1>3. drained = {}
  BY <1>1, WorkIsNoRead DEF DiagnosticsInv, DiagnosticsTypeOK, SpanIsServed
<1> QED BY <1>1, <1>2, <1>3, WorkKeeps DEF WorkPlace, Past

LEMMA SessionIsAckedKeeps ==
    ASSUME DiagnosticsInv, NEW s \in Work, SessionIsAcked(s)
    PROVE  DiagnosticsInv'
<1>1. work[s].at = "admitted" /\ UNCHANGED <<recorderOnly, read, spans, drained, queue, flagging>>
  BY DEF SessionIsAcked
<1>2. admission = s
  BY <1>1, SessionKnown DEF IsServed
<1>3. CASE WorkGoes(s, "open", NoError) /\ UNCHANGED admission
  <2>1. WorkIsSound(s)' /\ NoError \in WorkFailure
    BY <1>1, <1>2, <1>3, SessionGoes DEF WorkPlace
  <2> QED BY <1>1, <1>3, <2>1, WorkKeeps DEF WorkPlace, Past
<1>4. CASE (\E error \in StreamError : WorkGoes(s, "served", error)) /\ admission' = NoSession
  <2>1. PICK error \in StreamError : WorkGoes(s, "served", error)
    BY <1>4
  <2>2. WorkIsSound(s)' /\ error \in WorkFailure
    BY <1>1, <2>1, ErrorAssumption, SessionGoes DEF WorkPlace
  <2>3. drained = {}
    BY <1>1, <1>2 DEF DiagnosticsInv, DiagnosticsTypeOK, SpanIsServed
  <2> QED BY <1>1, <1>2, <1>4, <2>1, <2>2, <2>3, WorkKeeps DEF WorkPlace, Past
<1> QED BY <1>3, <1>4 DEF SessionIsAcked

LEMMA SessionIsRefusedKeeps ==
    ASSUME DiagnosticsInv, NEW s \in Work, SessionIsRefused(s)
    PROVE  DiagnosticsInv'
<1>1. work[s].at = "negotiate"
      /\ UNCHANGED <<recorderOnly, admission, read, spans, drained, queue, flagging>>
  BY DEF SessionIsRefused
<1>2. PICK error \in StreamError \cup {"SessionBusy"} : WorkGoes(s, "served", error)
  BY DEF SessionIsRefused
<1>3. error \in DOMAIN error_type
  <2>1. "SessionBusy" \in DOMAIN error_type
    BY DEF error_type
  <2> QED BY <2>1, ErrorAssumption
<1>4. WorkIsSound(s)' /\ error \in WorkFailure
  BY <1>1, <1>2, <1>3, SessionGoes DEF WorkPlace
<1> QED BY <1>1, <1>2, <1>4, WorkKeeps DEF WorkPlace, Past

LEMMA SessionClosesKeeps ==
    ASSUME DiagnosticsInv, NEW s \in Work, SessionCloses(s)
    PROVE  DiagnosticsInv'
<1>1. work[s].at = "open"
      /\ UNCHANGED <<recorderOnly, admission, read, spans, drained, queue, flagging>>
  BY DEF SessionCloses
<1>2. PICK error \in StreamError \cup {NoError} : WorkGoes(s, "closing", error)
  BY DEF SessionCloses
<1>3. admission = s
  BY <1>1, SessionKnown DEF IsServed
<1>4. WorkIsSound(s)' /\ error \in WorkFailure
  BY <1>1, <1>2, <1>3, ErrorAssumption, SessionGoes DEF WorkPlace
<1> QED BY <1>1, <1>2, <1>4, WorkKeeps DEF WorkPlace, Past

LEMMA WriterIsJoinedKeeps ==
    ASSUME DiagnosticsInv, NEW s \in Work, WriterIsJoined(s)
    PROVE  DiagnosticsInv'
<1>1. work[s].at = "closing" /\ WorkGoes(s, "drain", work[s].error)
      /\ UNCHANGED <<recorderOnly, admission, read, spans, drained, queue, flagging>>
  BY DEF WriterIsJoined
<1>2. admission = s /\ work[s].error \in DOMAIN error_type \cup {NoError}
  BY <1>1, SessionKnown DEF IsServed
<1>3. WorkIsSound(s)' /\ work[s].error \in WorkFailure
  BY <1>1, <1>2, SessionGoes DEF WorkPlace
<1> QED BY <1>1, <1>3, WorkKeeps DEF WorkPlace, Past

LEMMA SessionIsServedKeeps ==
    ASSUME DiagnosticsInv, NEW s \in Work, SessionIsServed(s)
    PROVE  DiagnosticsInv'
<1>1. work[s].at = "draining" /\ drained = {} /\ admission' = NoSession
      /\ WorkGoes(s, "served", work[s].error)
      /\ UNCHANGED <<recorderOnly, read, spans, drained, queue, flagging>>
  BY DEF SessionIsServed
<1>2. admission = s /\ work[s].error \in DOMAIN error_type \cup {NoError}
  BY <1>1, SessionKnown DEF IsServed
<1>3. WorkIsSound(s)' /\ work[s].error \in WorkFailure
  BY <1>1, <1>2, SessionGoes DEF WorkPlace
<1> QED BY <1>1, <1>2, <1>3, WorkKeeps DEF WorkPlace, Past

\* A step that sends an event, or none, keeps the invariant if its parts are kept.
LEMMA SendingKeeps ==
    ASSUME DiagnosticsInv, SettledStay, UNCHANGED recorderOnly,
           work' \in [Work -> WorkState], admission' \in Work \cup {NoSession},
           read' \in [Read -> ReadState], spans' \subseteq Work \cup Read, drained' \subseteq Read,
           \A s \in Work : WorkIsSound(s)', \A r \in Read : SpanIsServed(r)',
           NEW e \in Event, EventIsTrue(e)',
           \/ /\ send(e)
              /\ \A x \in spans \cup drained :
                    x \in spans' \cup drained' \/ (e.type = "Finish" /\ e.record.run = x)
              /\ e.type = "Start" /\ QueueHasRoom => e.record.run \in spans'
           \/ UNCHANGED <<queue, flagging>> /\ spans \cup drained \subseteq spans' \cup drained'
    PROVE  DiagnosticsInv'
<1>1. UNCHANGED <<dropped, noted, recorder, live, recorded>> /\ DiagnosticsTypeOK
  BY DEF recorderOnly, DiagnosticsInv
<1>2. CASE UNCHANGED <<queue, flagging>> /\ spans \cup drained \subseteq spans' \cup drained'
  <2>1. DiagnosticsTypeOK'
    BY <1>1, <1>2 DEF DiagnosticsTypeOK
  <2>2. /\ \A i \in 1..Len(queue') : EventIsTrue(queue[i])'
        /\ \A run \in Work \cup Read : RecordIsTrue(run)'
    BY <1>1, <1>2, TruthStays
  <2>3. StartHasEnd' /\ LiveHasEnd'
    BY <1>1, <1>2, EndsUnmoved DEF LossIsTold
  <2> QED BY <2>1, <2>2, <2>3 DEF DiagnosticsInv
<1>3. CASE /\ send(e)
           /\ \A x \in spans \cup drained :
                 x \in spans' \cup drained' \/ (e.type = "Finish" /\ e.record.run = x)
           /\ e.type = "Start" /\ QueueHasRoom => e.record.run \in spans'
  <2>1. /\ queue' \in Seq(Event) /\ flagging' \in BOOLEAN
        /\ queue' = Append(queue, e) \/ queue' = queue
    BY <1>1, <1>3, SendGrows
  <2>2. DiagnosticsTypeOK'
    BY <1>1, <2>1 DEF DiagnosticsTypeOK
  <2>3. /\ \A i \in 1..Len(queue') : EventIsTrue(queue[i])'
        /\ \A run \in Work \cup Read : RecordIsTrue(run)'
    BY <1>1, <2>1, TruthStays
  <2>4. StartHasEnd' /\ LiveHasEnd'
    BY <1>1, <1>3, EndsStay
  <2> QED BY <2>2, <2>3, <2>4 DEF DiagnosticsInv
<1> QED BY <1>2, <1>3

\* The records are records.
LEMMA RecordTyped ==
    ASSUME NEW run \in Work \cup Read, NEW kind \in DOMAIN Operations, NEW outcome \in {"success", "error"},
           NEW error \in ErrorName, NEW connector \in ConnectorErrors \cup {NoError},
           NEW type \in {"Start", "Finish"}
    PROVE  /\ Record(run, kind, outcome, error, connector) \in RecordState
           /\ [type |-> type, record |-> Record(run, kind, outcome, error, connector)] \in Event
<1>1. Record(run, kind, outcome, error, connector) \in RecordState
  BY DEF Record, RecordState
<1> QED BY <1>1 DEF Event

LEMMA NoErrorNamed == NoError \in ErrorName /\ NoError \notin ConnectorErrors
BY DEF ErrorName, NoError, ConnectorErrors

LEMMA KindsHaveOperations ==
    WorkKind \subseteq DOMAIN Operations /\ "HostAvailabilityRead" \in DOMAIN Operations
BY WorkAssumption DEF Operations

\* What is said of a piece of work that has returned.
LEMMA WorkEventTrue ==
    ASSUME DiagnosticsInv, NEW w \in Work, work[w].at = "served",
           NEW e, e = [type |-> "Finish", record |-> WorkRecord(w, work[w].kind, work[w].error)]
    PROVE  e \in Event /\ e.type = "Finish" /\ e.record.run = w /\ EventIsTrue(e)'
<1> DEFINE kind == work[w].kind
           error == work[w].error
<1>1. kind \in DOMAIN Operations /\ (error # NoError => WorkError(kind, error) \in ErrorName \ {NoError})
  BY KindsHaveOperations DEF DiagnosticsInv, WorkIsSound
<1> HIDE DEF kind, error
<1>2. e = [type |-> "Finish", record |-> WorkRecord(w, kind, error)]
  BY DEF kind, error
<1>3. CASE error = NoError
  <2>1. e = [type |-> "Finish", record |-> Record(w, kind, "success", NoError, NoError)]
    BY <1>2, <1>3 DEF WorkRecord, Success
  <2>2. e \in Event
    BY <1>1, <2>1, RecordTyped, NoErrorNamed
  <2>3. /\ e.type = "Finish" /\ e.record.run = w /\ e.record.kind = kind /\ e.record.outcome = "success"
        /\ e.record.error = NoError /\ e.record.connector = NoError
    BY <2>1 DEF Record
  <2> QED BY <1>1, <2>2, <2>3, NoErrorNamed, WorkIsNoRead DEF EventIsTrue, NamesFailure
<1>4. CASE error # NoError
  <2> DEFINE f == WorkError(kind, error)
  <2>1. e = [type |-> "Finish", record |-> Record(w, kind, "error", f, NoError)]
    BY <1>2, <1>4 DEF WorkRecord, Failure
  <2>2. f \in ErrorName \ {NoError}
    BY <1>1, <1>4
  <2> HIDE DEF f
  <2>3. e \in Event
    BY <1>1, <2>1, <2>2, RecordTyped
  <2>4. /\ e.type = "Finish" /\ e.record.run = w /\ e.record.kind = kind /\ e.record.outcome = "error"
        /\ e.record.error = f
    BY <2>1 DEF Record
  <2> QED BY <1>1, <2>2, <2>3, <2>4, WorkIsNoRead DEF EventIsTrue, NamesFailure
<1> QED BY <1>3, <1>4

\* What is said of a read that ends with a failure of its connection.
LEMMA FailureEventTrue ==
    ASSUME DiagnosticsInv, NEW r \in Read, NEW error \in DOMAIN error_type,
           NEW e, e = [type |-> "Finish", record |-> host_availability_failure(r, error, read[r].connector)],
           Settled(r)', ~Succeeded(r)'
    PROVE  e \in Event /\ e.type = "Finish" /\ e.record.run = r /\ EventIsTrue(e)'
<1> DEFINE f == error_type[error]
           c == read[r].connector
<1>1. f \in ErrorName \ {NoError} /\ c \in ConnectorErrors \cup {NoError}
  BY ErrorNames, ReadFields DEF DiagnosticsInv
<1> HIDE DEF f, c
<1>2. e = [type |-> "Finish", record |-> Record(r, "HostAvailabilityRead", "error", f, c)]
  BY DEF host_availability_failure, Failure, Record, f, c
<1>3. e \in Event
  <2>1. r \in Work \cup Read /\ "HostAvailabilityRead" \in DOMAIN Operations /\ f \in ErrorName
    BY <1>1, KindsHaveOperations
  <2>2. [type |-> "Finish", record |-> Record(r, "HostAvailabilityRead", "error", f, c)] \in Event
    BY <1>1, <2>1, RecordTyped
  <2> QED BY <1>2, <2>2
<1>4. /\ e.type = "Finish" /\ e.record.run = r /\ e.record.kind = "HostAvailabilityRead"
      /\ e.record.outcome = "error" /\ e.record.error = f
  BY <1>2 DEF Record
<1> QED BY <1>1, <1>3, <1>4, KindsHaveOperations DEF EventIsTrue, NamesFailure

\* What is said of a read whose answer was sent.
LEMMA AnswerEventTrue ==
    ASSUME DiagnosticsInv, NEW r \in Read,
           NEW e, e = [type |-> "Finish", record |-> host_availability(r, read[r].connector)],
           read'[r].at = "answered", read'[r].connector = read[r].connector
    PROVE  e \in Event /\ e.type = "Finish" /\ e.record.run = r /\ EventIsTrue(e)'
<1> DEFINE c == read[r].connector
           o == IF c = NoError THEN "success" ELSE "error"
<1>1. c \in ConnectorErrors \cup {NoError}
  BY ReadFields DEF DiagnosticsInv
<1>2. o \in {"success", "error"} /\ (o = "success" <=> c = NoError)
  OBVIOUS
<1>3. Settled(r)' /\ (Succeeded(r)' <=> c = NoError)
  BY DEF Settled, Succeeded
<1>4. e = [type |-> "Finish", record |-> Record(r, "HostAvailabilityRead", o, NoError, c)]
  BY DEF host_availability
<1> HIDE DEF c, o
<1>5. e \in Event
  BY <1>1, <1>2, <1>4, RecordTyped, KindsHaveOperations, NoErrorNamed
<1>6. /\ e.type = "Finish" /\ e.record.run = r /\ e.record.kind = "HostAvailabilityRead"
      /\ e.record.outcome = o /\ e.record.error = NoError /\ e.record.connector = c
  BY <1>4 DEF Record
<1> QED BY <1>1, <1>2, <1>3, <1>5, <1>6, KindsHaveOperations, NoErrorNamed DEF EventIsTrue, NamesFailure

LEMMA WorkStartsKeeps ==
    ASSUME DiagnosticsInv, NEW w \in Work, WorkStarts(w)
    PROVE  DiagnosticsInv'
<1>1. work[w] = NoWork /\ UNCHANGED <<recorderOnly, admission, read, drained>>
  BY DEF WorkStarts
<1>2. PICK kind \in WorkKind :
        /\ start(w, kind)
        /\ work' = [work EXCEPT ![w].kind = kind,
                     ![w].at = IF kind = "ProtocolSession" THEN "negotiate" ELSE "busy"]
  BY DEF WorkStarts
<1> DEFINE a == IF kind = "ProtocolSession" THEN "negotiate" ELSE "busy"
           t == [kind |-> kind, at |-> a, error |-> NoError]
           e == [type |-> "Start", record |-> Started(w, kind)]
<1>3. work \in [Work -> WorkState] /\ DiagnosticsTypeOK
  BY DEF DiagnosticsInv, DiagnosticsTypeOK
<1>4. a \in WorkPlace /\ NoError \in WorkFailure
  BY DEF WorkPlace, WorkFailure
<1>5. work' = [work EXCEPT ![w] = t]
  BY <1>1, <1>2, <1>3 DEF NoWork
<1>6. t \in WorkState /\ t.at = a /\ t.kind = kind /\ t.error = NoError
  BY <1>4 DEF WorkState
<1>7. \/ a = "negotiate" /\ kind = "ProtocolSession"
      \/ a = "busy" /\ kind # "ProtocolSession"
  OBVIOUS
<1> HIDE DEF t, a
<1>8. work' \in [Work -> WorkState] /\ work'[w] = t /\ \A x \in Work \ {w} : work'[x] = work[x]
  BY <1>3, <1>5, <1>6
<1>9. work[w].at = "out"
  BY <1>1 DEF NoWork
<1>10. e \in Event /\ e.type = "Start" /\ e.record.run = w
  <2>1. e = [type |-> "Start", record |-> Record(w, kind, "error", NoError, NoError)]
    BY DEF Started, Failure
  <2>2. kind \in DOMAIN Operations /\ w \in Work \cup Read
    BY KindsHaveOperations
  <2>3. [type |-> "Start", record |-> Record(w, kind, "error", NoError, NoError)] \in Event
    BY <2>2, RecordTyped, NoErrorNamed
  <2> QED BY <2>1, <2>3 DEF Record
<1>11. send(e) /\ spans' = IF QueueHasRoom THEN spans \cup {w} ELSE spans
  BY <1>2 DEF start
<1> HIDE DEF e
<1>12. EventIsTrue(e)'
  BY <1>10 DEF EventIsTrue
<1>13. SettledStay
  BY <1>1, <1>8, <1>9 DEF SettledStay, Settled, Succeeded, Past
<1>14. ASSUME NEW s \in Work PROVE WorkIsSound(s)'
  <2>1. CASE s = w
    BY <1>6, <1>7, <1>8, <2>1 DEF WorkIsSound, IsServed
  <2>2. CASE s # w
    BY <1>1, <1>8, <2>2 DEF DiagnosticsInv, WorkIsSound, IsServed
  <2> QED BY <2>1, <2>2
<1>15. ASSUME NEW r \in Read PROVE SpanIsServed(r)'
  <2>1. r \in spans' => r \in spans
    BY <1>11, WorkIsNoRead
  <2> QED BY <1>1, <1>8, <1>9, <2>1 DEF DiagnosticsInv, SpanIsServed
<1>16. spans' \subseteq Work \cup Read /\ spans \subseteq spans' /\ (QueueHasRoom => w \in spans')
  BY <1>3, <1>11 DEF DiagnosticsTypeOK
<1>17. admission' \in Work \cup {NoSession} /\ read' \in [Read -> ReadState] /\ drained' \subseteq Read
  BY <1>1, <1>3 DEF DiagnosticsTypeOK
<1> QED BY <1>1, <1>8, <1>10, <1>11, <1>12, <1>13, <1>14, <1>15, <1>16, <1>17, SendingKeeps

LEMMA WorkEndsKeeps ==
    ASSUME DiagnosticsInv, NEW w \in Work, WorkEnds(w)
    PROVE  DiagnosticsInv'
<1>0. PICK e : e = [type |-> "Finish", record |-> WorkRecord(w, work[w].kind, work[w].error)]
  OBVIOUS
<1>1. work[w].at = "served" /\ WorkGoes(w, "over", NoError) /\ spans' = spans \ {w}
      /\ UNCHANGED <<recorderOnly, admission, read, drained>>
      /\ IF w \in spans THEN send(e) ELSE UNCHANGED <<queue, flagging>>
  BY <1>0 DEF WorkEnds, finish
<1>2. DiagnosticsTypeOK /\ NoError \in WorkFailure /\ "over" \in WorkPlace
  BY DEF DiagnosticsInv, WorkFailure, WorkPlace
<1>3. /\ work' \in [Work -> WorkState] /\ work'[w].at = "over"
      /\ \A x \in Work \ {w} : work'[x] = work[x]
  BY <1>1, <1>2, WorkMoves
<1>4. e \in Event /\ e.type = "Finish" /\ e.record.run = w /\ EventIsTrue(e)'
  BY <1>0, <1>1, WorkEventTrue
<1>5. SettledStay
  BY <1>1, <1>3 DEF SettledStay, Settled, Succeeded, Past
<1>6. ASSUME NEW s \in Work PROVE WorkIsSound(s)'
  <2>1. CASE s = w
    BY <1>3, <2>1 DEF WorkIsSound, IsServed
  <2>2. CASE s # w
    BY <1>1, <1>3, <2>2 DEF DiagnosticsInv, WorkIsSound, IsServed
  <2> QED BY <2>1, <2>2
<1>7. ASSUME NEW r \in Read PROVE SpanIsServed(r)'
  BY <1>1, <1>3 DEF DiagnosticsInv, SpanIsServed
<1>8. /\ spans' \subseteq Work \cup Read /\ admission' \in Work \cup {NoSession}
      /\ read' \in [Read -> ReadState] /\ drained' \subseteq Read
  BY <1>1, <1>2 DEF DiagnosticsTypeOK
<1>9. CASE w \in spans
  BY <1>1, <1>3, <1>4, <1>5, <1>6, <1>7, <1>8, <1>9, SendingKeeps
<1>10. CASE w \notin spans
  BY <1>1, <1>3, <1>4, <1>5, <1>6, <1>7, <1>8, <1>10, SendingKeeps
<1> QED BY <1>9, <1>10

LEMMA ReadArrivesKeeps ==
    ASSUME DiagnosticsInv, NEW s \in Work, NEW r \in Read, ReadArrives(s, r)
    PROVE  DiagnosticsInv'
<1> DEFINE t == [read[r] EXCEPT !.at = "started", !.on = s]
           e == [type |-> "Start", record |-> Started(r, "HostAvailabilityRead")]
<1>1. work[s].at = "open" /\ read[r].at = "none" /\ read' = [read EXCEPT ![r] = t]
      /\ send(e) /\ spans' = (IF QueueHasRoom THEN spans \cup {r} ELSE spans)
      /\ UNCHANGED <<recorderOnly, work, admission, drained>>
  BY DEF ReadArrives, start
<1>2. DiagnosticsTypeOK /\ read \in [Read -> ReadState] /\ read[r] \in ReadState
  BY DEF DiagnosticsInv, DiagnosticsTypeOK
<1>3. t \in ReadState /\ t.at = "started" /\ t.on = s
  BY <1>2 DEF ReadState, ReadPlace
<1> HIDE DEF t
<1>4. read' \in [Read -> ReadState] /\ read'[r] = t /\ \A x \in Read \ {r} : read'[x] = read[x]
  BY <1>1, <1>2, <1>3
<1>5. e \in Event /\ e.type = "Start" /\ e.record.run = r
  <2>1. e = [type |-> "Start", record |-> Record(r, "HostAvailabilityRead", "error", NoError, NoError)]
    BY DEF Started, Failure
  <2>2. r \in Work \cup Read
    OBVIOUS
  <2>3. [type |-> "Start",
         record |-> Record(r, "HostAvailabilityRead", "error", NoError, NoError)] \in Event
    BY <2>2, RecordTyped, NoErrorNamed, KindsHaveOperations
  <2> QED BY <2>1, <2>3 DEF Record
<1> HIDE DEF e
<1>6. EventIsTrue(e)'
  BY <1>5 DEF EventIsTrue
<1>7. admission = s
  BY <1>1, SessionKnown DEF IsServed
<1>8. SettledStay
  BY <1>1, <1>4 DEF SettledStay, Settled, Succeeded
<1>9. ASSUME NEW x \in Work PROVE WorkIsSound(x)'
  BY <1>1 DEF DiagnosticsInv, WorkIsSound, IsServed
<1>10. ASSUME NEW x \in Read PROVE SpanIsServed(x)'
  <2>1. SpanIsServed(x)
    BY DEF DiagnosticsInv
  <2>2. CASE x = r
    <3>1. r \notin drained
      BY <1>1, <2>1, <2>2 DEF SpanIsServed
    <3> QED BY <1>1, <1>3, <1>4, <1>7, <2>2, <3>1 DEF SpanIsServed
  <2>3. CASE x # r
    BY <1>1, <1>4, <2>1, <2>3 DEF SpanIsServed
  <2> QED BY <2>2, <2>3
<1>11. /\ spans' \subseteq Work \cup Read /\ spans \subseteq spans' /\ (QueueHasRoom => r \in spans')
       /\ work' \in [Work -> WorkState] /\ admission' \in Work \cup {NoSession} /\ drained' \subseteq Read
  BY <1>1, <1>2 DEF DiagnosticsTypeOK
<1> QED BY <1>1, <1>4, <1>5, <1>6, <1>8, <1>9, <1>10, <1>11, SendingKeeps

\* A step that sends nothing and loses no span.
LEMMA SilentKeeps ==
    ASSUME DiagnosticsInv, SettledStay, UNCHANGED <<recorderOnly, queue, flagging>>,
           work' \in [Work -> WorkState], admission' \in Work \cup {NoSession},
           read' \in [Read -> ReadState], spans' \subseteq Work \cup Read, drained' \subseteq Read,
           \A s \in Work : WorkIsSound(s)', \A r \in Read : SpanIsServed(r)',
           spans \cup drained \subseteq spans' \cup drained'
    PROVE  DiagnosticsInv'
<1>1. UNCHANGED <<dropped, noted, recorder, live, recorded>> /\ DiagnosticsTypeOK
  BY DEF recorderOnly, DiagnosticsInv
<1>2. DiagnosticsTypeOK'
  BY <1>1 DEF DiagnosticsTypeOK
<1>3. /\ \A i \in 1..Len(queue') : EventIsTrue(queue[i])'
      /\ \A run \in Work \cup Read : RecordIsTrue(run)'
  BY <1>1, TruthStays
<1>4. StartHasEnd' /\ LiveHasEnd'
  BY <1>1, EndsUnmoved DEF LossIsTold
<1> QED BY <1>2, <1>3, <1>4 DEF DiagnosticsInv

\* A step of the read r, and of its connection, which is open or closing.
LEMMA ReadSteps ==
    ASSUME DiagnosticsInv, NEW r \in Read, read[r].at \in {"started", "classified", "queued"},
           NEW s \in Work, s = read[r].on, work[s].at \in {"open", "closing"},
           NEW t \in ReadState, read' = [read EXCEPT ![r] = t], t.on = s, t.at # "none",
           work' \in [Work -> WorkState], \A x \in Work \ {s} : work'[x] = work[x],
           work'[s].at \in {"open", "closing"}, WorkIsSound(s)',
           UNCHANGED <<admission, drained>>,
           spans' = spans \/ spans' = spans \ {r},
           r \in spans' => t.at # "answered"
    PROVE  /\ SettledStay /\ r \notin drained /\ admission' \in Work \cup {NoSession}
           /\ read' \in [Read -> ReadState] /\ read'[r] = t
           /\ spans' \subseteq Work \cup Read /\ drained' \subseteq Read
           /\ \A x \in Work : WorkIsSound(x)'
           /\ \A x \in Read : SpanIsServed(x)'
<1>1. DiagnosticsTypeOK /\ read \in [Read -> ReadState]
  BY DEF DiagnosticsInv, DiagnosticsTypeOK
<1>2. read' \in [Read -> ReadState] /\ read'[r] = t /\ \A x \in Read \ {r} : read'[x] = read[x]
  BY <1>1
<1>3. /\ spans' \subseteq Work \cup Read /\ drained' \subseteq Read /\ admission' \in Work \cup {NoSession}
  BY <1>1 DEF DiagnosticsTypeOK
<1>4. r \notin drained
  BY DEF DiagnosticsInv, SpanIsServed
<1>5. ASSUME NEW x \in Work PROVE WorkIsSound(x)'
  <2>1. CASE x = s
    BY <2>1
  <2>2. CASE x # s
    BY <2>2 DEF DiagnosticsInv, WorkIsSound, IsServed
  <2> QED BY <2>1, <2>2
<1>6. ASSUME NEW x \in Read PROVE SpanIsServed(x)'
  <2>1. SpanIsServed(x)
    BY DEF DiagnosticsInv
  <2>2. CASE x = r
    <3>1. t.at \in ReadPlace \ {"none"}
      BY DEF ReadState
    <3>2. r \in spans' => t.at \in {"started", "classified", "queued", "abandoned"}
      BY <3>1 DEF ReadPlace
    <3>3. r \notin drained' /\ (r \in spans' => r \in spans)
      BY <1>4
    <3> QED BY <1>2, <2>1, <2>2, <3>2, <3>3 DEF SpanIsServed
  <2>3. CASE x # r
    <3>1. read'[x] = read[x] /\ (x \in spans' <=> x \in spans)
      BY <1>2, <2>3
    <3>2. CASE read[x].on = s
      BY <2>1, <3>1, <3>2 DEF SpanIsServed
    <3>3. CASE read[x].on # s
      BY <2>1, <3>1, <3>3 DEF SpanIsServed
    <3> QED BY <3>2, <3>3
  <2> QED BY <2>2, <2>3
<1>7. SettledStay
  <2> SUFFICES ASSUME NEW x \in Read, Settled(x)
               PROVE  Settled(x)' /\ (Succeeded(x)' <=> Succeeded(x))
    BY DEF SettledStay
  <2>1. x # r
    BY DEF Settled, Past
  <2>2. read'[x] = read[x]
    BY <1>2, <2>1
  <2>3. read[x].on \in Work => work'[read[x].on].at = work[read[x].on].at \/ work[read[x].on].at \notin Past
    BY DEF Past
  <2> QED BY <2>2, <2>3 DEF Settled, Succeeded
<1> QED BY <1>2, <1>3, <1>4, <1>5, <1>6, <1>7

\* The connection of a read that is under way.
LEMMA ReadIsOfWork ==
    ASSUME DiagnosticsInv, NEW r \in Read, read[r].at # "none"
    PROVE  read[r].on \in Work
BY DEF DiagnosticsInv, SpanIsServed

\* Its connection stays as it is.
LEMMA WorkUnmoved ==
    ASSUME DiagnosticsInv, UNCHANGED <<work, admission>>
    PROVE  work' \in [Work -> WorkState] /\ \A s \in Work : WorkIsSound(s)'
BY DEF DiagnosticsInv, DiagnosticsTypeOK, WorkIsSound, IsServed

\* Its connection ends with an error.
LEMMA WorkGivesUp ==
    ASSUME DiagnosticsInv, NEW s \in Work, work[s].at = "open", UNCHANGED admission,
           NEW error \in DOMAIN error_type, WorkGoes(s, "closing", error)
    PROVE  /\ work' \in [Work -> WorkState] /\ \A x \in Work \ {s} : work'[x] = work[x]
           /\ work'[s].at = "closing" /\ WorkIsSound(s)'
<1>1. admission = s
  BY SessionKnown DEF IsServed
<1>2. WorkIsSound(s)' /\ error \in WorkFailure
  BY <1>1, SessionGoes DEF WorkPlace
<1> QED BY <1>2, WorkMoves DEF WorkPlace, DiagnosticsInv

LEMMA ReadIsInvokedKeeps ==
    ASSUME DiagnosticsInv, NEW r \in Read, ReadIsInvoked(r)
    PROVE  DiagnosticsInv'
<1>1. /\ read[r].at = "started" /\ work[read[r].on].at = "open"
      /\ UNCHANGED <<recorderOnly, admission, spans, drained, queue, flagging>>
  BY DEF ReadIsInvoked
<1>2. PICK s \in Work : s = read[r].on
  BY <1>1, ReadIsOfWork
<1>3. read[r] \in ReadState /\ read \in [Read -> ReadState]
  BY DEF DiagnosticsInv, DiagnosticsTypeOK
<1>4. /\ work' \in [Work -> WorkState] /\ \A x \in Work \ {s} : work'[x] = work[x]
      /\ work'[s].at \in {"open", "closing"} /\ WorkIsSound(s)'
  <2>1. "Protocol" \in DOMAIN error_type
    BY DEF error_type
  <2> QED BY <1>1, <1>2, <2>1, WorkUnmoved, WorkGivesUp DEF ReadIsInvoked
<1>5. \E t \in ReadState : read' = [read EXCEPT ![r] = t] /\ t.on = s /\ t.at \in {"classified", "abandoned"}
  <2>1. CASE \E connector \in Connector \cup {NoError} :
                read' = [read EXCEPT ![r].at = "classified", ![r].connector = connector]
    <3>1. PICK connector \in Connector \cup {NoError} :
                read' = [read EXCEPT ![r].at = "classified", ![r].connector = connector]
      BY <2>1
    <3> DEFINE t == [read[r] EXCEPT !.at = "classified", !.connector = connector]
    <3>2. connector \in ConnectorErrors \cup {NoError}
      BY ErrorAssumption
    <3>3. t \in ReadState /\ t.on = s /\ t.at = "classified"
      BY <1>2, <1>3, <3>2 DEF ReadState, ReadPlace
    <3>4. read' = [read EXCEPT ![r] = t]
      BY <3>1
    <3> QED BY <3>3, <3>4
  <2>2. CASE ReadGoes(r, "abandoned")
    <3> DEFINE t == [read[r] EXCEPT !.at = "abandoned"]
    <3>1. t \in ReadState /\ t.on = s /\ t.at = "abandoned"
      BY <1>2, <1>3 DEF ReadState, ReadPlace
    <3>2. read' = [read EXCEPT ![r] = t]
      BY <2>2 DEF ReadGoes
    <3> QED BY <3>1, <3>2
  <2> QED BY <2>1, <2>2 DEF ReadIsInvoked
<1>6. PICK t \in ReadState : read' = [read EXCEPT ![r] = t] /\ t.on = s /\ t.at \in {"classified", "abandoned"}
  BY <1>5
<1>7. /\ SettledStay /\ admission' \in Work \cup {NoSession} /\ read' \in [Read -> ReadState]
      /\ spans' \subseteq Work \cup Read /\ drained' \subseteq Read
      /\ \A x \in Work : WorkIsSound(x)'
      /\ \A x \in Read : SpanIsServed(x)'
  BY <1>1, <1>2, <1>4, <1>6, ReadSteps
<1> QED BY <1>1, <1>4, <1>7, SilentKeeps

\* A span is finished, if there is one: what is sent is true.
LEMMA FinishKeeps ==
    ASSUME DiagnosticsInv, SettledStay, UNCHANGED <<recorderOnly, drained>>,
           work' \in [Work -> WorkState], admission' \in Work \cup {NoSession},
           read' \in [Read -> ReadState], spans' \subseteq Work \cup Read,
           \A s \in Work : WorkIsSound(s)', \A x \in Read : SpanIsServed(x)',
           NEW r, NEW e \in Event, e.type = "Finish", e.record.run = r, EventIsTrue(e)',
           spans' = spans \ {r},
           IF r \in spans THEN send(e) ELSE UNCHANGED <<queue, flagging>>
    PROVE  DiagnosticsInv'
<1>1. drained' \subseteq Read
  BY DEF DiagnosticsInv, DiagnosticsTypeOK
<1>2. CASE r \in spans
  BY <1>1, <1>2, SendingKeeps
<1>3. CASE r \notin spans
  BY <1>1, <1>3, SilentKeeps
<1> QED BY <1>2, <1>3

LEMMA ReadIsEnqueuedKeeps ==
    ASSUME DiagnosticsInv, NEW r \in Read, ReadIsEnqueued(r)
    PROVE  DiagnosticsInv'
<1>1. /\ read[r].at = "classified" /\ work[read[r].on].at = "open"
      /\ UNCHANGED <<recorderOnly, admission, drained>>
  BY DEF ReadIsEnqueued
<1>2. PICK s \in Work : s = read[r].on
  BY <1>1, ReadIsOfWork
<1>3. read[r] \in ReadState /\ read \in [Read -> ReadState]
  BY DEF DiagnosticsInv, DiagnosticsTypeOK
<1>4. CASE ReadGoes(r, "queued") /\ UNCHANGED <<work, spans, queue, flagging>>
  <2>1. PICK t : t = [read[r] EXCEPT !.at = "queued"]
    OBVIOUS
  <2>2. t \in ReadState /\ t.on = s /\ t.at = "queued"
    BY <1>2, <1>3, <2>1 DEF ReadState, ReadPlace
  <2>3. read' = [read EXCEPT ![r] = t]
    BY <1>4, <2>1 DEF ReadGoes
  <2>4. /\ SettledStay /\ admission' \in Work \cup {NoSession} /\ read' \in [Read -> ReadState]
        /\ spans' \subseteq Work \cup Read /\ drained' \subseteq Read
        /\ \A x \in Work : WorkIsSound(x)'
        /\ \A x \in Read : SpanIsServed(x)'
    BY <1>1, <1>2, <1>4, <2>2, <2>3, WorkUnmoved, ReadSteps
  <2> QED BY <1>1, <1>4, <2>4, WorkUnmoved, SilentKeeps
<1>5. CASE /\ ReadGoes(r, "abandoned") /\ WorkGoes(read[r].on, "closing", "QueueFull")
           /\ finish(r, host_availability_failure(r, "QueueFull", read[r].connector))
  <2>1. PICK t : t = [read[r] EXCEPT !.at = "abandoned"]
    OBVIOUS
  <2>2. t \in ReadState /\ t.on = s /\ t.at = "abandoned"
    BY <1>2, <1>3, <2>1 DEF ReadState, ReadPlace
  <2>3. read' = [read EXCEPT ![r] = t]
    BY <1>5, <2>1 DEF ReadGoes
  <2>4. "QueueFull" \in DOMAIN error_type
    BY DEF error_type
  <2>5. /\ work' \in [Work -> WorkState] /\ \A x \in Work \ {s} : work'[x] = work[x]
        /\ work'[s].at = "closing" /\ WorkIsSound(s)'
    BY <1>1, <1>2, <1>5, <2>4, WorkGivesUp
  <2>6. PICK e : e = [type |-> "Finish",
                      record |-> host_availability_failure(r, "QueueFull", read[r].connector)]
    OBVIOUS
  <2>7. spans' = spans \ {r} /\ IF r \in spans THEN send(e) ELSE UNCHANGED <<queue, flagging>>
    BY <1>5, <2>6 DEF finish
  <2>8. /\ SettledStay /\ admission' \in Work \cup {NoSession} /\ read' \in [Read -> ReadState]
        /\ read'[r] = t /\ spans' \subseteq Work \cup Read
        /\ \A x \in Work : WorkIsSound(x)'
        /\ \A x \in Read : SpanIsServed(x)'
    BY <1>1, <1>2, <2>2, <2>3, <2>5, <2>7, ReadSteps
  <2>9. Settled(r)' /\ ~Succeeded(r)'
    BY <2>2, <2>8 DEF Settled, Succeeded
  <2>10. e \in Event /\ e.type = "Finish" /\ e.record.run = r /\ EventIsTrue(e)'
    BY <2>4, <2>6, <2>9, FailureEventTrue
  <2> QED BY <1>1, <2>5, <2>7, <2>8, <2>10, FinishKeeps
<1> QED BY <1>4, <1>5 DEF ReadIsEnqueued

LEMMA ReadIsAnsweredKeeps ==
    ASSUME DiagnosticsInv, NEW r \in Read, ReadIsAnswered(r)
    PROVE  DiagnosticsInv'
<1>1. /\ read[r].at = "queued" /\ work[read[r].on].at \in {"open", "closing"}
      /\ ReadGoes(r, "answered") /\ UNCHANGED <<recorderOnly, work, admission, drained>>
  BY DEF ReadIsAnswered
<1>2. PICK s \in Work : s = read[r].on
  BY <1>1, ReadIsOfWork
<1>3. read[r] \in ReadState /\ read \in [Read -> ReadState]
  BY DEF DiagnosticsInv, DiagnosticsTypeOK
<1>4. PICK t : t = [read[r] EXCEPT !.at = "answered"]
  OBVIOUS
<1>5. t \in ReadState /\ t.on = s /\ t.at = "answered" /\ t.connector = read[r].connector
  BY <1>2, <1>3, <1>4 DEF ReadState, ReadPlace
<1>6. read' = [read EXCEPT ![r] = t]
  BY <1>1, <1>4 DEF ReadGoes
<1>7. PICK e : e = [type |-> "Finish", record |-> host_availability(r, read[r].connector)]
  OBVIOUS
<1>8. spans' = spans \ {r} /\ IF r \in spans THEN send(e) ELSE UNCHANGED <<queue, flagging>>
  BY <1>7 DEF ReadIsAnswered, finish
<1>9. /\ SettledStay /\ admission' \in Work \cup {NoSession} /\ read' \in [Read -> ReadState]
      /\ read'[r] = t /\ spans' \subseteq Work \cup Read
      /\ \A x \in Work : WorkIsSound(x)'
      /\ \A x \in Read : SpanIsServed(x)'
  BY <1>1, <1>2, <1>5, <1>6, <1>8, WorkUnmoved, ReadSteps
<1>10. e \in Event /\ e.type = "Finish" /\ e.record.run = r /\ EventIsTrue(e)'
  BY <1>5, <1>7, <1>9, AnswerEventTrue
<1> QED BY <1>1, <1>8, <1>9, <1>10, WorkUnmoved, FinishKeeps

LEMMA DrainsKeeps ==
    ASSUME DiagnosticsInv, NEW s \in Work, Drains(s)
    PROVE  DiagnosticsInv'
<1>1. /\ work[s].at = "drain" /\ WorkGoes(s, "draining", work[s].error)
      /\ drained' = spans \cap Read /\ spans' = spans \ Read
      /\ UNCHANGED <<recorderOnly, admission, read, queue, flagging>>
  BY DEF Drains
<1>2. admission = s /\ work[s].error \in DOMAIN error_type \cup {NoError}
  BY <1>1, SessionKnown DEF IsServed
<1>3. WorkIsSound(s)' /\ work[s].error \in WorkFailure
  BY <1>1, <1>2, SessionGoes DEF WorkPlace
<1>4. /\ work' \in [Work -> WorkState] /\ \A x \in Work \ {s} : work'[x] = work[x]
      /\ work'[s].at = "draining"
  BY <1>1, <1>3, WorkMoves DEF WorkPlace, DiagnosticsInv
<1>5. ASSUME NEW x \in Work PROVE WorkIsSound(x)'
  <2>1. CASE x = s
    BY <1>3, <2>1
  <2>2. CASE x # s
    BY <1>1, <1>4, <2>2 DEF DiagnosticsInv, WorkIsSound, IsServed
  <2> QED BY <2>1, <2>2
<1>6. ASSUME NEW r \in Read PROVE SpanIsServed(r)'
  BY <1>1, <1>2, <1>4 DEF DiagnosticsInv, SpanIsServed
<1>7. drained = {}
  BY <1>1, <1>2 DEF DiagnosticsInv, DiagnosticsTypeOK, SpanIsServed
<1>8. SettledStay
  BY <1>1, <1>4 DEF SettledStay, Settled, Succeeded, Past
<1>9. /\ admission' \in Work \cup {NoSession} /\ read' \in [Read -> ReadState]
      /\ spans' \subseteq Work \cup Read /\ drained' \subseteq Read
  BY <1>1 DEF DiagnosticsInv, DiagnosticsTypeOK
<1>10. spans \cup drained \subseteq spans' \cup drained'
  BY <1>1, <1>7
<1> QED BY <1>1, <1>4, <1>5, <1>6, <1>8, <1>9, <1>10, SilentKeeps

LEMMA DrainsOneKeeps ==
    ASSUME DiagnosticsInv, NEW s \in Work, NEW r \in Read, DrainsOne(s, r)
    PROVE  DiagnosticsInv'
<1>1. PICK error : error = IF work[s].error = NoError THEN "Io" ELSE work[s].error
  OBVIOUS
<1>2. PICK e : e = [type |-> "Finish", record |-> host_availability_failure(r, error, read[r].connector)]
  OBVIOUS
<1>3. /\ work[s].at = "draining" /\ r \in drained /\ drained' = drained \ {r} /\ send(e)
      /\ UNCHANGED <<recorderOnly, work, admission, read, spans>>
  BY <1>1, <1>2 DEF DrainsOne
<1>4. error \in DOMAIN error_type
  <2>1. "Io" \in DOMAIN error_type
    BY DEF error_type
  <2> QED BY <1>1, <1>3, <2>1, SessionKnown
<1>5. /\ read[r].on \in Work /\ work[read[r].on].at = "draining"
      /\ read[r].at \in {"started", "classified", "queued", "abandoned"}
  BY <1>3 DEF DiagnosticsInv, SpanIsServed
<1>6. Settled(r)' /\ ~Succeeded(r)'
  BY <1>3, <1>5 DEF Settled, Succeeded, Past
<1>7. e \in Event /\ e.type = "Finish" /\ e.record.run = r /\ EventIsTrue(e)'
  BY <1>2, <1>4, <1>6, FailureEventTrue
<1>8. SettledStay
  BY <1>3 DEF SettledStay, Settled, Succeeded
<1>9. ASSUME NEW x \in Read PROVE SpanIsServed(x)'
  BY <1>3 DEF DiagnosticsInv, SpanIsServed
<1>10. /\ admission' \in Work \cup {NoSession} /\ read' \in [Read -> ReadState]
       /\ spans' \subseteq Work \cup Read /\ drained' \subseteq Read
  BY <1>3 DEF DiagnosticsInv, DiagnosticsTypeOK
<1>11. \A x \in spans \cup drained : x \in spans' \cup drained' \/ (e.type = "Finish" /\ e.record.run = x)
  BY <1>3, <1>7
<1> QED BY <1>3, <1>7, <1>8, <1>9, <1>10, <1>11, WorkUnmoved, SendingKeeps

\* Nothing happens but to the flags, the markers and the publisher's thread.
LEMMA TellingKeeps ==
    ASSUME DiagnosticsInv, UNCHANGED <<work, admission, read, spans, drained, queue, recorded>>,
           live' \subseteq live, LossIsTold => LossIsTold',
           flagging' \in BOOLEAN, dropped' \in BOOLEAN, noted' \in BOOLEAN
    PROVE  DiagnosticsInv'
<1>1. DiagnosticsTypeOK'
  BY DEF DiagnosticsInv, DiagnosticsTypeOK
<1>2. SettledStay
  BY DEF SettledStay, Settled, Succeeded
<1>3. /\ \A i \in 1..Len(queue') : EventIsTrue(queue[i])'
      /\ \A run \in Work \cup Read : RecordIsTrue(run)'
  BY <1>2, TruthStays
<1>4. StartHasEnd' /\ LiveHasEnd'
  BY EndsUnmoved
<1>5. ASSUME NEW s \in Work PROVE WorkIsSound(s)'
  BY DEF DiagnosticsInv, WorkIsSound, IsServed
<1>6. ASSUME NEW r \in Read PROVE SpanIsServed(r)'
  BY DEF DiagnosticsInv, SpanIsServed
<1> QED BY <1>1, <1>3, <1>4, <1>5, <1>6 DEF DiagnosticsInv

LEMMA FlagsLossKeeps ==
    ASSUME DiagnosticsInv, FlagsLoss
    PROVE  DiagnosticsInv'
<1>1. /\ flagging' = FALSE /\ dropped' = TRUE
      /\ UNCHANGED <<work, admission, read, spans, drained, queue, noted, recorder, live, recorded>>
  BY DEF FlagsLoss
<1>2. noted \in BOOLEAN
  BY DEF DiagnosticsInv, DiagnosticsTypeOK
<1> QED BY <1>1, <1>2, TellingKeeps DEF LossIsTold

LEMMA NotesLossKeeps ==
    ASSUME DiagnosticsInv, NotesLoss
    PROVE  DiagnosticsInv'
<1>1. /\ dropped' = FALSE /\ noted' = (noted \/ dropped)
      /\ UNCHANGED <<work, admission, read, spans, drained, queue, flagging, live, recorded>>
  BY DEF NotesLoss
<1>2. flagging \in BOOLEAN /\ dropped \in BOOLEAN /\ noted \in BOOLEAN
  BY DEF DiagnosticsInv, DiagnosticsTypeOK
<1>3. (noted \/ dropped) \in BOOLEAN
  OBVIOUS
<1>4. LossIsTold => LossIsTold'
  BY <1>1 DEF LossIsTold
<1> QED BY <1>1, <1>2, <1>3, <1>4, TellingKeeps

LEMMA PublisherIsDroppedKeeps ==
    ASSUME DiagnosticsInv, PublisherIsDropped
    PROVE  DiagnosticsInv'
<1>1. UNCHANGED <<work, admission, read, spans, drained, queue, flagging, dropped, noted, live, recorded>>
  BY DEF PublisherIsDropped
<1>2. flagging \in BOOLEAN /\ dropped \in BOOLEAN /\ noted \in BOOLEAN
  BY DEF DiagnosticsInv, DiagnosticsTypeOK
<1> QED BY <1>1, <1>2, TellingKeeps DEF LossIsTold

LEMMA PublisherEndsKeeps ==
    ASSUME DiagnosticsInv, PublisherEnds
    PROVE  DiagnosticsInv'
<1>1. /\ live' = {}
      /\ UNCHANGED <<work, admission, read, spans, drained, queue, flagging, dropped, noted, recorded>>
  BY DEF PublisherEnds
<1>2. flagging \in BOOLEAN /\ dropped \in BOOLEAN /\ noted \in BOOLEAN
  BY DEF DiagnosticsInv, DiagnosticsTypeOK
<1> QED BY <1>1, <1>2, TellingKeeps DEF LossIsTold

-----------------------------------------------------------------------------
\* The steps of an ended run fail exactly if the run did.
LEMMA StepsNameFailure ==
    ASSUME NEW record, NamesFailure(record)
    PROVE  record.outcome = "error" <=>
               \E i \in DOMAIN protocol_diagnostic_records(record) :
                   protocol_diagnostic_records(record)[i] # "Success"
<1> DEFINE ops == Operations[record.kind]
           steps == protocol_diagnostic_records(record)
           conn(i) == ops[i] = "ConnectorAvailabilityRead" /\ record.connector \in ConnectorErrors
<1>1. /\ record.kind \in DOMAIN Operations
      /\ \/ /\ record.outcome = "success" /\ record.error = NoError
            /\ record.connector \notin ConnectorErrors
         \/ /\ record.outcome = "error"
            /\ \/ record.error # NoError
               \/ record.kind = "HostAvailabilityRead" /\ record.connector \in ConnectorErrors
  BY DEF NamesFailure
<1>2. DOMAIN Operations = {"ProtocolPairing", "ProtocolSession", "AvailabilityRead",
                           "HostAvailabilityRead", "IdentityInit", "IdentityUnpair"}
  BY DEF Operations
<1>3. ASSUME NEW kind \in DOMAIN Operations
      PROVE  /\ Len(Operations[kind]) \in DOMAIN Operations[kind]
             /\ Operations[kind][Len(Operations[kind])] # "ConnectorAvailabilityRead"
  <2>1. CASE kind = "ProtocolPairing"
    BY <2>1 DEF Operations
  <2>2. CASE kind = "ProtocolSession"
    BY <2>2 DEF Operations
  <2>3. CASE kind = "AvailabilityRead"
    BY <2>3 DEF Operations
  <2>4. CASE kind = "HostAvailabilityRead"
    BY <2>4 DEF Operations
  <2>5. CASE kind = "IdentityInit"
    BY <2>5 DEF Operations
  <2>6. CASE kind = "IdentityUnpair"
    BY <2>6 DEF Operations
  <2> QED BY <1>2, <2>1, <2>2, <2>3, <2>4, <2>5, <2>6
<1>4. /\ 4 \in DOMAIN Operations["HostAvailabilityRead"]
      /\ Operations["HostAvailabilityRead"][4] = "ConnectorAvailabilityRead"
  BY DEF Operations
<1>5. ConnectorStatus(record.connector) # "Success"
  BY DEF ConnectorStatus
<1>6. Len(ops) \in DOMAIN ops /\ ops[Len(ops)] # "ConnectorAvailabilityRead"
  BY <1>1, <1>3
<1>7. DOMAIN steps = DOMAIN ops /\ \A i \in DOMAIN ops : steps[i] =
        IF conn(i) THEN ConnectorStatus(record.connector)
        ELSE IF i = Len(ops) /\ record.error # NoError
        THEN IF record.outcome = "success" THEN "Success" ELSE "Error"
        ELSE "Success"
  BY DEF protocol_diagnostic_records
<1>8. CASE record.outcome = "success"
  <2>1. \A i \in DOMAIN ops : ~conn(i)
    BY <1>1, <1>8
  <2> HIDE DEF ops, steps, conn
  <2>2. \A i \in DOMAIN steps : steps[i] = "Success"
    BY <1>7, <1>8, <2>1
  <2> QED BY <1>8, <2>2 DEF steps
<1>9. CASE record.outcome = "error" /\ record.error # NoError
  <2>1. ~conn(Len(ops))
    BY <1>6
  <2> HIDE DEF ops, steps, conn
  <2>2. Len(ops) \in DOMAIN steps /\ steps[Len(ops)] = "Error"
    BY <1>6, <1>7, <1>9, <2>1
  <2> QED BY <1>9, <2>2 DEF steps
<1>10. CASE record.outcome = "error" /\ record.kind = "HostAvailabilityRead" /\ record.connector \in ConnectorErrors
  <2>1. 4 \in DOMAIN ops /\ conn(4)
    BY <1>4, <1>10
  <2> HIDE DEF ops, steps, conn
  <2>2. 4 \in DOMAIN steps /\ steps[4] # "Success"
    BY <1>5, <1>7, <2>1
  <2> QED BY <1>10, <2>2 DEF steps
<1> QED BY <1>1, <1>8, <1>9, <1>10

\* The first event is taken out of the queue: the others move up.
LEMMA QueueMovesUp ==
    ASSUME NEW q \in Seq(Event), q # <<>>, NEW n, n = Len(q)
    PROVE  /\ n \in Nat \ {0} /\ Head(q) = q[1] /\ q[1] \in Event
           /\ Tail(q) \in Seq(Event) /\ Len(Tail(q)) = n - 1
           /\ \A i \in 1..(n - 1) : Tail(q)[i] = q[i + 1] /\ i + 1 \in 1..n
OBVIOUS

LEMMA TakesEventKeeps ==
    ASSUME DiagnosticsInv, TakesEvent
    PROVE  DiagnosticsInv'
<1>1. PICK event : event = Head(queue)
  OBVIOUS
<1>2. PICK n : n = Len(queue)
  OBVIOUS
<1>3. PICK run : run = event.record.run
  OBVIOUS
<1>4. /\ queue # <<>> /\ queue' = Tail(queue)
      /\ live' \in IF event.type = "Start" THEN {live, live \cup {run}} ELSE {live \ {run}}
      /\ recorded' = [recorded EXCEPT ![run] = diagnostic_run(event.record, event.type = "Finish")]
      /\ UNCHANGED <<work, admission, read, spans, drained, flagging, dropped, noted>>
  BY <1>1, <1>3 DEF TakesEvent
<1>5. DiagnosticsTypeOK /\ queue \in Seq(Event)
  BY DEF DiagnosticsInv, DiagnosticsTypeOK
<1>6. /\ n \in Nat \ {0} /\ event = queue[1] /\ event \in Event
      /\ queue' \in Seq(Event) /\ Len(queue') = n - 1
      /\ \A i \in 1..(n - 1) : queue'[i] = queue[i + 1] /\ i + 1 \in 1..n
  BY <1>1, <1>2, <1>4, <1>5, QueueMovesUp
<1>7. 1 \in 1..n
  BY <1>6
<1>8. run \in Work \cup Read /\ event.type \in {"Start", "Finish"}
  BY <1>3, <1>6 DEF Event, RecordState
<1>9. DiagnosticsTypeOK'
  BY <1>4, <1>5, <1>6, <1>8 DEF DiagnosticsTypeOK
<1>10. SettledStay
  BY <1>4 DEF SettledStay, Settled, Succeeded
<1>11. \A i \in 1..n : EventIsTrue(queue[i])
  BY <1>2 DEF DiagnosticsInv
<1>12. \A e : EventIsTrue(e) => EventIsTrue(e)'
  BY <1>10 DEF EventIsTrue, SettledStay
<1>13. \A i \in 1..Len(queue') : EventIsTrue(queue[i])'
  BY <1>6, <1>11, <1>12
<1>14. ASSUME NEW x \in Work \cup Read PROVE RecordIsTrue(x)'
  <2>1. CASE x # run
    <3>1. recorded'[x] = recorded[x] /\ RecordIsTrue(x)
      BY <1>4, <1>5, <2>1 DEF DiagnosticsInv, DiagnosticsTypeOK
    <3> QED BY <1>10, <3>1 DEF RecordIsTrue, SettledStay
  <2>2. CASE x = run
    <3>1. recorded'[x] = diagnostic_run(event.record, event.type = "Finish")
      BY <1>4, <1>5, <1>8, <2>2 DEF DiagnosticsTypeOK
    <3>2. CASE event.type = "Start"
      <4>1. recorded'[x].is = "partial"
        BY <3>1, <3>2 DEF diagnostic_run
      <4> QED BY <4>1 DEF RecordIsTrue
    <3>3. CASE event.type = "Finish"
      <4>1. /\ recorded'[x].outcome = event.record.outcome
            /\ recorded'[x].steps = protocol_diagnostic_records(event.record)
        BY <3>1, <3>3 DEF diagnostic_run
      <4>2. EventIsTrue(event)'
        BY <1>6, <1>7, <1>11, <1>12
      <4>3. NamesFailure(event.record)
            /\ (run \in Read => Settled(run)' /\ (event.record.outcome = "success" <=> Succeeded(run)'))
        BY <1>3, <3>3, <4>2 DEF EventIsTrue
      <4>4. event.record.outcome = "error" <=>
               \E i \in DOMAIN protocol_diagnostic_records(event.record) :
                   protocol_diagnostic_records(event.record)[i] # "Success"
        BY <4>3, StepsNameFailure
      <4> QED BY <2>2, <4>1, <4>3, <4>4 DEF RecordIsTrue
    <3> QED BY <1>8, <3>2, <3>3
  <2> QED BY <2>1, <2>2
<1>15. ASSUME NEW s \in Work PROVE WorkIsSound(s)'
  BY <1>4 DEF DiagnosticsInv, WorkIsSound, IsServed
<1>16. ASSUME NEW r \in Read PROVE SpanIsServed(r)'
  BY <1>4 DEF DiagnosticsInv, SpanIsServed
<1>17. StartHasEnd' /\ LiveHasEnd'
  <2>1. CASE LossIsTold
    BY <1>4, <2>1 DEF StartHasEnd, LiveHasEnd, LossIsTold
  <2>2. CASE ~LossIsTold
    <3>1. /\ \A i \in 1..n : queue[i].type = "Start" =>
                \/ queue[i].record.run \in spans \cup drained
                \/ \E j \in (i + 1)..n : EndsAt(j, queue[i].record.run)
          /\ \A x \in live : x \in spans \cup drained \/ \E j \in 1..n : EndsAt(j, x)
      BY <1>2, <2>2 DEF DiagnosticsInv, StartHasEnd, LiveHasEnd
    <3>2. ASSUME NEW i \in Nat, NEW x, \E j \in (i + 2)..n : EndsAt(j, x)
          PROVE  \E k \in (i + 1)..(n - 1) : queue'[k].type = "Finish" /\ queue'[k].record.run = x
      <4>0. PICK j \in (i + 2)..n : EndsAt(j, x)
        BY <3>2
      <4>1. j - 1 \in 1..(n - 1) /\ j - 1 \in (i + 1)..(n - 1) /\ (j - 1) + 1 = j
        BY <1>6
      <4>2. queue'[j - 1] = queue[j]
        BY <1>6, <4>1
      <4> QED BY <4>0, <4>1, <4>2 DEF EndsAt
    <3>3. ASSUME NEW i \in 1..(n - 1), queue'[i].type = "Start"
          PROVE  \/ queue'[i].record.run \in spans' \cup drained'
                 \/ \E j \in (i + 1)..(n - 1) :
                       queue'[j].type = "Finish" /\ queue'[j].record.run = queue'[i].record.run
      <4>1. queue'[i] = queue[i + 1] /\ i + 1 \in 1..n /\ i \in Nat /\ (i + 1) + 1 = i + 2
        BY <1>6
      <4>2. \/ queue'[i].record.run \in spans \cup drained
            \/ \E j \in (i + 2)..n : EndsAt(j, queue'[i].record.run)
        BY <3>1, <3>3, <4>1
      <4>3. CASE queue'[i].record.run \in spans \cup drained
        BY <1>4, <4>3
      <4>4. CASE \E j \in (i + 2)..n : EndsAt(j, queue'[i].record.run)
        BY <3>2, <4>1, <4>4
      <4> QED BY <4>2, <4>3, <4>4
    <3>4. ASSUME NEW x \in live'
          PROVE  \/ x \in spans' \cup drained'
                 \/ \E j \in 1..(n - 1) : queue'[j].type = "Finish" /\ queue'[j].record.run = x
      <4>1. \/ x \in spans \cup drained
            \/ \E j \in 2..n : EndsAt(j, x)
        <5>1. CASE event.type = "Start" /\ x = run
          <6>1. queue[1].type = "Start" /\ queue[1].record.run = x /\ 1 + 1 = 2
            BY <1>3, <1>6, <5>1
          <6> QED BY <1>7, <3>1, <6>1
        <5>2. CASE x \in live /\ ~EndsAt(1, x)
          <6>1. x \in spans \cup drained \/ \E j \in 1..n : EndsAt(j, x)
            BY <3>1, <5>2
          <6>2. \A j \in 1..n : j = 1 \/ j \in 2..n
            BY <1>6
          <6> QED BY <5>2, <6>1, <6>2
        <5>3. (event.type = "Start" /\ x = run) \/ (x \in live /\ ~EndsAt(1, x))
          <6>1. CASE event.type = "Start"
            BY <1>4, <1>6, <6>1 DEF EndsAt
          <6>2. CASE event.type = "Finish"
            <7>1. live' = live \ {run}
              BY <1>4, <6>2
            <7> QED BY <1>3, <1>6, <7>1 DEF EndsAt
          <6> QED BY <1>8, <6>1, <6>2
        <5> QED BY <5>1, <5>2, <5>3
      <4>2. CASE x \in spans \cup drained
        BY <1>4, <4>2
      <4>3. CASE \E j \in 2..n : EndsAt(j, x)
        <5>1. \E j \in (0 + 2)..n : EndsAt(j, x)
          BY <4>3
        <5>2. \E k \in (0 + 1)..(n - 1) : queue'[k].type = "Finish" /\ queue'[k].record.run = x
          BY <3>2, <5>1
        <5> QED BY <5>2
      <4> QED BY <4>1, <4>2, <4>3
    <3> QED BY <1>6, <3>3, <3>4 DEF StartHasEnd, LiveHasEnd, EndsAt
  <2> QED BY <2>1, <2>2
<1> QED BY <1>9, <1>13, <1>14, <1>15, <1>16, <1>17 DEF DiagnosticsInv

-----------------------------------------------------------------------------

LEMMA DiagnosticsInitSound == DiagnosticsInit => DiagnosticsInv
<1> SUFFICES ASSUME DiagnosticsInit PROVE DiagnosticsInv
  OBVIOUS
<1>1. /\ work = [w \in Work |-> NoWork] /\ admission = NoSession
      /\ read = [r \in Read |-> [at |-> "none", on |-> NoSession, connector |-> NoError]]
      /\ spans = {} /\ drained = {} /\ queue = <<>> /\ live = {}
      /\ flagging = FALSE /\ dropped = FALSE /\ noted = FALSE
      /\ recorded = [run \in Work \cup Read |-> Unrecorded]
  BY DEF DiagnosticsInit
<1>2. NoWork \in WorkState
  BY DEF NoWork, WorkState, WorkPlace, WorkFailure
<1>3. [at |-> "none", on |-> NoSession, connector |-> NoError] \in ReadState
  BY DEF ReadState, ReadPlace
<1>4. queue \in Seq(Event) /\ Len(queue) = 0
  BY <1>1
<1>5. DiagnosticsTypeOK
  BY <1>1, <1>2, <1>3, <1>4 DEF DiagnosticsTypeOK
<1>6. ASSUME NEW s \in Work PROVE WorkIsSound(s)
  BY <1>1 DEF WorkIsSound, IsServed, NoWork
<1>7. ASSUME NEW r \in Read PROVE SpanIsServed(r)
  BY <1>1 DEF SpanIsServed
<1>8. ASSUME NEW run \in Work \cup Read PROVE RecordIsTrue(run)
  BY <1>1 DEF RecordIsTrue, Unrecorded
<1>9. StartHasEnd /\ LiveHasEnd
  BY <1>1, <1>4 DEF StartHasEnd, LiveHasEnd
<1> QED BY <1>4, <1>5, <1>6, <1>7, <1>8, <1>9 DEF DiagnosticsInv

LEMMA DiagnosticsKeeps ==
    DiagnosticsInv /\ [DiagnosticsNext]_diagnosticVars => DiagnosticsInv'
<1> SUFFICES ASSUME DiagnosticsInv, [DiagnosticsNext]_diagnosticVars PROVE DiagnosticsInv'
  OBVIOUS
<1>1. ASSUME NEW w \in Work,
             \/ WorkStarts(w) \/ WorkReturns(w) \/ WorkEnds(w)
             \/ SessionIsAdmitted(w) \/ SessionIsAcked(w) \/ SessionIsRefused(w)
             \/ SessionCloses(w) \/ WriterIsJoined(w) \/ Drains(w) \/ SessionIsServed(w)
      PROVE  DiagnosticsInv'
  BY <1>1, WorkStartsKeeps, WorkReturnsKeeps, WorkEndsKeeps, SessionIsAdmittedKeeps,
     SessionIsAckedKeeps, SessionIsRefusedKeeps, SessionClosesKeeps, WriterIsJoinedKeeps,
     DrainsKeeps, SessionIsServedKeeps
<1>2. ASSUME NEW w \in Work, NEW r \in Read, ReadArrives(w, r) \/ DrainsOne(w, r)
      PROVE  DiagnosticsInv'
  BY <1>2, ReadArrivesKeeps, DrainsOneKeeps
<1>3. ASSUME NEW r \in Read, ReadIsInvoked(r) \/ ReadIsEnqueued(r) \/ ReadIsAnswered(r)
      PROVE  DiagnosticsInv'
  BY <1>3, ReadIsInvokedKeeps, ReadIsEnqueuedKeeps, ReadIsAnsweredKeeps
<1>4. ASSUME FlagsLoss \/ TakesEvent \/ NotesLoss \/ PublisherIsDropped \/ PublisherEnds
      PROVE  DiagnosticsInv'
  BY <1>4, FlagsLossKeeps, TakesEventKeeps, NotesLossKeeps, PublisherIsDroppedKeeps, PublisherEndsKeeps
<1>5. CASE UNCHANGED diagnosticVars
  <2>1. /\ UNCHANGED <<work, admission, read, spans, drained, queue, recorded>>
        /\ UNCHANGED <<live, flagging, dropped, noted>>
    BY <1>5 DEF diagnosticVars
  <2>2. flagging \in BOOLEAN /\ dropped \in BOOLEAN /\ noted \in BOOLEAN
    BY DEF DiagnosticsInv, DiagnosticsTypeOK
  <2> QED BY <2>1, <2>2, TellingKeeps DEF LossIsTold
<1> QED BY <1>1, <1>2, <1>3, <1>4, <1>5 DEF DiagnosticsNext

\* The inductive invariant of the host's diagnostics holds in every execution of
\* the publisher, its senders and its thread.
THEOREM DiagnosticsInvariance == DiagnosticsSpec => []DiagnosticsInv
BY DiagnosticsInitSound, DiagnosticsKeeps, PTL DEF DiagnosticsSpec

\* What the host records of its work is true, for any number of connections and
\* reads and any size of the publisher's queue, whatever is lost on the way: an
\* answered read is a success and no other is, a failed run names the failed step,
\* finish_all meets reads of its own connection only, and a run is kept live only
\* while it runs, its end is on its way, or the loss is told.
THEOREM DiagnosticsStayTrue == DiagnosticsSpec => []DiagnosticsAreTrue
<1>1. DiagnosticsInv => DiagnosticsAreTrue
  <2> SUFFICES ASSUME DiagnosticsInv PROVE DiagnosticsAreTrue
    OBVIOUS
  <2>1. AnsweredReadsSucceed
    BY DEF AnsweredReadsSucceed, DiagnosticsInv, RecordIsTrue, Succeeded
  <2>2. FailureIsNamed
    BY DEF FailureIsNamed, DiagnosticsInv, DiagnosticsTypeOK, RecordIsTrue
  <2>3. SpansAreOfTheSession
    BY DEF SpansAreOfTheSession, DiagnosticsInv, SpanIsServed
  <2>4. LiveIsRunning
    <3>1. queue \in Seq(Event) /\ LiveHasEnd
      BY DEF DiagnosticsInv, DiagnosticsTypeOK
    <3>2. DOMAIN queue = 1..Len(queue)
      BY <3>1
    <3> QED BY <3>1, <3>2 DEF LiveIsRunning, LiveHasEnd, LossIsTold, EndsAt
  <2> QED BY <2>1, <2>2, <2>3, <2>4 DEF DiagnosticsAreTrue
<1> QED BY <1>1, DiagnosticsInvariance, PTL

=============================================================================
