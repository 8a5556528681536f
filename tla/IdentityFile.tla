---------------------------- MODULE IdentityFile ----------------------------
(***************************************************************************)
(* The identity store as files (desktop-host lib.rs): the lock file, the   *)
(* temporary file that is written, synced and renamed over the identity,   *)
(* and the sync of the directory.  Threads and processes of the host read, *)
(* create, advance and unpair; each may die at any step, and the machine   *)
(* may lose power, which takes back what was not synced.                   *)
(***************************************************************************)
EXTENDS Naturals

CONSTANTS
    User,           \* threads and processes that use the store
    GenerationMax   \* u64::MAX in the code

\* No user is called what an unlocked lock or a missing file is marked with.
ASSUME UserAssumption == "none" \notin User

VARIABLES
    canonical,  \* identity-v1.json as it reads now
    disk,       \* what it would read after a power loss
    tmp,        \* .identity.tmp: its content, and whether it was synced
    lock,       \* holder of .identity.lock
    user,       \* the operation each user is in
    acknowledged \* history: the last identity reported as stored

fileVars == <<canonical, disk, tmp, lock, user, acknowledged>>

Identity(key, generation, peer) == [key |-> key, generation |-> generation, peer |-> peer]
Missing == Identity("none", 0, "none")
Torn == Identity("torn", 0, "none")
NoTmp == [value |-> Missing, synced |-> FALSE]
NoUser == "none"

NoOperation == [op |-> "none", at |-> "idle", have |-> Missing, then |-> Missing, renamed |-> FALSE]

FileInit ==
    /\ canonical = Missing /\ disk = Missing /\ tmp = NoTmp /\ lock = NoUser
    /\ user = [u \in User |-> NoOperation] /\ acknowledged = Missing

UserAt(u, at) == user[u].at = at
Goes(u, at) == user' = [user EXCEPT ![u].at = at]

\* The operation ends, with the lock released if it was held.
Returns(u) ==
    /\ user' = [user EXCEPT ![u] = NoOperation]
    /\ lock' = IF lock = u THEN NoUser ELSE lock

-----------------------------------------------------------------------------
(* prepare_root and lock_identity                                          *)

\* Only init may find no file; prepare_root(true) makes the directory.
Opens(u, op) ==
    /\ UserAt(u, "idle")
    /\ op = "init" \/ canonical # Missing
    /\ op = "init" => canonical = Missing
    /\ user' = [user EXCEPT ![u] = [NoOperation EXCEPT !.op = op, !.at = "scanned"]]
    /\ UNCHANGED <<canonical, disk, tmp, lock, acknowledged>>

Locks(u) ==
    /\ UserAt(u, "scanned") /\ lock = NoUser
    /\ lock' = u /\ Goes(u, "locked")
    /\ UNCHANGED <<canonical, disk, tmp, acknowledged>>

\* Two seconds passed, or the scan met a temporary file that a writer renamed
\* meanwhile.
OpenFails(u) ==
    /\ UserAt(u, "scanned") /\ lock # NoUser
    /\ Returns(u)
    /\ UNCHANGED <<canonical, disk, tmp, acknowledged>>

-----------------------------------------------------------------------------
(* What is published                                                       *)

\* set_peer takes a peer one step on (valid_peer_transition); unpair revokes it
\* in a new generation, and forgets one that is revoked; init makes a key.
NextPeer(u, old) ==
    CASE user[u].op = "init" -> Identity(u, 0, "Unpaired")
      [] user[u].op = "set" /\ old.peer = "Unpaired" -> [old EXCEPT !.peer = "Pending"]
      [] user[u].op = "set" /\ old.peer = "Pending" -> [old EXCEPT !.peer = "Committing"]
      [] user[u].op = "set" /\ old.peer = "Committing" -> [old EXCEPT !.peer = "Paired"]
      [] user[u].op = "unpair" /\ old.peer = "Revoking" -> [old EXCEPT !.peer = "Unpaired"]
      [] user[u].op = "unpair" /\ old.peer \in {"Pending", "Committing", "Paired"}
         /\ old.generation < GenerationMax ->
            Identity(old.key, old.generation + 1, "Revoking")
      [] OTHER -> old

\* Mutant of Loads: init does not look again once it holds the lock.
LoadsBlind(u) ==
    /\ UserAt(u, "locked") /\ user[u].op # "read"
    /\ LET next == NextPeer(u, canonical)
       IN  IF next = canonical
           THEN Returns(u)
           ELSE /\ user' = [user EXCEPT ![u].at = "clear", ![u].have = canonical, ![u].then = next]
                /\ UNCHANGED lock
    /\ UNCHANGED <<canonical, disk, tmp, acknowledged>>

\* read_unlocked under the lock, and the refusals: AlreadyInitialized, a peer in
\* another state, GenerationExhausted.
Loads(u) ==
    /\ UserAt(u, "locked") /\ user[u].op # "read"
    /\ LET next == NextPeer(u, canonical)
       IN  IF next = canonical \/ (user[u].op = "init" /\ canonical # Missing)
           THEN Returns(u)
           ELSE /\ user' = [user EXCEPT ![u].at = "clear", ![u].have = canonical, ![u].then = next]
                /\ UNCHANGED lock
    /\ UNCHANGED <<canonical, disk, tmp, acknowledged>>

\* read: the value, and the removal of a temporary file that was left.
Reads(u) ==
    /\ UserAt(u, "locked") /\ user[u].op = "read"
    /\ tmp' = NoTmp /\ Returns(u)
    /\ UNCHANGED <<canonical, disk, acknowledged>>

-----------------------------------------------------------------------------
(* publish_locked_with_rename_hook                                         *)

ClearsTmp(u) ==
    /\ UserAt(u, "clear") /\ tmp' = NoTmp /\ Goes(u, "write")
    /\ UNCHANGED <<canonical, disk, lock, acknowledged>>

WritesTmp(u) ==
    /\ UserAt(u, "write")
    /\ tmp' = [value |-> user[u].then, synced |-> FALSE] /\ Goes(u, "sync")
    /\ UNCHANGED <<canonical, disk, lock, acknowledged>>

SyncsTmp(u) ==
    /\ UserAt(u, "sync") /\ tmp' = [tmp EXCEPT !.synced = TRUE] /\ Goes(u, "rename")
    /\ UNCHANGED <<canonical, disk, lock, acknowledged>>

\* From here on readers see the new identity; unpair's hook revokes sessions.
Renames(u) ==
    /\ UserAt(u, "rename")
    /\ canonical' = tmp.value /\ tmp' = NoTmp
    /\ disk' = IF tmp.synced THEN disk ELSE Torn
    /\ acknowledged' = Missing
    /\ user' = [user EXCEPT ![u].at = "directory", ![u].renamed = TRUE]
    /\ UNCHANGED lock

\* Mutant of SyncsDirectory: the operation ends with the rename.
SyncsDirectoryNever(u) ==
    /\ UserAt(u, "directory") /\ UNCHANGED disk
    /\ IF user[u].op = "unpair" /\ canonical.peer = "Revoking"
       THEN /\ user' = [user EXCEPT ![u].at = "joined"]
            /\ UNCHANGED <<lock, acknowledged>>
       ELSE Returns(u) /\ acknowledged' = canonical
    /\ UNCHANGED <<canonical, tmp>>

\* The directory is synced and the operation reports success; an unpair that has
\* only revoked waits for the sessions first.
SyncsDirectory(u) ==
    /\ UserAt(u, "directory") /\ disk' = canonical
    /\ IF user[u].op = "unpair" /\ canonical.peer = "Revoking"
       THEN /\ user' = [user EXCEPT ![u].at = "joined"]
            /\ UNCHANGED <<lock, acknowledged>>
       ELSE Returns(u) /\ acknowledged' = canonical
    /\ UNCHANGED <<canonical, tmp>>

\* The sessions are joined, and the peer is forgotten in the same operation.
Joined(u) ==
    /\ UserAt(u, "joined")
    /\ user' = [user EXCEPT ![u].at = "clear", ![u].have = canonical,
            ![u].then = [canonical EXCEPT !.peer = "Unpaired"]]
    /\ UNCHANGED <<canonical, disk, tmp, lock, acknowledged>>

\* A file operation fails, or the sessions do not end (RevokedRecoveryRequired).
Fails(u) ==
    /\ user[u].at \in {"clear", "write", "sync", "rename", "directory", "joined"}
    /\ Returns(u)
    /\ UNCHANGED <<canonical, disk, tmp, acknowledged>>

-----------------------------------------------------------------------------
(* Faults                                                                  *)

\* A process dies: the lock is free, the files are as they are.
Dies(u) ==
    /\ ~UserAt(u, "idle") /\ Returns(u)
    /\ UNCHANGED <<canonical, disk, tmp, acknowledged>>

\* Power is lost: every process ends, and what was not synced may be gone.
PowerLoss ==
    /\ canonical' = disk /\ tmp' \in {tmp, NoTmp}
    /\ lock' = NoUser /\ user' = [u \in User |-> NoOperation]
    /\ UNCHANGED <<disk, acknowledged>>

\* The system writes the cached directory back on its own.
WriteBack ==
    /\ disk # canonical /\ disk # Torn /\ disk' = canonical
    /\ UNCHANGED <<canonical, tmp, lock, user, acknowledged>>

FileNext ==
    \/ PowerLoss \/ WriteBack
    \/ \E u \in User :
          \/ \E op \in {"init", "set", "unpair", "read"} : Opens(u, op)
          \/ Locks(u) \/ OpenFails(u) \/ Loads(u) \/ Reads(u)
          \/ ClearsTmp(u) \/ WritesTmp(u) \/ SyncsTmp(u) \/ Renames(u)
          \/ SyncsDirectory(u) \/ Joined(u) \/ Fails(u) \/ Dies(u)

FileSpec == FileInit /\ [][FileNext]_fileVars

-----------------------------------------------------------------------------
(* Properties                                                              *)

\* An operation that reported success is durable: until another one renames a
\* new identity into place, power loss and crashes give back the same identity.
AckedIsDurable == acknowledged # Missing => canonical = acknowledged /\ disk = acknowledged

\* What a reader gets is the register's visible record; what a power loss leaves
\* is its durable one.
Register == INSTANCE PeerRegister WITH
    Owner <- User, visible <- canonical, durable <- disk

\* The files implement a single record that changes by legal steps: whatever
\* fails or loses power, it reads as an identity that was published whole,
\* concurrent operations never lose or mix an update, and a key once made is never
\* replaced (lock_identity, publish_locked).
ImplementsRegister == Register!RegisterSpec

=============================================================================
