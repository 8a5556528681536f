-------------------------- MODULE ProfileLifecycle --------------------------
(***************************************************************************)
(* The profile commands of the desktop host (profile.rs) and the owner     *)
(* lock and socket they look at (owner_control.rs).  Each command is a     *)
(* process of its own: it may crash at any point, which releases its file  *)
(* locks and leaves its files, a temporary profile or a socket, behind.    *)
(*                                                                         *)
(* Two locks carry the argument.  The operation lock is held by every      *)
(* profile command, and by "run" until its host listens.  The owner lock   *)
(* of a role is held by its host, and for a moment by whoever finds that   *)
(* no host answers.  A profile is its role root and the rest of what the   *)
(* host is launched with.                                                  *)
(***************************************************************************)
EXTENDS Naturals, Sequences, FiniteSets

CONSTANTS
    ProcMax,        \* bound on command processes, each of one command
    ProfileName,
    RoleRoot,           \* role roots
    Bind,           \* the rest of a profile: address, availability, recording
    ProfileLimit    \* PROFILE_LIMIT: 32 in the code

ASSUME ProcAssumption == ProcMax \in Nat

VARIABLES
    profiles,   \* the stored profiles
    temporary,  \* names with a .tmp- file
    operation,  \* holder of operation.lock
    lockHolder, \* holder of each role's owner.lock
    socket,     \* each role's owner.sock: who bound it, and whether it is private
    process     \* the commands

profileVars == <<profiles, temporary, operation, lockHolder, socket, process>>

Proc == 1..ProcMax
Profile == [role : RoleRoot, bind : Bind]
NoProfile == [role |-> "none", bind |-> "none"]
Nobody == 0
NoSocket == [by |-> Nobody, private |-> FALSE]
Stage == <<"ProfileResolve", "HostOwnerAcquire", "HostBind", "HostRuntimeStart",
           "HostRuntimeStop", "HostOwnerRelease">>
NoStage == "none"

Command(op, name, profile, look) ==
    [op |-> op, name |-> name, profile |-> profile, look |-> look,
     at |-> IF op = "run" THEN "acquire" ELSE "discover",
     sees |-> Nobody, cancel |-> FALSE, did |-> {"ProfileResolve"}, failed |-> NoStage]

Unstarted == [Command("none", "none", NoProfile, <<>>) EXCEPT !.at = "idle"]

ProfileInit ==
    /\ profiles \in [ProfileName -> Profile \cup {NoProfile}] /\ temporary = {}
    /\ operation = Nobody /\ lockHolder = [r \in RoleRoot |-> Nobody]
    /\ socket = [r \in RoleRoot |-> NoSocket]
    /\ process = [p \in Proc |-> Unstarted]

Existing == {n \in ProfileName : profiles[n] # NoProfile}
RoleOf(p) == process[p].profile.role

\* Processes are numbered as they start.
Starts(p) ==
    /\ process[p].at = "idle" /\ operation = Nobody
    /\ \A q \in 1..(p - 1) : process[q].at # "idle"

\* The command ends and lets the operation lock go if it holds it.
Concludes(p) ==
    /\ process' = [process EXCEPT ![p].at = "ended"]
    /\ operation' = IF operation = p THEN Nobody ELSE operation

-----------------------------------------------------------------------------
(* Taking the operation lock and loading the profile.                      *)

\* list, and show: the temporary files of crashed writers are removed.
ProfileList ==
    /\ operation = Nobody /\ temporary # {}
    /\ temporary' = {}
    /\ UNCHANGED <<profiles, operation, lockHolder, socket, process>>

\* Mutant of RolesToCheck: only the role of the new profile is looked at.
RolesToCheckNew(old, new) == <<new.role>>

\* set asks refuse_live_owner of the profile it replaces and of the new one.
RolesToCheck(old, new) ==
    IF old = NoProfile THEN <<new.role>> ELSE <<old.role, new.role>>

SetBegins(p, n, new) ==
    /\ Starts(p)
    /\ n \notin Existing => Cardinality(Existing) < ProfileLimit
    /\ operation' = p /\ temporary' = {}
    /\ process' = [process EXCEPT ![p] =
            Command("set", n, new, RolesToCheck(profiles[n], new))]
    /\ UNCHANGED <<profiles, lockHolder, socket>>

\* delete, status, stop and run of an existing profile.
ProfileBegins(p, n, op) ==
    /\ Starts(p) /\ n \in Existing
    /\ operation' = p
    /\ process' = [process EXCEPT ![p] =
            Command(op, n, profiles[n], <<profiles[n].role>>)]
    /\ UNCHANGED <<profiles, temporary, lockHolder, socket>>

-----------------------------------------------------------------------------
(* discover_owner_info                                                     *)

Looks(p) == Head(process[p].look)

\* Nothing answered and the lock was free: the next role, or the work itself.
FoundNone(p) ==
    IF process[p].op \in {"status", "stop"} THEN Concludes(p)
    ELSE /\ process' = [process EXCEPT ![p].look = Tail(@),
                ![p].at = IF Len(process[p].look) > 1 THEN "discover"
                          ELSE IF process[p].op = "set" THEN "write" ELSE "remove"]
         /\ UNCHANGED operation

\* An owner answered: set and delete refuse, stop goes on if it is its own.
Launched(q) == <<process[q].name, process[q].profile>>
FoundOwner(p, q) ==
    IF process[p].op = "stop" /\ Launched(q) = Launched(p)
    THEN /\ process' = [process EXCEPT ![p].at = "shutdown", ![p].sees = q]
         /\ UNCHANGED operation
    ELSE Concludes(p)

\* Whether q's control loop is there to answer on the socket of its role.
Answers(q) ==
    /\ process[q].at \in {"ready", "serving"} /\ ~process[q].cancel
    /\ socket[RoleOf(q)] = [by |-> q, private |-> TRUE]

\* No socket: the lock decides, and a held one is owner_control_not_ready.
DiscoverNoSocket(p) ==
    /\ process[p].at = "discover" /\ socket[Looks(p)] = NoSocket
    /\ IF lockHolder[Looks(p)] = Nobody THEN FoundNone(p) ELSE Concludes(p)
    /\ UNCHANGED <<profiles, temporary, lockHolder, socket>>

\* A socket that is not private is removed if the lock is free.
DiscoverNotPrivate(p) ==
    /\ process[p].at = "discover" /\ socket[Looks(p)] # NoSocket
    /\ ~socket[Looks(p)].private
    /\ IF lockHolder[Looks(p)] = Nobody
       THEN /\ lockHolder' = [lockHolder EXCEPT ![Looks(p)] = p]
            /\ process' = [process EXCEPT ![p].at = "probing"]
            /\ UNCHANGED operation
       ELSE Concludes(p) /\ UNCHANGED lockHolder
    /\ UNCHANGED <<profiles, temporary, socket>>

DiscoverSocket(p) ==
    /\ process[p].at = "discover" /\ socket[Looks(p)].private
    /\ process' = [process EXCEPT ![p].at = "asking"]
    /\ UNCHANGED <<profiles, temporary, operation, lockHolder, socket>>

\* The owner answers OwnerInfo.
DiscoverAnswered(p, q) ==
    /\ process[p].at = "asking" /\ RoleOf(q) = Looks(p) /\ Answers(q)
    /\ FoundOwner(p, q)
    /\ UNCHANGED <<profiles, temporary, lockHolder, socket>>

\* No answer: nobody listens, or its four connections were busy, or time ran
\* out.  A free lock makes the socket stale; a held one is asked again until
\* the deadline.
DiscoverUnanswered(p) ==
    /\ process[p].at = "asking"
    /\ \/ /\ lockHolder[Looks(p)] = Nobody
          /\ lockHolder' = [lockHolder EXCEPT ![Looks(p)] = p]
          /\ process' = [process EXCEPT ![p].at = "probing"]
          /\ UNCHANGED operation
       \/ /\ lockHolder[Looks(p)] # Nobody
          /\ Concludes(p) /\ UNCHANGED lockHolder
    /\ UNCHANGED <<profiles, temporary, socket>>

\* The stale socket goes while the lock is held, and the lock with it.
DiscoverRemoves(p) ==
    /\ process[p].at = "probing"
    /\ socket' = [socket EXCEPT ![Looks(p)] = NoSocket]
    /\ lockHolder' = [lockHolder EXCEPT ![Looks(p)] = IF @ = p THEN Nobody ELSE @]
    /\ FoundNone(p)
    /\ UNCHANGED <<profiles, temporary>>

-----------------------------------------------------------------------------
(* What set, delete and stop do with what they found.                      *)

SetWrites(p) ==
    /\ process[p].at = "write"
    /\ \/ /\ temporary' = temporary \cup {process[p].name}
          /\ process' = [process EXCEPT ![p].at = "rename"] /\ UNCHANGED operation
       \/ Concludes(p) /\ UNCHANGED temporary
    /\ UNCHANGED <<profiles, lockHolder, socket>>

\* The rename, and then its directory's sync and the read back, whose failure
\* is PublicationUnknown.
SetRenames(p) ==
    /\ process[p].at = "rename"
    /\ temporary' = temporary \ {process[p].name}
    /\ profiles' \in {profiles, [profiles EXCEPT ![process[p].name] = process[p].profile]}
    /\ Concludes(p)
    /\ UNCHANGED <<lockHolder, socket>>

DeleteRemoves(p) ==
    /\ process[p].at = "remove"
    /\ profiles' \in {profiles, [profiles EXCEPT ![process[p].name] = NoProfile]}
    /\ Concludes(p)
    /\ UNCHANGED <<temporary, lockHolder, socket>>

\* Shutdown of the generation that was seen.  The owner stops once its answer
\* is written, whether or not the caller still waits for it.
StopAsks(p) ==
    /\ process[p].at = "shutdown"
    /\ LET q == process[p].sees IN
       \/ Answers(q) /\ UNCHANGED operation
          /\ process' = [process EXCEPT ![p].at = "waiting", ![q].at = "ending"]
       \/ Answers(q) /\ process' = [process EXCEPT ![p].at = "ended", ![q].at = "ending"]
          /\ operation' = Nobody
       \/ Concludes(p)
    /\ UNCHANGED <<profiles, temporary, lockHolder, socket>>

\* Until the lock is free and the socket gone, or five seconds have passed.
StopWaits(p) ==
    /\ process[p].at = "waiting"
    /\ Concludes(p)
    /\ UNCHANGED <<profiles, temporary, lockHolder, socket>>

-----------------------------------------------------------------------------
(* run_host_runtime_scoped and the owner thread it starts.                 *)

Advance(p, at, done) ==
    process' = [process EXCEPT ![p].at = at, ![p].did = @ \cup done]

\* The host ends: what it holds is released, and stage is what is reported.
HostEnds(p, stage, done) ==
    /\ process' = [process EXCEPT ![p].at = "ended", ![p].did = @ \cup done,
            ![p].failed = IF @ = NoStage THEN stage ELSE @]
    /\ operation' = IF operation = p THEN Nobody ELSE operation

OwnerAcquires(p) ==
    /\ process[p].at = "acquire" /\ lockHolder[RoleOf(p)] = Nobody
    /\ lockHolder' = [lockHolder EXCEPT ![RoleOf(p)] = p]
    /\ Advance(p, "bind", {"HostOwnerAcquire"})
    /\ UNCHANGED <<profiles, temporary, operation, socket>>

\* Mutant of OwnerRefused: the owner lock is waited for as long as it takes.
OwnerAwaits(p) ==
    /\ process[p].at = "acquire" /\ lockHolder[RoleOf(p)] = Nobody
    /\ HostEnds(p, "HostOwnerAcquire", {})
    /\ UNCHANGED <<profiles, temporary, lockHolder, socket>>

\* Two seconds with the lock held by another, or the identity unreadable.
OwnerRefused(p) ==
    /\ process[p].at = "acquire"
    /\ HostEnds(p, "HostOwnerAcquire", {})
    /\ UNCHANGED <<profiles, temporary, lockHolder, socket>>

OwnerBinds(p) ==
    /\ process[p].at = "bind"
    /\ socket' = [socket EXCEPT ![RoleOf(p)] = [by |-> p, private |-> FALSE]]
    /\ Advance(p, "bound", {})
    /\ UNCHANGED <<profiles, temporary, operation, lockHolder>>

OwnerReady(p) ==
    /\ process[p].at = "bound"
    /\ socket' = [socket EXCEPT ![RoleOf(p)].private = TRUE]
    /\ Advance(p, "ready", {})
    /\ UNCHANGED <<profiles, temporary, operation, lockHolder>>

\* The runtime waited two seconds for the owner thread and cancels it.
ReadyTimeout(p) ==
    /\ process[p].at \in {"bind", "bound"} /\ ~process[p].cancel
    /\ process' = [process EXCEPT ![p].cancel = TRUE, ![p].failed = "HostOwnerAcquire"]
    /\ UNCHANGED <<profiles, temporary, operation, lockHolder, socket>>

\* The listener is bound, or the address is taken; the barrier goes either way.
HostBinds(p) ==
    /\ process[p].at = "ready" /\ ~process[p].cancel
    /\ operation' = Nobody
    /\ \/ Advance(p, "serving", {"HostBind", "HostRuntimeStart"})
       \/ process' = [process EXCEPT ![p].cancel = TRUE, ![p].failed = "HostBind"]
    /\ UNCHANGED <<profiles, temporary, lockHolder, socket>>

\* A signal, a runtime failure or a cancelled start: the control loop stops.
HostIsStopped(p) ==
    /\ \/ process[p].at = "serving"
          /\ process' \in {[process EXCEPT ![p].at = "ending"],
                 [process EXCEPT ![p].at = "ending", ![p].failed = "HostRuntimeStop"]}
       \/ process[p].at = "ready" /\ process[p].cancel
          /\ process' = [process EXCEPT ![p].at = "ending"]
    /\ UNCHANGED <<profiles, temporary, operation, lockHolder, socket>>

\* finish_owner_control; a step of it that fails leaves the socket.
OwnerFinishes(p) ==
    /\ process[p].at = "ending"
    /\ \/ socket' = [socket EXCEPT ![RoleOf(p)] = NoSocket]
          /\ Advance(p, "finished", {"HostRuntimeStop"})
       \/ UNCHANGED socket
          /\ process' = [process EXCEPT ![p].at = "finished",
                 ![p].failed = IF @ = NoStage THEN "HostRuntimeStop" ELSE @]
    /\ UNCHANGED <<profiles, temporary, operation, lockHolder>>

OwnerReleases(p) ==
    /\ process[p].at = "finished"
    /\ lockHolder' = [lockHolder EXCEPT ![RoleOf(p)] = Nobody]
    /\ HostEnds(p, NoStage, {"HostOwnerRelease"})
    /\ UNCHANGED <<profiles, temporary, socket>>

\* The process dies: its locks are free, its files stay.
Crash(p) ==
    /\ process[p].at \notin {"idle", "ended", "crashed"}
    /\ process' = [process EXCEPT ![p].at = "crashed"]
    /\ operation' = IF operation = p THEN Nobody ELSE operation
    /\ lockHolder' = [r \in RoleRoot |-> IF lockHolder[r] = p THEN Nobody ELSE lockHolder[r]]
    /\ UNCHANGED <<profiles, temporary, socket>>

-----------------------------------------------------------------------------
(* lifecycle_operation_status: what the run's record says of each stage.   *)

Position(s) == CHOOSE i \in DOMAIN Stage : Stage[i] = s

\* Mutant of LifecycleStatus: the release is reported like any other stage.
LifecycleStatusByOrder(failed, s) ==
    IF failed = NoStage \/ Position(s) < Position(failed) THEN "Success"
    ELSE IF s = failed THEN "Error" ELSE "Cancel"

LifecycleStatus(failed, s) ==
    CASE failed = NoStage -> "Success"
      [] failed # NoStage /\ s = failed -> "Error"
      [] failed # NoStage /\ s # failed /\ s = "HostOwnerRelease"
         /\ Position(failed) > Position("HostOwnerAcquire") -> "Success"
      [] OTHER -> IF Position(failed) < Position(s) THEN "Cancel" ELSE "Success"

-----------------------------------------------------------------------------
ProfileStep(p) ==
    \/ DiscoverNoSocket(p) \/ DiscoverNotPrivate(p) \/ DiscoverSocket(p)
    \/ DiscoverUnanswered(p) \/ DiscoverRemoves(p)
    \/ (\E q \in Proc : DiscoverAnswered(p, q))
    \/ SetWrites(p) \/ SetRenames(p) \/ DeleteRemoves(p)
    \/ StopAsks(p) \/ StopWaits(p)
    \/ OwnerAcquires(p) \/ OwnerRefused(p) \/ OwnerBinds(p) \/ OwnerReady(p)
    \/ HostBinds(p) \/ OwnerFinishes(p) \/ OwnerReleases(p)

ProfileNext ==
    \/ ProfileList
    \/ \E p \in Proc :
          \/ \E n \in ProfileName :
                \/ \E new \in Profile : SetBegins(p, n, new)
                \/ \E op \in {"delete", "status", "stop", "run"} : ProfileBegins(p, n, op)
          \/ ProfileStep(p) \/ ReadyTimeout(p) \/ HostIsStopped(p) \/ Crash(p)

\* A process that runs goes on; when hosts are stopped is up to their users.
ProfileFairness ==
    \A p \in Proc :
        /\ WF_profileVars(ProfileStep(p))
        /\ WF_profileVars(process[p].cancel /\ HostIsStopped(p))

ProfileSpec == ProfileInit /\ [][ProfileNext]_profileVars /\ ProfileFairness

-----------------------------------------------------------------------------
(* Properties                                                              *)

Hosting == {"bind", "bound", "ready", "serving", "ending", "finished"}

\* While a host is up, or on its way up or down, the profile it was launched
\* from is stored unchanged: set and delete never get past a live host, however
\* its start, its stop and its crash interleave with theirs.
LaunchedProfileKept ==
    \A p \in Proc : process[p].op = "run" /\ process[p].at \in Hosting \cup {"acquire"} =>
        profiles[process[p].name] = process[p].profile

\* The socket of a host that serves is never removed by a command that got no
\* answer from it: later commands reach the host.
OwnerStaysReachable ==
    \A p \in Proc : process[p].at \in {"ready", "serving"} =>
        socket[RoleOf(p)] = [by |-> p, private |-> TRUE]

\* A running host is left alone by the commands of other processes: its profile
\* stays what it was launched from, and its socket stays in place.
RunningHostUndisturbed == LaunchedProfileKept /\ OwnerStaysReachable

\* The record of a run that ended calls a stage successful only if it happened,
\* and the release of the owner lock cancelled only if the lock was not taken in
\* time.
RecordedStagesTrue ==
    \A p \in Proc : process[p].op = "run" /\ process[p].at = "ended" =>
        \A i \in DOMAIN Stage :
            /\ LifecycleStatus(process[p].failed, Stage[i]) = "Success"
                  => Stage[i] \in process[p].did
            /\ LifecycleStatus(process[p].failed, "HostOwnerRelease") = "Cancel"
                  => process[p].failed = "HostOwnerAcquire"

\* The commands of the profile neither disturb a running host nor report of their
\* own run what did not happen.
CommandsAreSafe == RunningHostUndisturbed /\ RecordedStagesTrue

\* Every profile command lets go of the operation lock, so the next one gets on.
OperationsEnd == operation # Nobody ~> operation = Nobody

=============================================================================
