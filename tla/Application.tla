---------------------------- MODULE Application -----------------------------
(***************************************************************************)
(* The portable application (crates/deskkin-application): the two features *)
(* of module Features behind one transactional transition().               *)
(*                                                                         *)
(* An action is an accepted input; an input that any feature rejects       *)
(* publishes nothing and is a stuttering step.  The shell around the       *)
(* application is every shell at once: it may answer any effect that was   *)
(* ever requested, late, twice, in any order, or never.                    *)
(***************************************************************************)
EXTENDS Features

CONSTANTS
    LastId,     \* the largest local effect identity (u64::MAX)
    Kinds       \* kinds of notice

ASSUME LastIdAssumption == LastId \in Nat
ASSUME KindsAssumption == "None" \notin Kinds

VARIABLES
    running,    \* ApplicationState
    av,         \* the availability feature
    notice,     \* the synthetic notice feature
    next,       \* next_effect_id of each feature
    requested,  \* effects handed to the shell so far
    history     \* what the properties remember: not program state

appVars == <<running, av, notice, next, requested, history>>

Features == {"availability", "notice"}
Requests == [feature : Features, id : 1..LastId,
             request : {"Read", "ArmRefresh", "ArmExpiry"}]

NextId(feature) == next[feature] + 1

CanAllocate(feature) == next[feature] < LastId

\* The effect of an accepted transition, wrapped with its feature's name.
Request(feature, request) ==
    /\ CanAllocate(feature)
    /\ next' = [next EXCEPT ![feature] = @ + 1]
    /\ requested' = requested \cup
          {[feature |-> feature, id |-> NextId(feature), request |-> request]}

NoRequest == UNCHANGED <<next, requested>>

WasRequested(feature, id, request) ==
    [feature |-> feature, id |-> id, request |-> request] \in requested

\* Effects given up or done with, per feature.
Retire == [availability |-> history.retired.availability \cup ({av.effect} \ {av'.effect}),
           notice |-> history.retired.notice \cup ({notice.effect} \ {notice'.effect})]
RememberAs(source, cut) ==
    history' = [retired |-> Retire, source |-> source, cut |-> cut]
Remember == RememberAs(history.source, history.cut)

AppInit ==
    /\ running = FALSE
    /\ av = AvailabilityStopped
    /\ notice = NoticeStopped
    /\ next = [f \in Features |-> 0]
    /\ requested = {}
    /\ history = [retired |-> [availability |-> {}, notice |-> {}], source |-> 0, cut |-> 0]

-----------------------------------------------------------------------------
(* Lifecycle: broadcast to both features, rejected by both or by neither.  *)

Start ==
    /\ ~running /\ av.state = "Stopped" /\ notice.state = "Stopped"
    /\ Request("availability", "Read")
    /\ running' = TRUE
    /\ av' = AvailabilityStart(NextId("availability"))
    /\ notice' = NoticeIdle
    /\ Remember

\* Mutant: stopping starts from a new feature, identities included.
StopForgets ==
    /\ running /\ av.state # "Stopped" /\ notice.state # "Stopped"
    /\ running' = FALSE
    /\ av' = AvailabilityStopped
    /\ notice' = NoticeStopped
    /\ next' = [f \in Features |-> 0]
    /\ UNCHANGED requested
    /\ Remember

Stop ==
    /\ running /\ av.state # "Stopped" /\ notice.state # "Stopped"
    /\ running' = FALSE
    /\ av' = AvailabilityStopped
    /\ notice' = NoticeStopped
    /\ NoRequest
    /\ Remember

\* Interrupting a read asks for the refresh timer at once.
SessionInvalidated ==
    /\ av' = Invalidated(av, NextId("availability"))
    /\ notice' = NoticeInvalidated(notice)
    /\ IF av.state = "Reading" THEN Request("availability", "ArmRefresh") ELSE NoRequest
    /\ UNCHANGED running
    /\ RememberAs(history.source, next["availability"])

-----------------------------------------------------------------------------
(* Inputs routed to the availability feature.                              *)

AvailabilityRead(id, surface) ==
    /\ running
    /\ WasRequested("availability", id, "Read") /\ Expects(av, "Reading", id)
    /\ Request("availability", "ArmRefresh")
    /\ av' = ReadCompleted(av, id, surface, NextId("availability"))
    /\ UNCHANGED <<running, notice>>
    /\ RememberAs(id, history.cut)

\* A timer that cannot be armed stops the feature, not the application.
RefreshArmed(id, ok) ==
    /\ running
    /\ WasRequested("availability", id, "ArmRefresh") /\ Expects(av, "ArmingRefresh", id)
    /\ av' = TimerArmCompleted(av, id, ok)
    /\ UNCHANGED <<running, notice>>
    /\ NoRequest /\ Remember

AvailabilityRefreshDue(id) ==
    /\ running
    /\ WasRequested("availability", id, "ArmRefresh") /\ Expects(av, "Waiting", id)
    /\ Request("availability", "Read")
    /\ av' = RefreshDue(av, id, NextId("availability"))
    /\ UNCHANGED <<running, notice>>
    /\ Remember

-----------------------------------------------------------------------------
(* Inputs routed to the notice feature.                                    *)

Show(kind) ==
    /\ running /\ notice.state # "Stopped"
    /\ Request("notice", "ArmExpiry")
    /\ notice' = NoticeShow(kind, NextId("notice"))
    /\ UNCHANGED <<running, av>>
    /\ Remember

Clear ==
    /\ running /\ notice.state # "Stopped"
    /\ notice' = NoticeIdle
    /\ UNCHANGED <<running, av>>
    /\ NoRequest /\ Remember

ExpiryArmed(id, ok) ==
    /\ running
    /\ WasRequested("notice", id, "ArmExpiry") /\ Expects(notice, "Arming", id)
    /\ notice' = NoticeTimerArmed(notice, id, ok)
    /\ UNCHANGED <<running, av>>
    /\ NoRequest /\ Remember

ExpiryDue(id) ==
    /\ running
    /\ WasRequested("notice", id, "ArmExpiry") /\ Expects(notice, "Visible", id)
    /\ notice' = NoticeExpired(notice, id)
    /\ UNCHANGED <<running, av>>
    /\ NoRequest /\ Remember

-----------------------------------------------------------------------------
Surfaces == {"Unknown", "Available", "Unavailable"}

Effects(id) ==
    \/ \E surface \in Surfaces : AvailabilityRead(id, surface)
    \/ \E ok \in BOOLEAN : RefreshArmed(id, ok) \/ ExpiryArmed(id, ok)
    \/ AvailabilityRefreshDue(id) \/ ExpiryDue(id)

AppNext ==
    \/ Start \/ Stop \/ SessionInvalidated
    \/ \E id \in 1..LastId : Effects(id)
    \/ \E kind \in Kinds : Show(kind)
    \/ Clear

AppSpec == AppInit /\ [][AppNext]_appVars

-----------------------------------------------------------------------------
\* The states of the two features; a stopped or idle one awaits no effect.
AppTypeOK ==
    /\ running \in BOOLEAN
    /\ av \in [state : {"Stopped", "Reading", "ArmingRefresh", "Waiting"},
               effect : 0..LastId, surface : Surfaces]
    /\ notice \in [state : {"Stopped", "Idle", "Arming", "Visible"},
                   effect : 0..LastId, kind : Kinds \cup {"None"}]
    /\ next \in [Features -> 0..LastId]
    /\ requested \subseteq Requests
    /\ history \in [retired : [availability : SUBSET (0..LastId), notice : SUBSET (0..LastId)],
                    source : 0..LastId, cut : 0..LastId]
    /\ av.effect = NoEffect <=> av.state = "Stopped"
    /\ notice.effect = NoEffect <=> notice.state \in {"Stopped", "Idle"}

\* The features and the application stop and start together, whatever input
\* one of them rejects; only the availability feature may stop on its own.
LockStep ==
    /\ running <=> notice.state # "Stopped"
    /\ ~running => av.state = "Stopped"

\* The effect a feature waits for is one it requested, for the purpose it
\* waits for, and never one it waited for before: a late or repeated answer to
\* an abandoned effect is not taken for the answer to a newer one, across any
\* number of restarts.
AwaitsItsOwnRequest ==
    /\ av.state = "Reading" => WasRequested("availability", av.effect, "Read")
    /\ av.state \in {"ArmingRefresh", "Waiting"} =>
          WasRequested("availability", av.effect, "ArmRefresh")
    /\ notice.state \in {"Arming", "Visible"} => WasRequested("notice", notice.effect, "ArmExpiry")
    /\ av.state # "Stopped" => av.effect \notin history.retired.availability
    /\ notice.effect # NoEffect => notice.effect \notin history.retired.notice

\* What is shown was read by a request made after the last invalidation: a
\* read under way when a session ends never reaches the screen.
ShownIsCurrent == av.surface # "Unknown" => history.source > history.cut

\* Identities in use were allocated, and a read under way was requested after
\* the last invalidation: what makes the properties above inductive.
Allocated ==
    /\ av.effect <= next["availability"]
    /\ notice.effect <= next["notice"]
    /\ \A id \in history.retired.availability : id <= next["availability"]
    /\ \A id \in history.retired.notice : id <= next["notice"]
    /\ history.cut <= next["availability"]
    /\ av.state = "Reading" => av.effect > history.cut

\* The inductive invariant of the application.
AppInv == AppTypeOK /\ LockStep /\ AwaitsItsOwnRequest /\ ShownIsCurrent /\ Allocated
=============================================================================
