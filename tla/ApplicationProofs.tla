-------------------------- MODULE ApplicationProofs --------------------------
(***************************************************************************)
(* The application's invariants, for every number of identities and every  *)
(* set of notice kinds; and those of the runtime that hosts it, for every  *)
(* queue, every number of unpairs and every set of faults.                 *)
(***************************************************************************)
EXTENDS Application, ClientRuntime, FiniteSetTheorems, TLAPS

USE DEF NoEffect, Features, NextId, CanAllocate

\* Requesting an effect takes the next identity of its feature, records the
\* request and forgets none of the earlier ones.
LEMMA RequestRecords ==
    ASSUME AppTypeOK, NEW f \in Features, NEW r \in {"Read", "ArmRefresh", "ArmExpiry"},
           Request(f, r)
    PROVE  /\ next' \in [Features -> 0..LastId]
           /\ next'[f] = next[f] + 1 /\ next[f] \in 0..LastId
           /\ \A g \in Features : g # f => next'[g] = next[g]
           /\ requested' \subseteq Requests
           /\ requested \subseteq requested'
           /\ [feature |-> f, id |-> next[f] + 1, request |-> r] \in requested'
<1>1. /\ next \in [Features -> 0..LastId] /\ requested \subseteq Requests
      /\ next[f] \in 0..LastId /\ next[f] < LastId
  BY DEF AppTypeOK, Request
<1>2. next' = [next EXCEPT ![f] = @ + 1]
  BY DEF Request
<1>3. next[f] + 1 \in 1..LastId
  BY <1>1, LastIdAssumption
<1>4. /\ next' \in [Features -> 0..LastId] /\ next'[f] = next[f] + 1
      /\ \A g \in Features : g # f => next'[g] = next[g]
  BY <1>1, <1>2, <1>3, LastIdAssumption
<1>5. [feature |-> f, id |-> next[f] + 1, request |-> r] \in Requests
  BY <1>3 DEF Requests
<1>6. requested' = requested \cup {[feature |-> f, id |-> next[f] + 1, request |-> r]}
  BY DEF Request
<1> QED
  BY <1>1, <1>4, <1>5, <1>6

\* What an accepted input of one feature keeps: the feature's own share of the
\* invariant, stated for the availability feature.
AvailabilityPart ==
    /\ av \in [state : {"Stopped", "Reading", "ArmingRefresh", "Waiting"},
               effect : 0..LastId, surface : Surfaces]
    /\ av.effect = NoEffect <=> av.state = "Stopped"
    /\ av.state = "Reading" => WasRequested("availability", av.effect, "Read")
    /\ av.state \in {"ArmingRefresh", "Waiting"} =>
          WasRequested("availability", av.effect, "ArmRefresh")
    /\ history.retired.availability \subseteq 0..next["availability"]
    /\ av.state # "Stopped" => av.effect \notin history.retired.availability
    /\ av.effect <= next["availability"]
    /\ history.source \in 0..LastId
    /\ history.cut \in 0..next["availability"]
    /\ av.state = "Reading" => av.effect > history.cut
    /\ av.surface # "Unknown" => history.source > history.cut

\* The notice feature's share.
NoticePart ==
    /\ notice \in [state : {"Stopped", "Idle", "Arming", "Visible"},
                   effect : 0..LastId, kind : Kinds \cup {"None"}]
    /\ notice.effect = NoEffect <=> notice.state \in {"Stopped", "Idle"}
    /\ notice.state \in {"Arming", "Visible"} => WasRequested("notice", notice.effect, "ArmExpiry")
    /\ history.retired.notice \subseteq 0..next["notice"]
    /\ notice.effect # NoEffect => notice.effect \notin history.retired.notice
    /\ notice.effect <= next["notice"]

\* What both share.
CommonPart ==
    /\ running \in BOOLEAN
    /\ next \in [Features -> 0..LastId]
    /\ requested \subseteq Requests
    /\ history \in [retired : [availability : SUBSET (0..LastId), notice : SUBSET (0..LastId)],
                    source : 0..LastId, cut : 0..LastId]

\* The invariant is the three parts and the lock step.
LEMMA Parts == AppInv <=> AvailabilityPart /\ NoticePart /\ CommonPart /\ LockStep
<1>1. AppInv => AvailabilityPart /\ NoticePart /\ CommonPart /\ LockStep
  BY LastIdAssumption
  DEF AppInv, AppTypeOK, AwaitsItsOwnRequest, ShownIsCurrent, Allocated,
      AvailabilityPart, NoticePart, CommonPart
<1>2. ASSUME AvailabilityPart, NoticePart, CommonPart, LockStep PROVE AppInv
  <2>1. next["availability"] \in 0..LastId /\ next["notice"] \in 0..LastId
    BY <1>2 DEF CommonPart
  <2>2. AppTypeOK
    BY <1>2 DEF AppTypeOK, AvailabilityPart, NoticePart, CommonPart
  <2>3. AwaitsItsOwnRequest /\ ShownIsCurrent
    BY <1>2 DEF AwaitsItsOwnRequest, ShownIsCurrent, AvailabilityPart, NoticePart
  <2>4. Allocated
    BY <1>2, <2>1 DEF Allocated, AvailabilityPart, NoticePart
  <2> QED BY <1>2, <2>2, <2>3, <2>4 DEF AppInv
<1> QED BY <1>1, <1>2

\* What the properties remember after a step, and that it keeps its type.
LEMMA Remembered ==
    ASSUME AppInv, NEW source \in 0..LastId, NEW cut \in 0..LastId, RememberAs(source, cut)
    PROVE  /\ history'.retired.availability =
                history.retired.availability \cup ({av.effect} \ {av'.effect})
           /\ history'.retired.notice =
                history.retired.notice \cup ({notice.effect} \ {notice'.effect})
           /\ history'.source = source /\ history'.cut = cut
           /\ history' \in [retired : [availability : SUBSET (0..LastId),
                                       notice : SUBSET (0..LastId)],
                            source : 0..LastId, cut : 0..LastId]
<1>1. /\ history.retired.availability \subseteq 0..LastId
      /\ history.retired.notice \subseteq 0..LastId
      /\ av.effect \in 0..LastId /\ notice.effect \in 0..LastId
  BY DEF AppInv, AppTypeOK
<1> QED
  BY <1>1 DEF RememberAs, Retire

\* A step that leaves the notice feature alone keeps its share.
LEMMA NoticeKept ==
    ASSUME NoticePart, notice' = notice, requested \subseteq requested',
           next'["notice"] = next["notice"],
           history'.retired.notice = history.retired.notice
    PROVE  NoticePart'
  BY DEF NoticePart, WasRequested

\* A step that leaves the availability feature alone keeps its share.
LEMMA AvailabilityKept ==
    ASSUME AvailabilityPart, av' = av, requested \subseteq requested',
           next'["availability"] = next["availability"],
           history'.retired.availability = history.retired.availability,
           history'.source = history.source, history'.cut = history.cut
    PROVE  AvailabilityPart'
  BY DEF AvailabilityPart, WasRequested

\* Every initial state satisfies the invariant.
LEMMA AppInitially == AppInit => AppInv
<1> SUFFICES ASSUME AppInit PROVE AppInv
  OBVIOUS
<1>1. next["availability"] = 0 /\ next["notice"] = 0
  BY DEF AppInit
<1>2. AvailabilityPart
  BY <1>1, LastIdAssumption DEF AppInit, AvailabilityPart, AvailabilityStopped, Surfaces
<1>3. NoticePart
  BY <1>1, LastIdAssumption DEF AppInit, NoticePart, NoticeStopped
<1>4. CommonPart
  <2>1. running \in BOOLEAN /\ requested \subseteq Requests
    BY DEF AppInit
  <2>2. next \in [Features -> 0..LastId]
    BY LastIdAssumption DEF AppInit
  <2>3. history \in [retired : [availability : SUBSET (0..LastId), notice : SUBSET (0..LastId)],
                     source : 0..LastId, cut : 0..LastId]
    BY LastIdAssumption DEF AppInit
  <2> QED BY <2>1, <2>2, <2>3 DEF CommonPart
<1>5. LockStep
  BY DEF AppInit, LockStep, AvailabilityStopped, NoticeStopped
<1> QED
  BY <1>2, <1>3, <1>4, <1>5, Parts

-----------------------------------------------------------------------------
(* One lemma per kind of step of the availability feature.                 *)

\* The feature starts a read, or its refresh timer, under a new identity.
LEMMA AvailabilityRequests ==
    ASSUME AppInv, NEW r \in {"Read", "ArmRefresh"}, Request("availability", r),
           NEW surface \in Surfaces, NEW source \in 0..LastId,
           NEW cut \in 0..next["availability"], RememberAs(source, cut),
           av' = [state |-> IF r = "Read" THEN "Reading" ELSE "ArmingRefresh",
                  effect |-> NextId("availability"), surface |-> surface],
           surface # "Unknown" => source > cut
    PROVE  AvailabilityPart'
<1> DEFINE n == next["availability"]
<1>1. AppTypeOK /\ AvailabilityPart
  BY Parts DEF AppInv
<1>2. /\ next' \in [Features -> 0..LastId] /\ next'["availability"] = n + 1 /\ n \in 0..LastId
      /\ [feature |-> "availability", id |-> n + 1, request |-> r] \in requested'
  BY <1>1, RequestRecords
<1>3. n + 1 \in 1..LastId
  BY <1>2, LastIdAssumption
<1>4. cut \in 0..LastId
  BY <1>2, LastIdAssumption
<1>5. /\ history'.retired.availability =
           history.retired.availability \cup ({av.effect} \ {av'.effect})
      /\ history'.source = source /\ history'.cut = cut
  BY <1>4, Remembered
<1>6. av'.effect = n + 1 /\ av'.surface = surface
      /\ av'.state = IF r = "Read" THEN "Reading" ELSE "ArmingRefresh"
  OBVIOUS
<1>7. /\ history.retired.availability \subseteq 0..n
      /\ av.effect \in 0..n
  BY <1>1, <1>2, LastIdAssumption DEF AvailabilityPart
<1>8. /\ history'.retired.availability \subseteq 0..(n + 1)
      /\ av'.effect \notin history'.retired.availability
  BY <1>2, <1>5, <1>6, <1>7
<1>9. av' \in [state : {"Stopped", "Reading", "ArmingRefresh", "Waiting"},
               effect : 0..LastId, surface : Surfaces]
  BY <1>3, LastIdAssumption
<1>10. /\ (av.state = "Reading" => WasRequested("availability", av.effect, "Read"))'
       /\ (av.state \in {"ArmingRefresh", "Waiting"} =>
             WasRequested("availability", av.effect, "ArmRefresh"))'
  BY <1>2, <1>6 DEF WasRequested
<1>11. av'.effect # NoEffect /\ av'.state # "Stopped"
  BY <1>3, <1>6
<1>12. /\ history'.source \in 0..LastId /\ history'.cut \in 0..next'["availability"]
       /\ av'.effect <= next'["availability"] /\ av'.effect > history'.cut
  BY <1>2, <1>5, <1>6
<1>13. history'.retired.availability \subseteq 0..next'["availability"]
  BY <1>2, <1>8
<1>14. av'.surface # "Unknown" => history'.source > history'.cut
  BY <1>5, <1>6
<1> QED
  BY <1>8, <1>9, <1>10, <1>11, <1>12, <1>13, <1>14 DEF AvailabilityPart

\* The feature stops, or keeps its effect: an invalidation that finds no read,
\* an armed timer.
LEMMA AvailabilityRests ==
    ASSUME AppInv, UNCHANGED <<next, requested>>,
           NEW cut \in 0..next["availability"], RememberAs(history.source, cut),
           \/ av' = AvailabilityStopped
           \/ /\ av.state \in {"ArmingRefresh", "Waiting"}
              /\ \/ av' = [av EXCEPT !.surface = "Unknown"]
                 \/ av' = [av EXCEPT !.state = "Waiting"] /\ cut = history.cut
    PROVE  AvailabilityPart'
<1>1. AvailabilityPart /\ next["availability"] \in 0..LastId /\ history.source \in 0..LastId
  BY Parts DEF AvailabilityPart, CommonPart
<1>2. cut \in 0..LastId
  BY <1>1, LastIdAssumption
<1>3. /\ history'.retired.availability =
           history.retired.availability \cup ({av.effect} \ {av'.effect})
      /\ history'.source = history.source /\ history'.cut = cut
  BY <1>1, <1>2, Remembered
<1>4. history'.retired.availability \subseteq 0..next'["availability"]
  BY <1>1, <1>3, LastIdAssumption DEF AvailabilityPart
<1>5. CASE av' = AvailabilityStopped
  BY <1>1, <1>3, <1>4, <1>5, LastIdAssumption DEF AvailabilityPart, AvailabilityStopped, Surfaces
<1>6. CASE av.state \in {"ArmingRefresh", "Waiting"} /\ av' = [av EXCEPT !.surface = "Unknown"]
  <2>1. /\ av'.effect = av.effect /\ av'.state = av.state /\ av'.surface = "Unknown"
        /\ av' \in [state : {"Stopped", "Reading", "ArmingRefresh", "Waiting"},
                    effect : 0..LastId, surface : Surfaces]
    BY <1>1, <1>6 DEF AvailabilityPart, Surfaces
  <2>2. history'.retired.availability = history.retired.availability
    BY <1>3, <2>1
  <2> QED
    BY <1>1, <1>3, <1>4, <1>6, <2>1, <2>2 DEF AvailabilityPart, WasRequested
<1>7. CASE /\ av.state \in {"ArmingRefresh", "Waiting"}
           /\ av' = [av EXCEPT !.state = "Waiting"] /\ cut = history.cut
  <2>1. /\ av'.effect = av.effect /\ av'.state = "Waiting" /\ av'.surface = av.surface
        /\ av' \in [state : {"Stopped", "Reading", "ArmingRefresh", "Waiting"},
                    effect : 0..LastId, surface : Surfaces]
    BY <1>1, <1>7 DEF AvailabilityPart
  <2>2. history'.retired.availability = history.retired.availability
    BY <1>3, <2>1
  <2> QED
    BY <1>1, <1>3, <1>4, <1>7, <2>1, <2>2 DEF AvailabilityPart, WasRequested
<1> QED
  BY <1>5, <1>6, <1>7

-----------------------------------------------------------------------------
(* The notice feature.                                                     *)

\* The feature shows a notice and asks for its timer.
LEMMA NoticeRequests ==
    ASSUME AppInv, Request("notice", "ArmExpiry"), Remember, NEW kind \in Kinds,
           notice' = NoticeShow(kind, NextId("notice"))
    PROVE  NoticePart'
<1> DEFINE n == next["notice"]
<1>1. AppTypeOK /\ NoticePart
  BY Parts DEF AppInv
<1>2. /\ next' \in [Features -> 0..LastId] /\ next'["notice"] = n + 1 /\ n \in 0..LastId
      /\ [feature |-> "notice", id |-> n + 1, request |-> "ArmExpiry"] \in requested'
  BY <1>1, RequestRecords
<1>3. n + 1 \in 1..LastId
  BY <1>2, LastIdAssumption
<1>4. history'.retired.notice =
        history.retired.notice \cup ({notice.effect} \ {notice'.effect})
  BY <1>1, Remembered DEF Remember, AppTypeOK
<1>5. notice'.effect = n + 1 /\ notice'.state = "Arming"
  BY DEF NoticeShow
<1>6. history.retired.notice \subseteq 0..n /\ notice.effect \in 0..n
  BY <1>1, <1>2, LastIdAssumption DEF NoticePart
<1>7. /\ history'.retired.notice \subseteq 0..next'["notice"]
      /\ notice'.effect \notin history'.retired.notice
  BY <1>2, <1>4, <1>5, <1>6
<1>8. notice' \in [state : {"Stopped", "Idle", "Arming", "Visible"},
                   effect : 0..LastId, kind : Kinds \cup {"None"}]
  BY <1>3, LastIdAssumption DEF NoticeShow
<1>9. WasRequested("notice", notice.effect, "ArmExpiry")'
  BY <1>2, <1>5 DEF WasRequested
<1>10. notice'.effect # NoEffect /\ notice'.effect <= next'["notice"]
  BY <1>2, <1>3, <1>5
<1> QED
  BY <1>5, <1>7, <1>8, <1>9, <1>10 DEF NoticePart

\* The feature stops, goes idle, or its armed notice stays.
LEMMA NoticeRests ==
    ASSUME AppInv, next'["notice"] = next["notice"], requested \subseteq requested',
           NEW source \in 0..LastId, NEW cut \in 0..LastId, RememberAs(source, cut),
           \/ notice' \in {NoticeStopped, NoticeIdle}
           \/ notice.state = "Arming" /\ notice' = [notice EXCEPT !.state = "Visible"]
    PROVE  NoticePart'
<1>1. NoticePart /\ next["notice"] \in 0..LastId
  BY Parts DEF CommonPart
<1>2. history'.retired.notice =
        history.retired.notice \cup ({notice.effect} \ {notice'.effect})
  BY Remembered
<1>3. history'.retired.notice \subseteq 0..next'["notice"]
  BY <1>1, <1>2, LastIdAssumption DEF NoticePart
<1>4. CASE notice' \in {NoticeStopped, NoticeIdle}
  BY <1>1, <1>3, <1>4, LastIdAssumption DEF NoticePart, NoticeStopped, NoticeIdle
<1>5. CASE notice.state = "Arming" /\ notice' = [notice EXCEPT !.state = "Visible"]
  <2>1. /\ notice'.effect = notice.effect /\ notice'.state = "Visible"
        /\ notice' \in [state : {"Stopped", "Idle", "Arming", "Visible"},
                        effect : 0..LastId, kind : Kinds \cup {"None"}]
    BY <1>1, <1>5 DEF NoticePart
  <2>2. history'.retired.notice = history.retired.notice
    BY <1>2, <2>1
  <2> QED
    BY <1>1, <1>3, <1>5, <2>1, <2>2 DEF NoticePart, WasRequested
<1> QED
  BY <1>4, <1>5

-----------------------------------------------------------------------------
\* Every step preserves the invariant.
LEMMA AppStep == AppInv /\ [AppNext]_appVars => AppInv'
<1> SUFFICES ASSUME AppInv, [AppNext]_appVars PROVE AppInv'
  OBVIOUS
<1>0. AvailabilityPart' /\ NoticePart' /\ CommonPart' /\ LockStep' => AppInv'
  BY Parts, PTL
<1>1. AppTypeOK /\ AvailabilityPart /\ NoticePart /\ CommonPart /\ LockStep
  BY Parts DEF AppInv
<1>2. /\ history.source \in 0..LastId /\ history.cut \in 0..LastId
      /\ history.cut \in 0..next["availability"]
      /\ next["availability"] \in 0..LastId /\ next["notice"] \in 0..LastId
  BY <1>1 DEF AvailabilityPart, CommonPart, AppTypeOK
<1>3. ASSUME NEW source \in 0..LastId, NEW cut \in 0..LastId, RememberAs(source, cut)
      PROVE  history' \in [retired : [availability : SUBSET (0..LastId),
                                      notice : SUBSET (0..LastId)],
                           source : 0..LastId, cut : 0..LastId]
  BY <1>3, Remembered
<1>4. ASSUME NEW f \in Features, NEW r \in {"Read", "ArmRefresh", "ArmExpiry"}, Request(f, r)
      PROVE  /\ next' \in [Features -> 0..LastId] /\ requested' \subseteq Requests
             /\ requested \subseteq requested'
             /\ \A g \in Features : g # f => next'[g] = next[g]
  BY <1>1, <1>4, RequestRecords
<1>5. CASE Start
  <2>1. Request("availability", "Read") /\ RememberAs(history.source, history.cut)
    BY <1>5 DEF Start, Remember
  <2>2. AvailabilityPart'
    <3>1. "Unknown" \in Surfaces /\ ("Unknown" # "Unknown" => history.source > history.cut)
      BY DEF Surfaces
    <3>2. av' = [state |-> IF "Read" = "Read" THEN "Reading" ELSE "ArmingRefresh",
                 effect |-> NextId("availability"), surface |-> "Unknown"]
      BY <1>5 DEF Start, AvailabilityStart
    <3> QED BY <1>2, <2>1, <3>1, <3>2, AvailabilityRequests
  <2>3. NoticePart'
    <3>1. notice' \in {NoticeStopped, NoticeIdle} /\ next'["notice"] = next["notice"]
          /\ requested \subseteq requested'
      BY <1>4, <1>5, <2>1 DEF Start
    <3> QED BY <1>2, <2>1, <3>1, NoticeRests
  <2>4. CommonPart'
    BY <1>2, <1>3, <1>4, <1>5, <2>1 DEF CommonPart, Start
  <2>5. LockStep'
    BY <1>5 DEF Start, LockStep, NoticeIdle
  <2> QED BY <2>2, <2>3, <2>4, <2>5, <1>0
<1>6. CASE Stop
  <2>1. UNCHANGED <<next, requested>> /\ RememberAs(history.source, history.cut)
    BY <1>6 DEF Stop, Remember, NoRequest
  <2>2. AvailabilityPart'
    BY <1>2, <1>6, <2>1, AvailabilityRests DEF Stop
  <2>3. NoticePart'
    BY <1>2, <1>6, <2>1, NoticeRests DEF Stop
  <2>4. CommonPart'
    BY <1>1, <1>2, <1>3, <1>6, <2>1 DEF CommonPart, Stop
  <2>5. LockStep'
    BY <1>6 DEF Stop, LockStep, NoticeStopped, AvailabilityStopped
  <2> QED BY <2>2, <2>3, <2>4, <2>5, <1>0
<1>7. CASE SessionInvalidated
  <2>1. RememberAs(history.source, next["availability"]) /\ running' = running
    BY <1>7 DEF SessionInvalidated
  <2>2. next["availability"] \in 0..next["availability"]
    BY <1>2
  <2>3. /\ next' \in [Features -> 0..LastId] /\ requested' \subseteq Requests
        /\ requested \subseteq requested' /\ next'["notice"] = next["notice"]
    BY <1>1, <1>4, <1>7 DEF SessionInvalidated, NoRequest, CommonPart
  <2>4. AvailabilityPart'
    <3>1. CASE av.state = "Reading"
      <4>1. Request("availability", "ArmRefresh")
        BY <1>7, <3>1 DEF SessionInvalidated
      <4>2. av' = [state |-> IF "ArmRefresh" = "Read" THEN "Reading" ELSE "ArmingRefresh",
                   effect |-> NextId("availability"), surface |-> "Unknown"]
        BY <1>7, <3>1 DEF SessionInvalidated, Invalidated, ReadCompleted, Expects
      <4>3. "Unknown" \in Surfaces
            /\ ("Unknown" # "Unknown" => history.source > next["availability"])
        BY DEF Surfaces
      <4> QED BY <1>2, <2>1, <2>2, <4>1, <4>2, <4>3, AvailabilityRequests
    <3>2. CASE av.state # "Reading"
      <4>1. UNCHANGED <<next, requested>> /\ av' = [av EXCEPT !.surface = "Unknown"]
        BY <1>7, <3>2 DEF SessionInvalidated, NoRequest, Invalidated
      <4>2. CASE av.state = "Stopped"
        <5>1. /\ av' \in [state : {"Stopped", "Reading", "ArmingRefresh", "Waiting"},
                          effect : 0..LastId, surface : Surfaces]
              /\ av'.state = "Stopped" /\ av'.effect = av.effect /\ av'.surface = "Unknown"
          BY <1>1, <4>1, <4>2 DEF AvailabilityPart, Surfaces
        <5>2. /\ history'.retired.availability =
                   history.retired.availability \cup ({av.effect} \ {av'.effect})
              /\ history'.source = history.source /\ history'.cut = next["availability"]
          BY <1>2, <2>1, Remembered
        <5> QED BY <1>1, <1>2, <2>2, <4>1, <4>2, <5>1, <5>2 DEF AvailabilityPart
      <4>3. CASE av.state # "Stopped"
        <5>1. av.state \in {"ArmingRefresh", "Waiting"}
          BY <1>1, <3>2, <4>3 DEF AvailabilityPart
        <5> QED BY <2>1, <2>2, <4>1, <5>1, AvailabilityRests
      <4> QED BY <4>2, <4>3
    <3> QED BY <3>1, <3>2
  <2>5. NoticePart'
    <3>1. CASE notice.state = "Stopped"
      <4>1. notice' = notice
        BY <1>7, <3>1 DEF SessionInvalidated, NoticeInvalidated
      <4>2. history'.retired.notice = history.retired.notice
        BY <1>2, <2>1, <4>1, Remembered
      <4> QED BY <1>1, <2>3, <4>1, <4>2, NoticeKept
    <3>2. CASE notice.state # "Stopped"
      <4>1. notice' \in {NoticeStopped, NoticeIdle}
        BY <1>7, <3>2 DEF SessionInvalidated, NoticeInvalidated
      <4> QED BY <1>2, <2>1, <2>3, <4>1, NoticeRests
    <3> QED BY <3>1, <3>2
  <2>6. CommonPart'
    BY <1>1, <1>2, <1>3, <2>1, <2>3 DEF CommonPart
  <2>7. LockStep'
    <3>1. av'.state = "Stopped" <=> av.state = "Stopped"
      BY <1>1, <1>7 DEF SessionInvalidated, Invalidated, ReadCompleted, Expects, AvailabilityPart
    <3>2. notice'.state = "Stopped" <=> notice.state = "Stopped"
      BY <1>7 DEF SessionInvalidated, NoticeInvalidated, NoticeIdle
    <3> QED BY <1>1, <2>1, <3>1, <3>2 DEF LockStep
  <2> QED BY <2>4, <2>5, <2>6, <2>7, <1>0
<1>8. ASSUME NEW id \in 1..LastId, NEW surface \in Surfaces, AvailabilityRead(id, surface)
      PROVE  AppInv'
  <2>1. /\ Request("availability", "ArmRefresh") /\ RememberAs(id, history.cut)
        /\ av.state = "Reading" /\ av.effect = id
        /\ notice' = notice /\ running' = running
    BY <1>8 DEF AvailabilityRead, Expects
  <2>2. id \in 0..LastId /\ id > history.cut
    BY <1>1, <2>1 DEF AvailabilityPart
  <2>3. av' = [state |-> IF "ArmRefresh" = "Read" THEN "Reading" ELSE "ArmingRefresh",
               effect |-> NextId("availability"), surface |-> surface]
    BY <1>8, <2>1 DEF AvailabilityRead, ReadCompleted, Expects
  <2>4. AvailabilityPart'
    BY <1>2, <2>1, <2>2, <2>3, AvailabilityRequests
  <2>5. history'.retired.notice = history.retired.notice
    BY <1>2, <2>1, <2>2, Remembered
  <2>6. NoticePart'
    BY <1>1, <1>4, <2>1, <2>5, NoticeKept
  <2>7. CommonPart'
    BY <1>1, <1>2, <1>3, <1>4, <2>1, <2>2 DEF CommonPart
  <2>8. LockStep'
    BY <1>1, <2>1 DEF LockStep
  <2> QED BY <2>4, <2>6, <2>7, <2>8, <1>0
<1>9. ASSUME NEW id \in 1..LastId, NEW ok \in BOOLEAN, RefreshArmed(id, ok)
      PROVE  AppInv'
  <2>1. /\ UNCHANGED <<next, requested>> /\ RememberAs(history.source, history.cut)
        /\ av.state = "ArmingRefresh" /\ av.effect = id
        /\ running /\ notice' = notice /\ running' = running
    BY <1>9 DEF RefreshArmed, Expects, NoRequest, Remember
  <2>2. av' = AvailabilityStopped \/ av' = [av EXCEPT !.state = "Waiting"]
    BY <1>9, <2>1 DEF RefreshArmed, TimerArmCompleted, Expects
  <2>3. AvailabilityPart'
    BY <1>2, <2>1, <2>2, AvailabilityRests
  <2>4. history'.retired.notice = history.retired.notice
    BY <1>2, <2>1, Remembered
  <2>5. NoticePart'
    BY <1>1, <2>1, <2>4, NoticeKept
  <2>6. CommonPart'
    BY <1>1, <1>2, <1>3, <2>1 DEF CommonPart
  <2>7. LockStep'
    BY <1>1, <2>1 DEF LockStep
  <2> QED BY <2>3, <2>5, <2>6, <2>7, <1>0
<1>10. ASSUME NEW id \in 1..LastId, AvailabilityRefreshDue(id)
       PROVE  AppInv'
  <2>1. /\ Request("availability", "Read") /\ RememberAs(history.source, history.cut)
        /\ av.state = "Waiting" /\ av.effect = id
        /\ notice' = notice /\ running' = running /\ running
    BY <1>10 DEF AvailabilityRefreshDue, Expects, Remember
  <2>2. av.surface \in Surfaces /\ (av.surface # "Unknown" => history.source > history.cut)
    BY <1>1 DEF AvailabilityPart
  <2>3. av' = [state |-> IF "Read" = "Read" THEN "Reading" ELSE "ArmingRefresh",
               effect |-> NextId("availability"), surface |-> av.surface]
    BY <1>1, <1>10, <2>1 DEF AvailabilityRefreshDue, RefreshDue, Expects, AvailabilityPart
  <2>4. AvailabilityPart'
    BY <1>2, <2>1, <2>2, <2>3, AvailabilityRequests
  <2>5. history'.retired.notice = history.retired.notice
    BY <1>2, <2>1, Remembered
  <2>6. NoticePart'
    BY <1>1, <1>4, <2>1, <2>5, NoticeKept
  <2>7. CommonPart'
    BY <1>1, <1>2, <1>3, <1>4, <2>1 DEF CommonPart
  <2>8. LockStep'
    BY <1>1, <2>1 DEF LockStep
  <2> QED BY <2>4, <2>6, <2>7, <2>8, <1>0
<1>11. ASSUME NEW kind \in Kinds, Show(kind) PROVE AppInv'
  <2>1. /\ Request("notice", "ArmExpiry") /\ Remember
        /\ notice' = NoticeShow(kind, NextId("notice"))
        /\ av' = av /\ running' = running /\ running
    BY <1>11 DEF Show
  <2>2. NoticePart'
    BY <2>1, NoticeRequests
  <2>3. /\ history'.retired.availability = history.retired.availability
        /\ history'.source = history.source /\ history'.cut = history.cut
    BY <1>2, <2>1, Remembered DEF Remember
  <2>4. AvailabilityPart'
    BY <1>1, <1>4, <2>1, <2>3, AvailabilityKept
  <2>5. CommonPart'
    BY <1>1, <1>2, <1>3, <1>4, <2>1 DEF CommonPart, Remember
  <2>6. LockStep'
    BY <1>1, <2>1 DEF LockStep, NoticeShow
  <2> QED BY <2>2, <2>4, <2>5, <2>6, <1>0
<1>12. ASSUME UNCHANGED <<next, requested, av, running>>, Remember, running,
              \/ notice' = NoticeIdle
              \/ notice.state = "Arming" /\ notice' = [notice EXCEPT !.state = "Visible"]
       PROVE  AppInv'
  <2>1. RememberAs(history.source, history.cut)
    BY <1>12 DEF Remember
  <2>2. NoticePart'
    BY <1>2, <1>12, <2>1, NoticeRests
  <2>3. /\ history'.retired.availability = history.retired.availability
        /\ history'.source = history.source /\ history'.cut = history.cut
    BY <1>2, <1>12, <2>1, Remembered
  <2>4. AvailabilityPart'
    BY <1>1, <1>12, <2>3, AvailabilityKept
  <2>5. CommonPart'
    BY <1>1, <1>2, <1>3, <1>12, <2>1 DEF CommonPart
  <2>6. notice'.state # "Stopped"
    BY <1>1, <1>12 DEF NoticeIdle, NoticePart
  <2>7. LockStep'
    BY <1>1, <1>12, <2>6 DEF LockStep
  <2> QED BY <2>2, <2>4, <2>5, <2>7, <1>0
<1>13. CASE Clear
  BY <1>12, <1>13 DEF Clear, NoRequest
<1>14. ASSUME NEW id \in 1..LastId, NEW ok \in BOOLEAN, ExpiryArmed(id, ok) PROVE AppInv'
  BY <1>12, <1>14 DEF ExpiryArmed, NoRequest, NoticeTimerArmed, Expects
<1>15. ASSUME NEW id \in 1..LastId, ExpiryDue(id) PROVE AppInv'
  BY <1>12, <1>15 DEF ExpiryDue, NoRequest, NoticeExpired, Expects
<1>16. CASE UNCHANGED appVars
  BY <1>0, <1>1, <1>16
  DEF appVars, AvailabilityPart, NoticePart, CommonPart, LockStep, WasRequested
<1> QED
  BY <1>5, <1>6, <1>7, <1>8, <1>9, <1>10, <1>11, <1>13, <1>14, <1>15, <1>16 DEF AppNext, Effects

-----------------------------------------------------------------------------
\* The inductive invariant holds of every behaviour of the application.
THEOREM AppInvariance == AppSpec => []AppInv
<1>1. AppInit => AppInv
  BY AppInitially
<1>2. AppInv /\ [AppNext]_appVars => AppInv'
  BY AppStep
<1> QED
  BY <1>1, <1>2, PTL DEF AppSpec

\* Features and application start and stop together in every behaviour.
THEOREM FeaturesInLockStep == AppSpec => []LockStep
<1>1. AppInv => LockStep
  BY DEF AppInv
<1> QED
  BY <1>1, AppInvariance, PTL

\* No abandoned effect is ever awaited again, however many identities there
\* are and however late and often the shell answers.
THEOREM NoStaleEffect == AppSpec => []AwaitsItsOwnRequest
<1>1. AppInv => AwaitsItsOwnRequest
  BY DEF AppInv
<1> QED
  BY <1>1, AppInvariance, PTL

\* Nothing read before an invalidation is shown after it.
THEOREM NothingStaleShown == AppSpec => []ShownIsCurrent
<1>1. AppInv => ShownIsCurrent
  BY DEF AppInv
<1> QED
  BY <1>1, AppInvariance, PTL

-----------------------------------------------------------------------------
(***************************************************************************)
(* The client runtime.  What is shown is backed by the session, and where  *)
(* a new pairing is on its way to the UI thread nothing is shown and no    *)
(* answer of the present pairing comes before it.                          *)
(***************************************************************************)

CoreState ==
    [state : {"Stopped", "Reading", "ArmingRefresh", "Waiting"}, effect : Nat,
     surface : {"Unknown", "Available", "Unavailable"}]
ReadIdentity == [op : Nat, effect : Nat]
AdapterState ==
    [state : {"Disconnected", "Backoff", "Connecting", "Authenticated", "Stopped"},
     session : Nat, active : ReadIdentity, terminal : BOOLEAN]
UiState ==
    [core : CoreState, refresh : Nat, reconnect : BOOLEAN, adapter : AdapterState,
     connected : BOOLEAN, connecting : BOOLEAN, pending : Nat]
WorkerState ==
    [pc : {"control", "recv", "pair", "trusted", "connect", "read", "stopped"}, session : Nat,
     op : Nat, gen : Nat, connected : BOOLEAN, revoked : BOOLEAN, unpaired : BOOLEAN]
Results == {"ok", "terminal", "untrusted", Lost} \cup Answer
NetworkEvent ==
    [kind : {"Paired", "Connected", "ReadCompleted", "Closed", "WorkerStopped"}, session : Nat,
     op : Nat, result : Results, gen : Nat]
Control == {"Close", "Revoke", "Shutdown"}
OwnerRequest == [kind : {"PairStart", "Revoked", "Shutdown"}, gen : 0..ClientGenMax]
StoreState ==
    [peer : {"Paired", "Revoking", "Unpaired"}, gen : 0..ClientGenMax,
     unpair : {"none", "joining", "joined"}, open : BOOLEAN]

RuntimeTypeOK ==
    /\ ui \in UiState /\ worker \in WorkerState /\ store \in StoreState
    /\ acks \in [revocation : 0..ClientGenMax, shutdown : BOOLEAN]
    /\ commands \in Seq(Commands) /\ Len(commands) <= CommandMax
    /\ control \in Seq(Control) /\ events \in Seq(NetworkEvent) /\ requests \in Seq(OwnerRequest)

\* A connected adapter waits for no connection; a read in progress is one of a live
\* session, and the one the application waits for.
Linked(u) ==
    /\ u.connected => u.pending = NoId
    /\ u.adapter.active # NoRead =>
          /\ u.connected /\ u.adapter.state = "Authenticated"
          /\ Expects(u.core, "Reading", u.adapter.active.effect)

Revoking == \E i \in 1..Len(requests) : requests[i].kind = "Revoked"

\* Nothing is shown, or it will be taken off the screen.
Dark == ui.core.surface = "Unknown" \/ Revoking

ShownIsBacked ==
    Dark \/ (ui.connected /\ ui.adapter.state = "Authenticated" /\ store.peer = "Paired")

CommandIsSound(c) == c.kind = "Connect" => c.session # NoId

\* An answer is of a pairing so far; that of the present generation is of a pairing
\* that stands.
EventIsSound(m) ==
    /\ m.kind = "Connected" => m.session # NoId /\ m.result \in {"ok", "terminal", Lost}
    /\ m.kind = "ReadCompleted" => m.result \in Answer \cup {Lost}
    /\ m.kind = "ReadCompleted" /\ m.result # Lost =>
          m.gen <= store.gen /\ (m.gen = store.gen => store.peer = "Paired")

\* An answer that may be shown, and the news of a new pairing.
Current(m) == m.kind = "ReadCompleted" /\ m.result # Lost /\ StillPaired(m.gen)
IsNews(m) == m.kind = "Paired" /\ m.result # "untrusted"

\* News of a pairing finds nothing shown, and no answer of that pairing goes before.
NewsFindsDark ==
    \A i \in 1..Len(events) : IsNews(events[i]) =>
        Dark /\ \A j \in 1..(i - 1) : ~Current(events[j])

\* The worker is pairing, or has paired and is about to say so.
PairingUnderWay ==
    worker.unpaired /\ (worker.pc = "pair" \/ (worker.pc = "trusted" /\ store.peer = "Paired"))

PairingFindsDark ==
    PairingUnderWay => Dark /\ \A j \in 1..Len(events) : ~Current(events[j])

WorkerIsSound ==
    /\ worker.pc = "pair" /\ worker.unpaired => store.peer = "Unpaired"
    /\ worker.pc = "stopped" => ~worker.connected
    /\ worker.pc = "connect" => worker.session # NoId

\* Revocations are of generations so far; while the owner waits for a join, there
\* is no pairing.
StoreIsSound ==
    /\ store.unpair # "none" => store.peer = "Revoking"
    /\ acks.revocation <= store.gen
    /\ \A i \in 1..Len(requests) : requests[i].kind = "Revoked" => requests[i].gen <= store.gen

RevokeIsSent == \E i \in 1..Len(control) : control[i] = "Revoke"

\* A revocation that the UI thread has passed on closes the session, or has.
RevokeIsUnderWay ==
    store.unpair # "none" /\ (acks.revocation = store.gen \/ store.unpair = "joined") =>
        RevokeIsSent \/ (~worker.connected /\ worker.pc # "connect")

RuntimeInv ==
    /\ RuntimeTypeOK
    /\ Linked(ui)
    /\ ShownIsBacked
    /\ \A i \in 1..Len(commands) : CommandIsSound(commands[i])
    /\ \A i \in 1..Len(events) : EventIsSound(events[i])
    /\ NewsFindsDark /\ PairingFindsDark
    /\ WorkerIsSound /\ StoreIsSound /\ RevokeIsUnderWay

-----------------------------------------------------------------------------
\* The parts of the state have their fields.
LEMMA UiFields ==
    ASSUME NEW u \in UiState
    PROVE  /\ u.core \in CoreState /\ u.refresh \in Nat /\ u.reconnect \in BOOLEAN
           /\ u.adapter \in AdapterState /\ u.connected \in BOOLEAN /\ u.connecting \in BOOLEAN
           /\ u.pending \in Nat
BY DEF UiState

LEMMA AdapterFields ==
    ASSUME NEW a \in AdapterState
    PROVE  /\ a.state \in {"Disconnected", "Backoff", "Connecting", "Authenticated", "Stopped"}
           /\ a.session \in Nat /\ a.active \in ReadIdentity /\ a.terminal \in BOOLEAN
BY DEF AdapterState

LEMMA CoreFields ==
    ASSUME NEW c \in CoreState
    PROVE  /\ c.state \in {"Stopped", "Reading", "ArmingRefresh", "Waiting"} /\ c.effect \in Nat
           /\ c.surface \in {"Unknown", "Available", "Unavailable"}
BY DEF CoreState

\* There is always an identity that is not in use.
LEMMA FreshIsFree ==
    ASSUME NEW used, IsFiniteSet(used)
    PROVE  Fresh(used) \in Nat \ {0} /\ Fresh(used) \notin used
<1> DEFINE n == Cardinality(used)
           pool == 1..(n + 1)
<1>1. n \in Nat
  BY FS_CardinalityType
<1>2. IsFiniteSet(pool) /\ Cardinality(pool) = n + 1
  <2>1. 1 \in Int /\ n + 1 \in Int /\ ~(1 > n + 1) /\ (n + 1) - 1 + 1 = n + 1
    BY <1>1
  <2> HIDE DEF n
  <2> QED BY <2>1, FS_Interval
<1>3. ~(pool \subseteq used)
  <2>1. pool \in SUBSET used => Cardinality(pool) <= n
    BY FS_Subset
  <2> HIDE DEF pool, n
  <2> QED BY <1>1, <1>2, <2>1
<1>4. \E m \in pool : m \notin used
  BY <1>3
<1>5. Fresh(used) \in pool /\ Fresh(used) \notin used
  BY <1>4 DEF Fresh
<1> QED BY <1>1, <1>5

\* The values of a function on 1..n are finitely many.
LEMMA ValuesAreFinite ==
    ASSUME NEW n \in Nat, NEW f, f = [i \in 1..n |-> f[i]]
    PROVE  IsFiniteSet({f[i] : i \in 1..n})
<1> DEFINE T == {f[i] : i \in 1..n}
<1>1. IsFiniteSet(1..n)
  BY FS_Interval
<1>2. f \in Surjection(1..n, T)
  BY DEF Surjection
<1> HIDE DEF T
<1>3. IsFiniteSet(T)
  BY <1>1, <1>2, FS_Surjection
<1> QED BY <1>3 DEF T

\* The identities of the next effects.
LEMMA EffectsAreFresh ==
    ASSUME RuntimeTypeOK
    PROVE  Effect1 \in Nat /\ Effect2 \in Nat
<1>1. IsFiniteSet(EffectsInUse)
  <2>1. IsFiniteSet({ui.core.effect})
    BY FS_Singleton
  <2>2. IsFiniteSet({ui.core.effect} \cup {ui.refresh})
    BY <2>1, FS_AddElement
  <2>3. IsFiniteSet(({ui.core.effect} \cup {ui.refresh}) \cup {ui.adapter.active.effect})
    BY <2>2, FS_AddElement
  <2>4. EffectsInUse = ({ui.core.effect} \cup {ui.refresh}) \cup {ui.adapter.active.effect}
    BY DEF EffectsInUse
  <2> QED BY <2>3, <2>4
<1>2. IsFiniteSet(EffectsInUse \cup {Effect1})
  BY <1>1, FS_AddElement
<1> QED BY <1>1, <1>2, FreshIsFree DEF Effect1, Effect2

\* The identities in use are finitely many.
LEMMA IdentitiesAreFinite ==
    ASSUME RuntimeTypeOK
    PROVE  IsFiniteSet(SessionsInUse) /\ IsFiniteSet(OperationsInUse)
<1>1. Len(commands) \in Nat /\ Len(events) \in Nat
  BY DEF RuntimeTypeOK
<1>2. PICK nc \in Nat : nc = Len(commands)
  BY <1>1
<1>3. PICK ne \in Nat : ne = Len(events)
  BY <1>1
<1>4. IsFiniteSet({commands[i].session : i \in 1..nc})
  <2>1. PICK f : f = [i \in 1..nc |-> commands[i].session]
    OBVIOUS
  <2>2. IsFiniteSet({f[i] : i \in 1..nc})
    BY <2>1, ValuesAreFinite
  <2> QED BY <2>1, <2>2
<1>5. IsFiniteSet({events[i].session : i \in 1..ne})
  <2>1. PICK f : f = [i \in 1..ne |-> events[i].session]
    OBVIOUS
  <2>2. IsFiniteSet({f[i] : i \in 1..ne})
    BY <2>1, ValuesAreFinite
  <2> QED BY <2>1, <2>2
<1>6. IsFiniteSet({commands[i].op : i \in 1..nc})
  <2>1. PICK f : f = [i \in 1..nc |-> commands[i].op]
    OBVIOUS
  <2>2. IsFiniteSet({f[i] : i \in 1..nc})
    BY <2>1, ValuesAreFinite
  <2> QED BY <2>1, <2>2
<1>7. IsFiniteSet({events[i].op : i \in 1..ne})
  <2>1. PICK f : f = [i \in 1..ne |-> events[i].op]
    OBVIOUS
  <2>2. IsFiniteSet({f[i] : i \in 1..ne})
    BY <2>1, ValuesAreFinite
  <2> QED BY <2>1, <2>2
<1>8. IsFiniteSet({ui.pending, ui.adapter.session, worker.session})
  <2>1. IsFiniteSet({ui.pending} \cup {ui.adapter.session})
    BY FS_Singleton, FS_AddElement
  <2>2. IsFiniteSet(({ui.pending} \cup {ui.adapter.session}) \cup {worker.session})
    BY <2>1, FS_AddElement
  <2>3. {ui.pending, ui.adapter.session, worker.session}
          = ({ui.pending} \cup {ui.adapter.session}) \cup {worker.session}
    OBVIOUS
  <2> QED BY <2>2, <2>3
<1>9. IsFiniteSet({ui.adapter.active.op, worker.op})
  <2>1. IsFiniteSet({ui.adapter.active.op} \cup {worker.op})
    <3>1. IsFiniteSet({ui.adapter.active.op})
      BY FS_Singleton
    <3> QED BY <3>1, FS_AddElement
  <2>2. {ui.adapter.active.op, worker.op} = {ui.adapter.active.op} \cup {worker.op}
    OBVIOUS
  <2> QED BY <2>1, <2>2
<1>10. SessionsInUse = ({ui.pending, ui.adapter.session, worker.session}
                          \cup {commands[i].session : i \in 1..nc})
                          \cup {events[i].session : i \in 1..ne}
  BY <1>2, <1>3 DEF SessionsInUse, Elements
<1>11. OperationsInUse = ({ui.adapter.active.op, worker.op}
                          \cup {commands[i].op : i \in 1..nc})
                          \cup {events[i].op : i \in 1..ne}
  BY <1>2, <1>3 DEF OperationsInUse, Elements
<1>12. \A S, T : IsFiniteSet(S) /\ IsFiniteSet(T) => IsFiniteSet(S \cup T)
  BY FS_Union
<1> QED BY <1>4, <1>5, <1>6, <1>7, <1>8, <1>9, <1>10, <1>11, <1>12

\* The identities of the next session and the next operation.
LEMMA Identities ==
    ASSUME RuntimeTypeOK
    PROVE  FreshSession \in Nat \ {NoId} /\ FreshOperation \in Nat
BY IdentitiesAreFinite, FreshIsFree DEF FreshSession, FreshOperation, NoId

-----------------------------------------------------------------------------
(* The functions that the UI thread's handlers are made of.                *)

LEMMA NoReadIdentity == NoRead \in ReadIdentity
BY DEF NoRead, ReadIdentity, NoId, NoEffect

\* The adapter's transitions.
LEMMA AdapterMoves ==
    ASSUME NEW a \in AdapterState
    PROVE  /\ NewAdapter \in AdapterState /\ NewAdapter.active = NoRead /\ NewAdapter.state = "Disconnected"
           /\ Connecting(a) \in AdapterState /\ Connecting(a).active = a.active
           /\ ConnectionFailed(a) \in AdapterState /\ ConnectionFailed(a).active = a.active
           /\ a.state = "Stopped" => ConnectionFailed(a) = a
           /\ HelloRejected(a) \in AdapterState /\ HelloRejected(a).active = a.active
           /\ Disconnected(a) \in AdapterState
           /\ Disconnected(a).state = "Stopped" <=> a.state = "Stopped"
           /\ Disconnected(a).active = IF a.state = "Stopped" THEN a.active ELSE NoRead
           /\ StopAdapter(a) \in AdapterState /\ StopAdapter(a).active = NoRead
           /\ StopAdapter(a).state = "Stopped"
<1>1. /\ a.state \in {"Disconnected", "Backoff", "Connecting", "Authenticated", "Stopped"}
      /\ a.session \in Nat /\ a.active \in ReadIdentity /\ a.terminal \in BOOLEAN
  BY AdapterFields
<1>2. NewAdapter \in AdapterState /\ NewAdapter.active = NoRead /\ NewAdapter.state = "Disconnected"
  BY NoReadIdentity DEF NewAdapter, AdapterState, NoId
<1>3. Connecting(a) \in AdapterState /\ Connecting(a).active = a.active
  BY <1>1 DEF Connecting, AdapterState
<1>4. /\ ConnectionFailed(a) \in AdapterState /\ ConnectionFailed(a).active = a.active
      /\ a.state = "Stopped" => ConnectionFailed(a) = a
  BY <1>1 DEF ConnectionFailed, AdapterState
<1>5. HelloRejected(a) \in AdapterState /\ HelloRejected(a).active = a.active
  BY <1>1 DEF HelloRejected, AdapterState
<1>6. /\ Disconnected(a) \in AdapterState
      /\ Disconnected(a).state = "Stopped" <=> a.state = "Stopped"
      /\ Disconnected(a).active = IF a.state = "Stopped" THEN a.active ELSE NoRead
  BY <1>1, <1>2 DEF Disconnected, AdapterState, NewAdapter
<1>7. /\ StopAdapter(a) \in AdapterState /\ StopAdapter(a).active = NoRead
      /\ StopAdapter(a).state = "Stopped"
  BY <1>1, NoReadIdentity DEF StopAdapter, AdapterState, NoId
<1> QED BY <1>2, <1>3, <1>4, <1>5, <1>6, <1>7

LEMMA AdapterAuthenticates ==
    ASSUME NEW a \in AdapterState, NEW s \in Nat
    PROVE  /\ Authenticated(a, s) \in AdapterState /\ Authenticated(a, s).active = a.active
           /\ a.state = "Authenticated" => Authenticated(a, s).state = "Authenticated"
BY AdapterFields DEF Authenticated, AdapterState

\* The core's transitions: none shows an availability but the completion of a read.
LEMMA CoreMoves ==
    ASSUME NEW c \in CoreState, NEW e \in Nat, NEW id \in Nat
    PROVE  /\ \A s \in {"Unknown", "Available", "Unavailable"} :
                 /\ ReadCompleted(c, e, s, id) \in CoreState
                 /\ ReadCompleted(c, e, s, id).surface \in {s, c.surface}
           /\ \A ok \in BOOLEAN :
                 /\ TimerArmCompleted(c, e, ok) \in CoreState
                 /\ TimerArmCompleted(c, e, ok).surface \in {"Unknown", c.surface}
           /\ RefreshDue(c, e, id) \in CoreState /\ RefreshDue(c, e, id).surface = c.surface
           /\ RefreshDue(c, e, id) = c \/
                 (c.state = "Waiting" /\ Expects(RefreshDue(c, e, id), "Reading", id))
           /\ Invalidated(c, e) \in CoreState /\ Invalidated(c, e).surface = "Unknown"
<1>1. /\ c.state \in {"Stopped", "Reading", "ArmingRefresh", "Waiting"} /\ c.effect \in Nat
      /\ c.surface \in {"Unknown", "Available", "Unavailable"}
  BY CoreFields
<1>2. ASSUME NEW s \in {"Unknown", "Available", "Unavailable"}
      PROVE  /\ ReadCompleted(c, e, s, id) \in CoreState
             /\ ReadCompleted(c, e, s, id).surface \in {s, c.surface}
  BY <1>1 DEF ReadCompleted, CoreState
<1>3. ASSUME NEW ok \in BOOLEAN
      PROVE  /\ TimerArmCompleted(c, e, ok) \in CoreState
             /\ TimerArmCompleted(c, e, ok).surface \in {"Unknown", c.surface}
  <2>1. AvailabilityStopped \in CoreState /\ AvailabilityStopped.surface = "Unknown"
    BY DEF AvailabilityStopped, CoreState, NoEffect
  <2>2. [c EXCEPT !.state = "Waiting"] \in CoreState /\ [c EXCEPT !.state = "Waiting"].surface = c.surface
    BY <1>1 DEF CoreState
  <2> QED BY <2>1, <2>2 DEF TimerArmCompleted
<1>4. /\ RefreshDue(c, e, id) \in CoreState /\ RefreshDue(c, e, id).surface = c.surface
      /\ RefreshDue(c, e, id) = c \/
            (c.state = "Waiting" /\ Expects(RefreshDue(c, e, id), "Reading", id))
  BY <1>1 DEF RefreshDue, Expects, CoreState
<1>5. Invalidated(c, e) \in CoreState /\ Invalidated(c, e).surface = "Unknown"
  BY <1>1 DEF Invalidated, ReadCompleted, Expects, CoreState
<1> QED BY <1>2, <1>3, <1>4, <1>5

\* What two states of the UI thread have in common but for the core and the timers.
SameLink(v, u) ==
    /\ v.connected = u.connected /\ v.pending = u.pending /\ v.adapter.active = u.adapter.active

LEMMA ScheduleReconnectMoves ==
    ASSUME NEW u \in UiState
    PROVE  /\ ScheduleReconnect(u) \in UiState /\ SameLink(ScheduleReconnect(u), u)
           /\ ScheduleReconnect(u).core = u.core
<1>1. /\ u.core \in CoreState /\ u.refresh \in Nat /\ u.reconnect \in BOOLEAN
      /\ u.adapter \in AdapterState /\ u.connected \in BOOLEAN /\ u.connecting \in BOOLEAN
      /\ u.pending \in Nat
  BY UiFields
<1>2. PICK a \in AdapterState : a = ConnectionFailed(u.adapter) /\ a.active = u.adapter.active
  BY <1>1, AdapterMoves
<1>3. ScheduleReconnect(u) = u \/ ScheduleReconnect(u) = [u EXCEPT !.adapter = a, !.reconnect = TRUE]
  BY <1>2 DEF ScheduleReconnect
<1> QED BY <1>1, <1>2, <1>3 DEF UiState, SameLink

LEMMA ArmRefreshMoves ==
    ASSUME NEW u \in UiState, NEW e \in Nat
    PROVE  /\ ArmRefresh(u, e) \in UiState /\ SameLink(ArmRefresh(u, e), u)
           /\ ArmRefresh(u, e).adapter = u.adapter
           /\ ArmRefresh(u, e).core.surface \in {"Unknown", u.core.surface}
<1>1. /\ u.core \in CoreState /\ u.refresh \in Nat /\ u.reconnect \in BOOLEAN
      /\ u.adapter \in AdapterState /\ u.connected \in BOOLEAN /\ u.connecting \in BOOLEAN
      /\ u.pending \in Nat
  BY UiFields
<1>2. PICK c \in CoreState : c = TimerArmCompleted(u.core, e, TRUE)
                             /\ c.surface \in {"Unknown", u.core.surface}
  BY <1>1, CoreMoves
<1>3. ArmRefresh(u, e) = [u EXCEPT !.core = c, !.refresh = e]
  BY <1>2 DEF ArmRefresh
<1> QED BY <1>1, <1>2, <1>3 DEF UiState, SameLink

LEMMA InvalidateMoves ==
    ASSUME NEW u \in UiState, NEW e \in Nat
    PROVE  /\ InvalidateCore(u, e) \in UiState /\ SameLink(InvalidateCore(u, e), u)
           /\ InvalidateCore(u, e).core.surface = "Unknown"
<1>1. /\ u.core \in CoreState /\ u.refresh \in Nat /\ u.reconnect \in BOOLEAN
      /\ u.adapter \in AdapterState /\ u.connected \in BOOLEAN /\ u.connecting \in BOOLEAN
      /\ u.pending \in Nat
  BY UiFields
<1>2. PICK c \in CoreState : c = Invalidated(u.core, e) /\ c.surface = "Unknown"
  BY <1>1, CoreMoves
<1>3. PICK v : v = [u EXCEPT !.core = c]
  OBVIOUS
<1>4. v \in UiState /\ SameLink(v, u) /\ v.core.surface = "Unknown"
  BY <1>1, <1>2, <1>3 DEF UiState, SameLink
<1>5. InvalidateCore(u, e) = IF u.core.state = "Reading" THEN ArmRefresh(v, e) ELSE v
  BY <1>2, <1>3 DEF InvalidateCore
<1> QED BY <1>4, <1>5, ArmRefreshMoves DEF SameLink

\* The session ends: nothing is shown, unless the adapter was stopped before.
LEMMA DisconnectedMoves ==
    ASSUME NEW u \in UiState, NEW e \in Nat
    PROVE  /\ ProtocolDisconnected(u, e) \in UiState
           /\ ~ProtocolDisconnected(u, e).connected
           /\ ProtocolDisconnected(u, e).adapter.active \in {NoRead, u.adapter.active}
           /\ u.adapter.state # "Stopped" =>
                 /\ ProtocolDisconnected(u, e).core.surface = "Unknown"
                 /\ ProtocolDisconnected(u, e).adapter.active = NoRead
           /\ u.adapter.state = "Stopped" =>
                 ProtocolDisconnected(u, e).core = u.core
<1>1. /\ u.core \in CoreState /\ u.refresh \in Nat /\ u.reconnect \in BOOLEAN
      /\ u.adapter \in AdapterState /\ u.connected \in BOOLEAN /\ u.connecting \in BOOLEAN
      /\ u.pending \in Nat
  BY UiFields
<1>2. PICK a \in AdapterState : /\ a = Disconnected(u.adapter)
                                /\ a.active = IF u.adapter.state = "Stopped" THEN u.adapter.active ELSE NoRead
  BY <1>1, AdapterMoves
<1>3. PICK v : v = [u EXCEPT !.connected = FALSE, !.connecting = FALSE, !.pending = NoId, !.adapter = a]
  OBVIOUS
<1>4. v \in UiState /\ v.connected = FALSE /\ v.adapter = a /\ v.core = u.core
  BY <1>1, <1>2, <1>3 DEF UiState, NoId
<1>5. PICK w : w = IF v.reconnect THEN v ELSE ScheduleReconnect(v)
  OBVIOUS
<1>6. w \in UiState /\ w.connected = FALSE /\ w.adapter.active = a.active /\ w.core = u.core
  BY <1>4, <1>5, ScheduleReconnectMoves DEF SameLink
<1>7. ProtocolDisconnected(u, e) = IF u.adapter.state = "Stopped" THEN w ELSE InvalidateCore(w, e)
  BY <1>2, <1>3, <1>5 DEF ProtocolDisconnected
<1> QED BY <1>2, <1>6, <1>7, InvalidateMoves DEF SameLink

LEMMA ReadWhileDisconnectedMoves ==
    ASSUME NEW u \in UiState, NEW r \in Nat, NEW e \in Nat
    PROVE  /\ ReadWhileDisconnected(u, r, e) \in UiState
           /\ SameLink(ReadWhileDisconnected(u, r, e), u)
           /\ ReadWhileDisconnected(u, r, e).core.surface \in {"Unknown", u.core.surface}
<1>1. /\ u.core \in CoreState /\ u.refresh \in Nat /\ u.reconnect \in BOOLEAN
      /\ u.adapter \in AdapterState /\ u.connected \in BOOLEAN /\ u.connecting \in BOOLEAN
      /\ u.pending \in Nat
  BY UiFields
<1>2. PICK c \in CoreState : /\ c = ReadCompleted(u.core, r, "Unknown", e)
                             /\ c.surface \in {"Unknown", u.core.surface}
  BY <1>1, CoreMoves
<1>3. PICK v : v = [u EXCEPT !.core = c]
  OBVIOUS
<1>4. v \in UiState /\ SameLink(v, u) /\ v.core = c
  BY <1>1, <1>2, <1>3 DEF UiState, SameLink
<1>5. PICK w : w = ScheduleReconnect(v)
  OBVIOUS
<1>6. w \in UiState /\ SameLink(w, u) /\ w.core = c
  BY <1>4, <1>5, ScheduleReconnectMoves DEF SameLink
<1>7. ReadWhileDisconnected(u, r, e) \in {v, ArmRefresh(v, e), ArmRefresh(w, e)}
  BY <1>2, <1>3, <1>5 DEF ReadWhileDisconnected
<1> QED BY <1>2, <1>4, <1>6, <1>7, ArmRefreshMoves DEF SameLink

LEMMA TerminalMoves ==
    ASSUME NEW u \in UiState, NEW e \in Nat
    PROVE  /\ ProtocolTerminal(u, e) \in UiState
           /\ ~ProtocolTerminal(u, e).connected
           /\ ProtocolTerminal(u, e).adapter.active = u.adapter.active
           /\ ProtocolTerminal(u, e).core.surface = "Unknown"
<1>1. /\ u.core \in CoreState /\ u.refresh \in Nat /\ u.reconnect \in BOOLEAN
      /\ u.adapter \in AdapterState /\ u.connected \in BOOLEAN /\ u.connecting \in BOOLEAN
      /\ u.pending \in Nat
  BY UiFields
<1>2. PICK c \in CoreState : c = Invalidated(u.core, e) /\ c.surface = "Unknown"
  BY <1>1, CoreMoves
<1>3. PICK a \in AdapterState : a = HelloRejected(u.adapter) /\ a.active = u.adapter.active
  BY <1>1, AdapterMoves
<1>4. PICK d \in CoreState : d = TimerArmCompleted(c, e, FALSE) /\ d.surface = "Unknown"
  <2>1. \A ok \in BOOLEAN : /\ TimerArmCompleted(c, e, ok) \in CoreState
                            /\ TimerArmCompleted(c, e, ok).surface \in {"Unknown", c.surface}
    BY CoreMoves
  <2> QED BY <1>2, <2>1
<1>5. ProtocolTerminal(u, e) = [u EXCEPT !.connected = FALSE, !.connecting = FALSE, !.pending = NoId,
                       !.reconnect = FALSE, !.adapter = a, !.core = d]
  BY <1>1, <1>2, <1>3, <1>4 DEF ProtocolTerminal, UiState
<1>6. NoId \in Nat
  BY DEF NoId
<1> QED BY <1>1, <1>3, <1>4, <1>5, <1>6 DEF UiState

-----------------------------------------------------------------------------
(* What a step does to the channels.                                       *)

LEMMA TailMoves ==
    ASSUME NEW T, NEW q \in Seq(T), q # <<>>
    PROVE  /\ Head(q) \in T /\ Head(q) = q[1] /\ 1 \in 1..Len(q)
           /\ Tail(q) \in Seq(T) /\ Len(Tail(q)) = Len(q) - 1
           /\ \A i \in 1..Len(Tail(q)) : Tail(q)[i] = q[i + 1] /\ i + 1 \in 1..Len(q)
OBVIOUS

LEMMA AppendMoves ==
    ASSUME NEW T, NEW q \in Seq(T), NEW e \in T
    PROVE  /\ Append(q, e) \in Seq(T) /\ Len(Append(q, e)) = Len(q) + 1
           /\ \A i \in 1..Len(Append(q, e)) :
                 \/ i \in 1..Len(q) /\ Append(q, e)[i] = q[i]
                 \/ i = Len(q) + 1 /\ Append(q, e)[i] = e
           /\ \A i \in 1..Len(q) : i \in 1..Len(Append(q, e)) /\ Append(q, e)[i] = q[i]
OBVIOUS

LEMMA ConcatMoves ==
    ASSUME NEW T, NEW q \in Seq(T), NEW r \in Seq(T)
    PROVE  /\ q \o r \in Seq(T) /\ Len(q \o r) = Len(q) + Len(r)
           /\ \A i \in 1..Len(q \o r) :
                 \/ i \in 1..Len(q) /\ (q \o r)[i] = q[i]
                 \/ i - Len(q) \in 1..Len(r) /\ (q \o r)[i] = r[i - Len(q)]
OBVIOUS

\* What an answer says is still true, and none becomes current.
AnswersStay ==
    \A m \in NetworkEvent : EventIsSound(m) => EventIsSound(m)' /\ (Current(m)' => Current(m))

\* Messages that the worker may send: news only of the pairing it is at, and no
\* answer of the present pairing while it is pairing.
MaySend(ms) ==
    /\ ms \in Seq(NetworkEvent)
    /\ \A i \in 1..Len(ms) :
          /\ EventIsSound(ms[i])'
          /\ IsNews(ms[i]) => PairingUnderWay /\ i = 1
          /\ PairingUnderWay' => ~Current(ms[i])'

LEMMA TypesKnown ==
    ASSUME RuntimeInv
    PROVE  /\ ui \in UiState /\ worker \in WorkerState /\ store \in StoreState
           /\ acks \in [revocation : 0..ClientGenMax, shutdown : BOOLEAN]
           /\ commands \in Seq(Commands) /\ Len(commands) <= CommandMax
           /\ control \in Seq(Control) /\ events \in Seq(NetworkEvent)
           /\ requests \in Seq(OwnerRequest)
           /\ store.gen \in Nat /\ acks.revocation \in Nat
BY ClientGenAssumption DEF RuntimeInv, RuntimeTypeOK, StoreState

\* Events are sound, and news finds nothing shown, after an event was taken or some
\* were sent.
LEMMA EventsStay ==
    ASSUME RuntimeInv, AnswersStay, Dark => Dark',
           NEW ms, MaySend(ms), events' = events \o ms
    PROVE  /\ events' \in Seq(NetworkEvent)
           /\ \A i \in 1..Len(events') : EventIsSound(events[i])'
           /\ NewsFindsDark'
           /\ PairingUnderWay /\ PairingUnderWay' => PairingFindsDark'
<1>1. events \in Seq(NetworkEvent) /\ ms \in Seq(NetworkEvent)
  BY TypesKnown DEF MaySend
<1>2. PICK n \in Nat : n = Len(events)
  BY <1>1
<1>3. /\ events' \in Seq(NetworkEvent) /\ Len(events') = n + Len(ms) /\ Len(ms) \in Nat
      /\ \A i \in 1..Len(events') :
                 \/ i \in 1..n /\ events'[i] = events[i]
                 \/ i - n \in 1..Len(ms) /\ events'[i] = ms[i - n]
  BY <1>1, <1>2, ConcatMoves
<1>4. \A i \in 1..n : events[i] \in NetworkEvent /\ EventIsSound(events[i])
  BY <1>1, <1>2 DEF RuntimeInv
<1>5. \A i \in 1..n : EventIsSound(events[i])
                      => \A m : m = events[i] => EventIsSound(m)' /\ (Current(m)' => Current(m))
  BY <1>4 DEF AnswersStay
<1>6. \A i \in 1..Len(ms) : \A m : m = ms[i] =>
          /\ EventIsSound(m)' /\ (IsNews(m) => PairingUnderWay /\ i = 1)
          /\ PairingUnderWay' => ~Current(m)'
  BY DEF MaySend
<1>7. \A i \in 1..Len(events') : EventIsSound(events[i])'
  BY <1>3, <1>4, <1>5, <1>6
<1>8. ASSUME NEW i \in 1..Len(events'), IsNews(events'[i])
      PROVE  Dark' /\ \A j \in 1..(i - 1) : ~Current(events[j])'
  <2>1. CASE i \in 1..n /\ events'[i] = events[i]
    <3>1. Dark /\ \A j \in 1..(i - 1) : ~Current(events[j])
      BY <1>2, <1>8, <2>1 DEF RuntimeInv, NewsFindsDark
    <3>2. \A j \in 1..(i - 1) : j \in 1..n /\ j \in 1..Len(events') /\ events'[j] = events[j]
      BY <1>3, <2>1
    <3> QED BY <1>4, <1>5, <3>1, <3>2
  <2>2. CASE i - n \in 1..Len(ms) /\ events'[i] = ms[i - n]
    <3>1. PairingUnderWay /\ i - n = 1
      BY <1>6, <1>8, <2>2
    <3>2. Dark /\ \A j \in 1..n : ~Current(events[j])
      BY <1>2, <3>1 DEF RuntimeInv, PairingFindsDark
    <3>3. \A j \in 1..(i - 1) : j \in 1..n /\ j \in 1..Len(events') /\ events'[j] = events[j]
      BY <1>3, <3>1
    <3> QED BY <1>4, <1>5, <3>2, <3>3
  <2> QED BY <1>3, <2>1, <2>2
<1>9. ASSUME PairingUnderWay, PairingUnderWay' PROVE PairingFindsDark'
  <2>1. Dark /\ \A j \in 1..n : ~Current(events[j])
    BY <1>2, <1>9 DEF RuntimeInv, PairingFindsDark
  <2>2. \A j \in 1..Len(events') : ~Current(events[j])'
    BY <1>3, <1>4, <1>5, <1>6, <1>9, <2>1
  <2> QED BY <2>1, <2>2 DEF PairingFindsDark
<1>10. NewsFindsDark'
  BY <1>8 DEF NewsFindsDark, IsNews
<1> QED BY <1>3, <1>7, <1>9, <1>10

LEMMA EventIsTaken ==
    ASSUME RuntimeInv, AnswersStay, Dark => Dark', events # <<>>, events' = Tail(events)
    PROVE  /\ events' \in Seq(NetworkEvent)
           /\ \A i \in 1..Len(events') : EventIsSound(events[i])'
           /\ NewsFindsDark'
           /\ PairingUnderWay /\ PairingUnderWay' => PairingFindsDark'
<1>1. events \in Seq(NetworkEvent)
  BY TypesKnown
<1>2. PICK n \in Nat : n = Len(events)
  BY <1>1
<1>3. /\ events' \in Seq(NetworkEvent) /\ Len(events') = n - 1
      /\ \A i \in 1..(n - 1) : events'[i] = events[i + 1] /\ i + 1 \in 1..n
  BY <1>1, <1>2, TailMoves
<1>4. \A i \in 1..n : events[i] \in NetworkEvent /\ EventIsSound(events[i])
  BY <1>1, <1>2 DEF RuntimeInv
<1>5. \A i \in 1..n : EventIsSound(events[i])
                      => \A m : m = events[i] => EventIsSound(m)' /\ (Current(m)' => Current(m))
  BY <1>4 DEF AnswersStay
<1>6. \A i \in 1..Len(events') : EventIsSound(events[i])'
  BY <1>3, <1>4, <1>5
<1>7. ASSUME NEW i \in 1..Len(events'), IsNews(events'[i])
      PROVE  Dark' /\ \A j \in 1..(i - 1) : ~Current(events[j])'
  <2>1. Dark /\ \A j \in 1..((i + 1) - 1) : ~Current(events[j])
    BY <1>2, <1>3, <1>7 DEF RuntimeInv, NewsFindsDark
  <2>2. \A j \in 1..(i - 1) : /\ j + 1 \in 1..((i + 1) - 1) /\ j + 1 \in 1..n
                              /\ j \in 1..(n - 1) /\ events'[j] = events[j + 1]
    BY <1>3
  <2>3. \A j \in 1..(i - 1) : ~Current(events[j])'
    BY <1>4, <1>5, <2>1, <2>2
  <2> QED BY <2>1, <2>3
<1>8. ASSUME PairingUnderWay, PairingUnderWay' PROVE PairingFindsDark'
  <2>1. Dark /\ \A j \in 1..n : ~Current(events[j])
    BY <1>2, <1>8 DEF RuntimeInv, PairingFindsDark
  <2>2. \A j \in 1..Len(events') : ~Current(events[j])'
    BY <1>3, <1>4, <1>5, <2>1
  <2> QED BY <2>1, <2>2 DEF PairingFindsDark
<1>9. NewsFindsDark'
  BY <1>7 DEF NewsFindsDark, IsNews
<1> QED BY <1>3, <1>6, <1>8, <1>9

\* Nothing of the events changes.
LEMMA EventsUnmoved ==
    ASSUME RuntimeInv, AnswersStay, Dark => Dark', events' = events
    PROVE  /\ events' \in Seq(NetworkEvent)
           /\ \A i \in 1..Len(events') : EventIsSound(events[i])'
           /\ NewsFindsDark'
           /\ PairingUnderWay /\ PairingUnderWay' => PairingFindsDark'
<1>1. PICK ms : ms = <<>>
  OBVIOUS
<1>2. MaySend(ms)
  BY <1>1 DEF MaySend
<1>3. events' = events \o ms
  BY <1>1, TypesKnown
<1> QED BY <1>2, <1>3, EventsStay

LEMMA CommandGrows ==
    ASSUME RuntimeInv, NEW m \in Control, Command(m)
    PROVE  /\ control' \in Seq(Control) /\ (RevokeIsSent => RevokeIsSent')
           /\ m = "Revoke" /\ worker.pc # "stopped" => RevokeIsSent'
<1>1. control \in Seq(Control)
  BY TypesKnown
<1>2. CASE worker.pc = "stopped"
  BY <1>1, <1>2 DEF Command, RevokeIsSent
<1>3. CASE worker.pc # "stopped"
  <2>1. control' = Append(control, m)
    BY <1>3 DEF Command
  <2>2. PICK n \in Nat : n = Len(control)
    BY <1>1
  <2>3. /\ control' \in Seq(Control) /\ Len(control') = n + 1
        /\ \A i \in 1..n : i \in 1..Len(control') /\ control'[i] = control[i]
        /\ n + 1 \in 1..Len(control') /\ control'[n + 1] = m
    BY <1>1, <2>1, <2>2
  <2>4. RevokeIsSent => RevokeIsSent'
    BY <2>2, <2>3 DEF RevokeIsSent
  <2>5. m = "Revoke" => RevokeIsSent'
    BY <2>3 DEF RevokeIsSent
  <2> QED BY <2>3, <2>4, <2>5
<1> QED BY <1>2, <1>3

\* A command that finds room.
LEMMA RoomIsKept ==
    ASSUME RuntimeInv, Room, NEW c \in Commands, CommandIsSound(c), commands' = Append(commands, c)
    PROVE  /\ commands' \in Seq(Commands) /\ Len(commands') <= CommandMax
           /\ \A i \in 1..Len(commands') : CommandIsSound(commands'[i])
<1>1. commands \in Seq(Commands) /\ Len(commands) < CommandMax
  BY TypesKnown DEF Room
<1>2. PICK n \in Nat : n = Len(commands)
  BY <1>1
<1>3. \A i \in 1..n : CommandIsSound(commands[i])
  BY <1>2 DEF RuntimeInv
<1>4. /\ commands' \in Seq(Commands) /\ Len(commands') = n + 1
      /\ \A i \in 1..Len(commands') :
            (i \in 1..n /\ commands'[i] = commands[i]) \/ commands'[i] = c
  BY <1>1, <1>2, AppendMoves
<1>5. n + 1 <= CommandMax
  BY <1>1, <1>2, CommandAssumption
<1> QED BY <1>3, <1>4, <1>5

\* A step of the UI thread that takes an event or none, and asks the worker for
\* something or nothing.
UiSends ==
    /\ commands' = commands \/ (Room /\ \E c \in Commands : /\ CommandIsSound(c)
                                                             /\ commands' = Append(commands, c))
    /\ control' = control \/ Command("Close")

\* What the UI thread newly shows is of a pairing that stands.
ShownWhilePaired == ui'.core.surface \notin {"Unknown", ui.core.surface} => store.peer = "Paired"

LEMMA UiKeeps ==
    ASSUME RuntimeInv, UNCHANGED <<acks, worker, requests, store>>, UiSends,
           events' = events \/ (events # <<>> /\ events' = Tail(events)),
           ui' \in UiState, Linked(ui'),
           ui'.core.surface \in {"Unknown", ui.core.surface},
           \/ Dark \/ ui'.core.surface = "Unknown"
           \/ ui.connected /\ ui.adapter.state = "Authenticated" =>
                 ui'.connected /\ ui'.adapter.state = "Authenticated"
    PROVE  RuntimeInv' /\ ShownWhilePaired
<1>1. /\ worker \in WorkerState /\ store \in StoreState
      /\ acks \in [revocation : 0..ClientGenMax, shutdown : BOOLEAN]
      /\ commands \in Seq(Commands) /\ Len(commands) <= CommandMax
      /\ control \in Seq(Control) /\ requests \in Seq(OwnerRequest)
  BY TypesKnown
<1>2. AnswersStay
  BY DEF AnswersStay, EventIsSound, Current, StillPaired
<1>3. (Dark => Dark') /\ (Dark' => (Dark \/ ui'.core.surface = "Unknown"))
  BY DEF Dark, Revoking
<1>4. /\ events' \in Seq(NetworkEvent)
      /\ \A i \in 1..Len(events') : EventIsSound(events[i])'
      /\ NewsFindsDark'
      /\ PairingUnderWay /\ PairingUnderWay' => PairingFindsDark'
  BY <1>2, <1>3, EventsUnmoved, EventIsTaken
<1>5. PairingUnderWay' => PairingUnderWay
  BY DEF PairingUnderWay
<1>6. PairingFindsDark'
  BY <1>4, <1>5 DEF PairingFindsDark
<1>7. /\ commands' \in Seq(Commands) /\ Len(commands') <= CommandMax
      /\ \A i \in 1..Len(commands') : CommandIsSound(commands'[i])
  BY <1>1, RoomIsKept DEF UiSends, RuntimeInv
<1>8. control' \in Seq(Control) /\ (RevokeIsSent => RevokeIsSent')
  <2>1. "Close" \in Control
    BY DEF Control
  <2> QED BY <1>1, <2>1, CommandGrows DEF UiSends, RevokeIsSent
<1>9. RuntimeTypeOK'
  BY <1>1, <1>4, <1>7, <1>8 DEF RuntimeTypeOK
<1>10. ShownIsBacked'
  BY <1>3 DEF RuntimeInv, ShownIsBacked, Dark, Revoking
<1>11. WorkerIsSound' /\ StoreIsSound' /\ RevokeIsUnderWay'
  BY <1>8 DEF RuntimeInv, WorkerIsSound, StoreIsSound, RevokeIsUnderWay
<1>12. \A i \in 1..Len(commands') : CommandIsSound(commands[i])'
  BY <1>7 DEF CommandIsSound
<1>13. ShownWhilePaired
  BY DEF ShownWhilePaired
<1> QED BY <1>4, <1>6, <1>9, <1>10, <1>11, <1>12, <1>13 DEF RuntimeInv, Linked

\* A step of the worker: nothing that the UI thread or the owner sees, but events.
WorkerTakes ==
    \/ commands' = commands \/ commands' = <<>>
    \/ commands # <<>> /\ commands' = Tail(commands)

LEMMA CommandsAreTaken ==
    ASSUME RuntimeInv, WorkerTakes
    PROVE  /\ commands' \in Seq(Commands) /\ Len(commands') <= CommandMax
           /\ \A i \in 1..Len(commands') : CommandIsSound(commands[i])'
<1>1. commands \in Seq(Commands) /\ Len(commands) <= CommandMax
  BY TypesKnown
<1>2. PICK n \in Nat : n = Len(commands)
  BY <1>1
<1>3. \A i \in 1..n : CommandIsSound(commands[i])
  BY <1>2 DEF RuntimeInv
<1>4. CASE commands' = <<>>
  BY <1>4, CommandAssumption
<1>5. CASE commands # <<>> /\ commands' = Tail(commands)
  <2>1. /\ commands' \in Seq(Commands) /\ Len(commands') = n - 1
        /\ \A i \in 1..Len(commands') : commands'[i] = commands[i + 1] /\ i + 1 \in 1..n
    BY <1>1, <1>2, <1>5, TailMoves
  <2>2. n - 1 <= CommandMax
    BY <1>1, <1>2, CommandAssumption
  <2> QED BY <1>3, <2>1, <2>2 DEF CommandIsSound
<1>6. CASE commands' = commands
  BY <1>1, <1>2, <1>3, <1>6 DEF CommandIsSound
<1> QED BY <1>4, <1>5, <1>6 DEF WorkerTakes

LEMMA WorkerKeeps ==
    ASSUME RuntimeInv, UNCHANGED <<ui, acks, requests, store>>, WorkerTakes,
           worker' \in WorkerState, WorkerIsSound', control' \in Seq(Control),
           RevokeIsSent => RevokeIsSent' \/ (~worker'.connected /\ worker'.pc # "connect"),
           ~worker.connected /\ worker.pc # "connect" /\ store.peer # "Paired" =>
               ~worker'.connected /\ worker'.pc # "connect",
           PairingUnderWay' => PairingUnderWay \/ (store.peer # "Paired" /\ events' = events),
           NEW ms, MaySend(ms), events' = events \o ms
    PROVE  RuntimeInv'
<1>1. AnswersStay
  BY DEF AnswersStay, EventIsSound, Current, StillPaired
<1>2. (Dark => Dark') /\ (Dark' => Dark)
  BY DEF Dark, Revoking
<1>3. /\ events' \in Seq(NetworkEvent)
      /\ \A i \in 1..Len(events') : EventIsSound(events[i])'
      /\ NewsFindsDark'
      /\ PairingUnderWay /\ PairingUnderWay' => PairingFindsDark'
  BY <1>1, <1>2, EventsStay
<1>4. PairingFindsDark'
  <2>1. CASE PairingUnderWay' /\ store.peer # "Paired"
    <3>1. Dark
      BY <2>1 DEF RuntimeInv, ShownIsBacked
    <3>2. \A m : ~Current(m)'
      BY <2>1 DEF Current, StillPaired
    <3> QED BY <1>2, <3>1, <3>2 DEF PairingFindsDark
  <2> QED BY <1>3, <2>1 DEF PairingFindsDark
<1>5. /\ commands' \in Seq(Commands) /\ Len(commands') <= CommandMax
      /\ \A i \in 1..Len(commands') : CommandIsSound(commands[i])'
  BY CommandsAreTaken
<1>6. RuntimeTypeOK'
  BY <1>3, <1>5, TypesKnown DEF RuntimeTypeOK
<1>7. Linked(ui') /\ ShownIsBacked' /\ StoreIsSound'
  BY <1>2 DEF RuntimeInv, ShownIsBacked, Linked, StoreIsSound
<1>8. RevokeIsUnderWay'
  BY DEF RuntimeInv, RevokeIsUnderWay, StoreIsSound
<1> QED BY <1>3, <1>4, <1>5, <1>6, <1>7, <1>8 DEF RuntimeInv, Linked

\* A step of the owner.
LEMMA OwnerKeeps ==
    ASSUME RuntimeInv, UNCHANGED <<ui, acks, worker, commands, control, events>>,
           store' \in StoreState, AnswersStay, Dark => Dark', ShownIsBacked',
           requests' \in Seq(OwnerRequest), StoreIsSound', WorkerIsSound', RevokeIsUnderWay',
           PairingUnderWay' => PairingUnderWay
    PROVE  RuntimeInv'
<1>1. /\ events' \in Seq(NetworkEvent)
      /\ \A i \in 1..Len(events') : EventIsSound(events[i])'
      /\ NewsFindsDark'
      /\ PairingUnderWay /\ PairingUnderWay' => PairingFindsDark'
  BY EventsUnmoved
<1>2. PairingFindsDark'
  BY <1>1 DEF PairingFindsDark
<1>3. RuntimeTypeOK'
  BY <1>1, TypesKnown DEF RuntimeTypeOK
<1>4. \A i \in 1..Len(commands') : CommandIsSound(commands[i])'
  BY DEF RuntimeInv, CommandIsSound
<1>5. Linked(ui)'
  BY DEF RuntimeInv, Linked
<1> QED BY <1>1, <1>2, <1>3, <1>4, <1>5 DEF RuntimeInv

-----------------------------------------------------------------------------
(* The UI thread: network events.                                          *)

\* The event at the head of the channel.
LEMMA HeadIsSound ==
    ASSUME RuntimeInv, events # <<>>
    PROVE  /\ Head(events) \in NetworkEvent /\ EventIsSound(Head(events))
           /\ IsNews(Head(events)) => Dark
           /\ Current(Head(events)) => ~PairingUnderWay
           /\ Current(Head(events)) => \A i \in 1..Len(events) : ~IsNews(events[i])
<1>1. Head(events) = events[1] /\ 1 \in 1..Len(events) /\ Head(events) \in NetworkEvent
  BY TypesKnown, TailMoves
<1>2. EventIsSound(Head(events)) /\ (IsNews(Head(events)) => Dark)
  BY <1>1 DEF RuntimeInv, NewsFindsDark
<1>3. Current(Head(events)) => ~PairingUnderWay
  BY <1>1 DEF RuntimeInv, PairingFindsDark
<1>4. ASSUME Current(Head(events)), NEW i \in 1..Len(events) PROVE ~IsNews(events[i])
  <2>1. CASE i = 1
    BY <1>1, <1>4, <2>1 DEF IsNews, Current
  <2>2. CASE i # 1
    <3>1. 1 \in 1..(i - 1)
      BY <2>2
    <3> QED BY <1>1, <1>4, <3>1 DEF RuntimeInv, NewsFindsDark
  <2> QED BY <2>1, <2>2
<1> QED BY <1>1, <1>2, <1>3, <1>4

LEMMA HandlePairedKeeps ==
    ASSUME RuntimeInv, HandlePaired
    PROVE  RuntimeInv' /\ ShownWhilePaired
<1>1. PICK m : m = Head(events)
  OBVIOUS
<1>2. PICK u : u = [ui EXCEPT !.connected = FALSE, !.connecting = FALSE, !.adapter = NewAdapter]
  OBVIOUS
<1>3. /\ events # <<>> /\ m.kind = "Paired" /\ events' = Tail(events)
      /\ UNCHANGED <<acks, worker, commands, control, requests, store>>
      /\ ui' = CASE m.result = "untrusted" -> ui
                  [] m.result = "terminal" -> [u EXCEPT !.adapter = HelloRejected(@)]
                  [] OTHER -> ScheduleReconnect(u)
  BY <1>1, <1>2 DEF HandlePaired, Receive
<1>4. UiSends /\ UNCHANGED <<acks, worker, requests, store>>
  BY <1>3 DEF UiSends
<1>5. ui \in UiState /\ Linked(ui)
  BY TypesKnown DEF RuntimeInv
<1>6. CASE m.result = "untrusted"
  <2>1. ui' = ui
    BY <1>3, <1>6
  <2> QED BY <1>3, <1>4, <1>5, <2>1, UiKeeps
<1>7. CASE m.result # "untrusted"
  <2>1. Dark
    BY <1>1, <1>3, <1>7, HeadIsSound DEF IsNews
  <2>2. NewAdapter \in AdapterState /\ NewAdapter.active = NoRead
    BY <1>5, UiFields, AdapterMoves
  <2>3. /\ u \in UiState /\ u.connected = FALSE /\ u.adapter.active = NoRead
        /\ u.core = ui.core /\ u.adapter = NewAdapter
    BY <1>2, <1>5, <2>2 DEF UiState
  <2>4. PICK v : v = [u EXCEPT !.adapter = HelloRejected(@)]
    OBVIOUS
  <2>5. v \in UiState /\ v.connected = FALSE /\ v.adapter.active = NoRead /\ v.core = ui.core
    <3>1. PICK a \in AdapterState : a = HelloRejected(u.adapter) /\ a.active = NoRead
      BY <2>2, <2>3, AdapterMoves
    <3>2. v = [u EXCEPT !.adapter = a]
      BY <2>4, <3>1
    <3> QED BY <2>3, <3>1, <3>2 DEF UiState
  <2>6. PICK w : w = ScheduleReconnect(u)
    OBVIOUS
  <2>7. w \in UiState /\ w.connected = FALSE /\ w.adapter.active = NoRead /\ w.core = ui.core
    BY <2>3, <2>6, ScheduleReconnectMoves DEF SameLink
  <2>8. ui' = v \/ ui' = w
    BY <1>3, <1>7, <2>4, <2>6
  <2>9. ui' \in UiState /\ Linked(ui') /\ ui'.core.surface = ui.core.surface
    BY <2>5, <2>7, <2>8 DEF Linked
  <2> QED BY <1>3, <1>4, <2>1, <2>9, UiKeeps
<1> QED BY <1>6, <1>7

LEMMA HandleConnectedKeeps ==
    ASSUME RuntimeInv, HandleConnected
    PROVE  RuntimeInv' /\ ShownWhilePaired
<1>1. PICK m : m = Head(events)
  OBVIOUS
<1>2. PICK u : u = [ui EXCEPT !.connecting = FALSE, !.pending = NoId]
  OBVIOUS
<1>3. /\ events # <<>> /\ m.kind = "Connected" /\ events' = Tail(events)
      /\ UNCHANGED <<acks, worker, commands, control, requests, store>>
      /\ ui' = CASE ui.pending # m.session -> ui
                  [] ui.pending = m.session /\ m.result = "ok" ->
                        [u EXCEPT !.reconnect = FALSE, !.connected = TRUE,
                                  !.adapter = Authenticated(@, m.session)]
                  [] ui.pending = m.session /\ m.result = "terminal" ->
                        ProtocolTerminal(u, Effect1)
                  [] ui.pending = m.session /\ m.result = Lost ->
                        ScheduleReconnect(u)
  BY <1>1, <1>2 DEF HandleConnected, Receive
<1>4. UiSends /\ UNCHANGED <<acks, worker, requests, store>>
  BY <1>3 DEF UiSends
<1>5. ui \in UiState /\ Linked(ui) /\ Effect1 \in Nat
  BY TypesKnown, EffectsAreFresh DEF RuntimeInv
<1>6. CASE ui.pending # m.session
  <2>1. ui' = ui
    BY <1>3, <1>6
  <2> QED BY <1>3, <1>4, <1>5, <2>1, UiKeeps
<1>7. CASE ui.pending = m.session
  <2>1. m \in NetworkEvent /\ m.session # NoId /\ m.result \in {"ok", "terminal", Lost}
    BY <1>1, <1>3, HeadIsSound DEF EventIsSound
  <2>2. ui.connected = FALSE /\ ui.adapter.active = NoRead
    BY <1>5, <1>7, <2>1, UiFields DEF Linked
  <2>3. /\ u \in UiState /\ u.connected = FALSE /\ u.adapter = ui.adapter /\ u.core = ui.core
        /\ u.pending = NoId
    BY <1>2, <1>5, <2>2 DEF UiState, NoId
  <2>4. CASE m.result = "ok"
    <3>1. m.session \in Nat
      BY <2>1 DEF NetworkEvent
    <3>2. PICK a \in AdapterState : a = Authenticated(u.adapter, m.session) /\ a.active = NoRead
      BY <2>2, <2>3, <3>1, UiFields, AdapterAuthenticates
    <3>3. ui' = [u EXCEPT !.reconnect = FALSE, !.connected = TRUE, !.adapter = a]
      BY <1>3, <1>7, <2>4, <3>2 DEF Lost
    <3>4. /\ ui' \in UiState /\ ui'.pending = NoId /\ ui'.adapter.active = NoRead
          /\ ui'.core.surface = ui.core.surface
      BY <2>3, <3>2, <3>3 DEF UiState
    <3>5. Linked(ui')
      BY <3>4 DEF Linked
    <3> QED BY <1>3, <1>4, <2>2, <3>4, <3>5, UiKeeps
  <2>5. CASE m.result = "terminal"
    <3>1. ui' = ProtocolTerminal(u, Effect1)
      BY <1>3, <1>7, <2>5 DEF Lost
    <3>2. /\ ui' \in UiState /\ ~ui'.connected /\ ui'.adapter.active = NoRead
          /\ ui'.core.surface = "Unknown"
      BY <1>5, <2>2, <2>3, <3>1, TerminalMoves
    <3>3. Linked(ui')
      BY <3>2 DEF Linked
    <3> QED BY <1>3, <1>4, <3>2, <3>3, UiKeeps
  <2>6. CASE m.result = Lost
    <3>1. ui' = ScheduleReconnect(u)
      BY <1>3, <1>7, <2>6 DEF Lost
    <3>2. /\ ui' \in UiState /\ ui'.connected = FALSE /\ ui'.adapter.active = NoRead
          /\ ui'.core = ui.core
      BY <2>2, <2>3, <3>1, ScheduleReconnectMoves DEF SameLink
    <3>3. Linked(ui')
      BY <3>2 DEF Linked
    <3> QED BY <1>3, <1>4, <2>2, <3>2, <3>3, UiKeeps
  <2> QED BY <2>1, <2>4, <2>5, <2>6
<1> QED BY <1>6, <1>7

\* An answer is shown.
LEMMA AnswerIsShown ==
    ASSUME RuntimeInv, UNCHANGED <<acks, worker, commands, control, requests, store>>,
           events # <<>>, events' = Tail(events), Current(Head(events)),
           ui' \in UiState, Linked(ui'), ui'.connected, ui'.adapter.state = "Authenticated"
    PROVE  RuntimeInv'
<1>1. \A i \in 1..Len(events) : events[i] \in NetworkEvent /\ EventIsSound(events[i]) /\ ~IsNews(events[i])
  BY HeadIsSound, TypesKnown DEF RuntimeInv
<1>2. /\ events' \in Seq(NetworkEvent)
      /\ \A i \in 1..Len(events') : events'[i] = events[i + 1] /\ i + 1 \in 1..Len(events)
  BY TypesKnown, TailMoves
<1>3. \A i \in 1..Len(events') : EventIsSound(events[i])' /\ ~IsNews(events'[i])
  BY <1>1, <1>2 DEF EventIsSound
<1>4. NewsFindsDark'
  BY <1>3 DEF NewsFindsDark, IsNews
<1>5. ~PairingUnderWay'
  BY HeadIsSound DEF PairingUnderWay
<1>6. RuntimeTypeOK'
  BY <1>2, TypesKnown DEF RuntimeTypeOK
<1>7. store.peer = "Paired"
  BY DEF Current, StillPaired
<1>8. ShownIsBacked'
  BY <1>7 DEF ShownIsBacked
<1>9. \A i \in 1..Len(commands') : CommandIsSound(commands[i])'
  BY DEF RuntimeInv, CommandIsSound
<1>10. WorkerIsSound' /\ StoreIsSound' /\ RevokeIsUnderWay'
  BY DEF RuntimeInv, WorkerIsSound, StoreIsSound, RevokeIsUnderWay, RevokeIsSent
<1> QED BY <1>3, <1>4, <1>5, <1>6, <1>8, <1>9, <1>10 DEF RuntimeInv, Linked, PairingFindsDark

LEMMA HandleReadResultKeeps ==
    ASSUME RuntimeInv, HandleReadResult
    PROVE  RuntimeInv' /\ ShownWhilePaired
<1>1. PICK m : m = Head(events)
  OBVIOUS
<1>2. PICK v : v = [ui EXCEPT !.adapter.active = NoRead,
               !.core = ReadCompleted(@, ui.adapter.active.effect, Surface(m.result), Effect1)]
  OBVIOUS
<1>3. /\ events # <<>> /\ m.kind = "ReadCompleted" /\ events' = Tail(events)
      /\ UNCHANGED <<acks, worker, commands, control, requests, store>>
      /\ ui' = CASE m.result = Lost \/ ~StillPaired(m.gen) ->
                        ProtocolDisconnected(ui, Effect1)
                  [] m.result # Lost /\ StillPaired(m.gen)
                       /\ ui.connected /\ Accepts(ui.adapter, m.session, m.op) ->
                        IF v.core = ui.core THEN v ELSE ArmRefresh(v, Effect1)
                  [] OTHER -> ui
  BY <1>1, <1>2 DEF HandleReadResult, Receive
<1>4. UiSends /\ UNCHANGED <<acks, worker, requests, store>>
  BY <1>3 DEF UiSends
<1>5. ui \in UiState /\ Linked(ui) /\ Effect1 \in Nat
  BY TypesKnown, EffectsAreFresh DEF RuntimeInv
<1>6. CASE m.result = Lost \/ ~StillPaired(m.gen)
  <2>1. ui' = ProtocolDisconnected(ui, Effect1)
    BY <1>3, <1>6
  <2>2. /\ ui' \in UiState /\ ~ui'.connected
        /\ ui'.adapter.active \in {NoRead, ui.adapter.active}
        /\ ui.adapter.state # "Stopped" => ui'.core.surface = "Unknown" /\ ui'.adapter.active = NoRead
        /\ ui.adapter.state = "Stopped" => ui'.core = ui.core
    BY <1>5, <2>1, DisconnectedMoves
  <2>3. Linked(ui')
    BY <1>5, <2>2 DEF Linked
  <2> QED BY <1>3, <1>4, <2>2, <2>3, UiKeeps
<1>7. CASE m.result # Lost /\ StillPaired(m.gen) /\ ui.connected /\ Accepts(ui.adapter, m.session, m.op)
  <2>1. /\ Current(Head(events)) /\ store.peer = "Paired"
        /\ ui.adapter.state = "Authenticated" /\ m.result \in Answer
    BY <1>1, <1>3, <1>7, HeadIsSound DEF Current, StillPaired, Accepts, EventIsSound
  <2>2. Surface(m.result) \in {"Unknown", "Available", "Unavailable"}
    BY <2>1, AnswerAssumption DEF Surface
  <2>3. /\ ui.core \in CoreState /\ ui.adapter \in AdapterState /\ ui.adapter.active \in ReadIdentity
        /\ ui.adapter.active.effect \in Nat
    BY <1>5, UiFields, AdapterFields DEF ReadIdentity
  <2>4. PICK c \in CoreState : c = ReadCompleted(ui.core, ui.adapter.active.effect, Surface(m.result), Effect1)
    BY <1>5, <2>2, <2>3, CoreMoves
  <2>5. PICK a : a = [ui.adapter EXCEPT !.active = NoRead]
    OBVIOUS
  <2>6. a \in AdapterState /\ a.active = NoRead /\ a.state = "Authenticated"
    BY <2>1, <2>3, <2>5, NoReadIdentity DEF AdapterState
  <2>7. v = [ui EXCEPT !.adapter = a, !.core = c]
    BY <1>2, <1>5, <2>4, <2>5 DEF UiState
  <2>8. /\ v \in UiState /\ v.adapter = a /\ v.connected = ui.connected /\ v.pending = ui.pending
    BY <1>5, <2>4, <2>6, <2>7 DEF UiState
  <2>9. ui' = v \/ ui' = ArmRefresh(v, Effect1)
    BY <1>3, <1>7
  <2>10. /\ ui' \in UiState /\ ui'.adapter = a /\ ui'.connected = ui.connected
         /\ ui'.pending = ui.pending
    BY <1>5, <2>8, <2>9, ArmRefreshMoves DEF SameLink
  <2>11. Linked(ui')
    BY <1>5, <2>6, <2>10 DEF Linked
  <2>12. ShownWhilePaired
    BY <2>1 DEF ShownWhilePaired
  <2> QED BY <1>3, <1>7, <2>1, <2>6, <2>10, <2>11, <2>12, AnswerIsShown
<1>8. CASE ~(m.result = Lost \/ ~StillPaired(m.gen))
           /\ ~(m.result # Lost /\ StillPaired(m.gen) /\ ui.connected /\ Accepts(ui.adapter, m.session, m.op))
  <2>1. ui' = ui
    BY <1>3, <1>8
  <2> QED BY <1>3, <1>4, <1>5, <2>1, UiKeeps
<1> QED BY <1>6, <1>7, <1>8

-----------------------------------------------------------------------------
(* The UI thread: the acknowledgements, the owner's requests and the timers. *)

LEMMA RequestIsTaken ==
    ASSUME RuntimeInv, requests # <<>>, requests' = Tail(requests)
    PROVE  /\ requests' \in Seq(OwnerRequest) /\ Head(requests) \in OwnerRequest
           /\ Head(requests).kind = "Revoked" => Head(requests).gen <= store.gen
           /\ \A i \in 1..Len(requests') :
                 requests'[i].kind = "Revoked" => requests'[i].gen <= store.gen
           /\ Head(requests).kind # "Revoked" => (Revoking => Revoking')
           /\ Revoking' => Revoking
<1>1. requests \in Seq(OwnerRequest)
  BY TypesKnown
<1>2. PICK n \in Nat : n = Len(requests)
  BY <1>1
<1>3. /\ Head(requests) \in OwnerRequest /\ Head(requests) = requests[1] /\ 1 \in 1..n
      /\ requests' \in Seq(OwnerRequest) /\ Len(requests') = n - 1
      /\ \A i \in 1..(n - 1) : requests'[i] = requests[i + 1] /\ i + 1 \in 1..n
  BY <1>1, <1>2, TailMoves
<1>4. \A i \in 1..n : requests[i].kind = "Revoked" => requests[i].gen <= store.gen
  BY <1>2 DEF RuntimeInv, StoreIsSound
<1>5. Revoking' => Revoking
  BY <1>2, <1>3 DEF Revoking
<1>6. ASSUME Head(requests).kind # "Revoked", Revoking PROVE Revoking'
  <2>1. PICK i \in 1..n : requests[i].kind = "Revoked"
    BY <1>2, <1>6 DEF Revoking
  <2>2. i # 1
    BY <1>3, <1>6, <2>1
  <2>3. i - 1 \in 1..(n - 1) /\ (i - 1) + 1 = i
    BY <2>2
  <2>4. requests'[i - 1].kind = "Revoked" /\ i - 1 \in 1..Len(requests')
    BY <1>3, <2>1, <2>3
  <2> QED BY <2>4 DEF Revoking
<1> QED BY <1>3, <1>4, <1>5, <1>6

\* A step of the UI thread that leaves the events and the store.
LEMMA RequestKeeps ==
    ASSUME RuntimeInv, UNCHANGED <<worker, events, store>>,
           requests # <<>>, requests' = Tail(requests),
           ui' \in UiState, Linked(ui'),
           (ui' = ui /\ Head(requests).kind # "Revoked") \/ ui'.core.surface = "Unknown",
           commands' = commands \/ (Room /\ \E c \in Commands : /\ CommandIsSound(c)
                                                                /\ commands' = Append(commands, c)),
           control' \in Seq(Control), RevokeIsSent => RevokeIsSent',
           acks' \in [revocation : 0..ClientGenMax, shutdown : BOOLEAN],
           acks'.revocation <= store.gen,
           acks'.revocation = acks.revocation \/ RevokeIsSent'
             \/ (~worker.connected /\ worker.pc # "connect")
    PROVE  RuntimeInv' /\ ShownWhilePaired
<1>1. /\ requests' \in Seq(OwnerRequest)
      /\ \A i \in 1..Len(requests') :
                 requests'[i].kind = "Revoked" => requests'[i].gen <= store.gen
      /\ Head(requests).kind # "Revoked" => (Revoking => Revoking')
      /\ Revoking' => Revoking
  BY RequestIsTaken
<1>2. AnswersStay
  BY DEF AnswersStay, EventIsSound, Current, StillPaired
<1>3. (Dark => Dark') /\ (Dark' => Dark \/ ui'.core.surface = "Unknown")
  BY <1>1 DEF Dark
<1>4. /\ events' \in Seq(NetworkEvent)
      /\ \A i \in 1..Len(events') : EventIsSound(events[i])'
      /\ NewsFindsDark'
      /\ PairingUnderWay /\ PairingUnderWay' => PairingFindsDark'
  BY <1>2, <1>3, EventsUnmoved
<1>5. PairingFindsDark'
  BY <1>4 DEF PairingFindsDark, PairingUnderWay
<1>6. /\ commands' \in Seq(Commands) /\ Len(commands') <= CommandMax
      /\ \A i \in 1..Len(commands') : CommandIsSound(commands'[i])
  BY TypesKnown, RoomIsKept DEF RuntimeInv
<1>7. RuntimeTypeOK'
  BY <1>1, <1>4, <1>6, TypesKnown DEF RuntimeTypeOK
<1>8. ShownIsBacked'
  BY <1>3 DEF RuntimeInv, ShownIsBacked, Dark
<1>9. WorkerIsSound' /\ StoreIsSound'
  BY <1>1 DEF RuntimeInv, WorkerIsSound, StoreIsSound
<1>10. RevokeIsUnderWay'
  BY DEF RuntimeInv, RevokeIsUnderWay
<1>11. \A i \in 1..Len(commands') : CommandIsSound(commands[i])'
  BY <1>6 DEF CommandIsSound
<1>12. ShownWhilePaired
  BY DEF ShownWhilePaired
<1> QED BY <1>4, <1>5, <1>7, <1>8, <1>9, <1>10, <1>11, <1>12 DEF RuntimeInv, Linked

LEMMA HandleRevokedKeeps ==
    ASSUME RuntimeInv, HandleRevoked
    PROVE  RuntimeInv' /\ ShownWhilePaired
<1>1. PICK g : g = Head(requests).gen
  OBVIOUS
<1>2. PICK u : u = [ui EXCEPT !.connected = FALSE, !.connecting = FALSE, !.reconnect = FALSE,
                              !.adapter = StopAdapter(@)]
  OBVIOUS
<1>3. /\ requests # <<>> /\ Head(requests).kind = "Revoked" /\ requests' = Tail(requests)
      /\ ui' = InvalidateCore(u, Effect1) /\ acks' = [acks EXCEPT !.revocation = g]
      /\ Command("Revoke") /\ UNCHANGED <<worker, commands, events, store>>
  BY <1>1, <1>2 DEF HandleRevoked, Asked
<1>4. ui \in UiState /\ Effect1 \in Nat
  BY TypesKnown, EffectsAreFresh DEF RuntimeInv
<1>5. u \in UiState /\ u.connected = FALSE /\ u.adapter.active = NoRead
  <2>1. PICK a \in AdapterState : a = StopAdapter(ui.adapter) /\ a.active = NoRead
    BY <1>4, UiFields, AdapterMoves
  <2>2. u = [ui EXCEPT !.connected = FALSE, !.connecting = FALSE, !.reconnect = FALSE, !.adapter = a]
    BY <1>2, <2>1
  <2> QED BY <1>4, <2>1, <2>2 DEF UiState
<1>6. /\ ui' \in UiState /\ ui'.connected = FALSE /\ ui'.adapter.active = NoRead
      /\ ui'.core.surface = "Unknown"
  BY <1>3, <1>4, <1>5, InvalidateMoves DEF SameLink
<1>7. Linked(ui')
  BY <1>6 DEF Linked
<1>8. g \in 0..ClientGenMax /\ g <= store.gen
  BY <1>1, <1>3, RequestIsTaken DEF OwnerRequest
<1>9. acks' \in [revocation : 0..ClientGenMax, shutdown : BOOLEAN] /\ acks'.revocation <= store.gen
  BY <1>3, <1>8, TypesKnown
<1>10. /\ control' \in Seq(Control) /\ (RevokeIsSent => RevokeIsSent')
       /\ RevokeIsSent' \/ worker.pc = "stopped"
  BY <1>3, CommandGrows DEF Control
<1>11. worker.pc = "stopped" => ~worker.connected /\ worker.pc # "connect"
  BY DEF RuntimeInv, WorkerIsSound
<1> QED BY <1>3, <1>6, <1>7, <1>9, <1>10, <1>11, RequestKeeps

LEMMA HandlePairStartKeeps ==
    ASSUME RuntimeInv, HandlePairStart
    PROVE  RuntimeInv' /\ ShownWhilePaired
<1>1. /\ requests # <<>> /\ Head(requests).kind = "PairStart" /\ requests' = Tail(requests)
      /\ commands' = commands \/ (Room /\ commands' = Append(commands, PairCommand))
      /\ UNCHANGED <<ui, acks, worker, control, events, store>>
  BY DEF HandlePairStart, Asked
<1>2. PairCommand \in Commands /\ CommandIsSound(PairCommand)
  BY DEF PairCommand, Commands, CommandIsSound, NoId
<1>3. Linked(ui') /\ ui' \in UiState
  BY <1>1, TypesKnown DEF RuntimeInv
<1>4. /\ control' \in Seq(Control) /\ (RevokeIsSent => RevokeIsSent')
      /\ acks' \in [revocation : 0..ClientGenMax, shutdown : BOOLEAN]
      /\ acks'.revocation <= store.gen
  BY <1>1, TypesKnown DEF RevokeIsSent, RuntimeInv, StoreIsSound
<1> QED BY <1>1, <1>2, <1>3, <1>4, RequestKeeps

LEMMA HandleShutdownKeeps ==
    ASSUME RuntimeInv, HandleShutdown
    PROVE  RuntimeInv' /\ ShownWhilePaired
<1>1. /\ requests # <<>> /\ Head(requests).kind = "Shutdown" /\ requests' = Tail(requests)
      /\ acks' = [acks EXCEPT !.shutdown = TRUE]
      /\ Command("Shutdown") /\ UNCHANGED <<ui, worker, commands, events, store>>
  BY DEF HandleShutdown, Asked
<1>2. Linked(ui') /\ ui' \in UiState
  BY <1>1, TypesKnown DEF RuntimeInv
<1>3. /\ acks' \in [revocation : 0..ClientGenMax, shutdown : BOOLEAN]
      /\ acks'.revocation = acks.revocation /\ acks'.revocation <= store.gen
  BY <1>1, TypesKnown DEF RuntimeInv, StoreIsSound
<1>4. control' \in Seq(Control) /\ (RevokeIsSent => RevokeIsSent')
  BY <1>1, CommandGrows DEF Control
<1> QED BY <1>1, <1>2, <1>3, <1>4, RequestKeeps

\* A step of the UI thread that only acknowledges.
LEMMA AcknowledgementKeeps ==
    ASSUME RuntimeInv, UNCHANGED <<ui, worker, commands, control, requests>>,
           events # <<>>, events' = Tail(events),
           acks' \in [revocation : 0..ClientGenMax, shutdown : BOOLEAN],
           acks'.revocation <= store.gen,
           store' \in StoreState, store'.peer = store.peer, store'.gen = store.gen,
           store'.unpair # "none" => store.unpair # "none",
           store'.unpair # "none" /\ (acks'.revocation = store.gen \/ store'.unpair = "joined") =>
               acks.revocation = store.gen \/ store.unpair = "joined"
    PROVE  RuntimeInv' /\ ShownWhilePaired
<1>1. AnswersStay
  BY DEF AnswersStay, EventIsSound, Current, StillPaired
<1>2. (Dark => Dark') /\ (Dark' => Dark)
  BY DEF Dark, Revoking
<1>3. /\ events' \in Seq(NetworkEvent)
      /\ \A i \in 1..Len(events') : EventIsSound(events[i])'
      /\ NewsFindsDark'
      /\ PairingUnderWay /\ PairingUnderWay' => PairingFindsDark'
  BY <1>1, <1>2, EventIsTaken
<1>4. PairingFindsDark'
  BY <1>3 DEF PairingFindsDark, PairingUnderWay
<1>5. RuntimeTypeOK'
  BY <1>3, TypesKnown DEF RuntimeTypeOK
<1>6. ShownIsBacked' /\ Linked(ui')
  BY <1>2 DEF RuntimeInv, ShownIsBacked, Linked
<1>7. WorkerIsSound'
  BY DEF RuntimeInv, WorkerIsSound
<1>8. StoreIsSound'
  BY DEF RuntimeInv, StoreIsSound
<1>9. RevokeIsUnderWay'
  BY DEF RuntimeInv, RevokeIsUnderWay, RevokeIsSent
<1>10. \A i \in 1..Len(commands') : CommandIsSound(commands[i])'
  BY DEF RuntimeInv, CommandIsSound
<1>11. ShownWhilePaired
  BY DEF ShownWhilePaired
<1> QED BY <1>3, <1>4, <1>5, <1>6, <1>7, <1>8, <1>9, <1>10, <1>11 DEF RuntimeInv, Linked

LEMMA HandleClosedKeeps ==
    ASSUME RuntimeInv, HandleClosed
    PROVE  RuntimeInv' /\ ShownWhilePaired
<1>1. /\ events # <<>> /\ events' = Tail(events) /\ acks' = [acks EXCEPT !.revocation = 0]
      /\ store' = IF acks.revocation = store.gen /\ store.unpair = "joining"
                  THEN [store EXCEPT !.unpair = "joined"] ELSE store
      /\ UNCHANGED <<ui, worker, commands, control, requests>>
  BY DEF HandleClosed, Receive
<1>2. /\ store \in StoreState /\ store.gen \in Nat /\ acks.revocation \in Nat
      /\ acks \in [revocation : 0..ClientGenMax, shutdown : BOOLEAN]
  BY TypesKnown
<1>3. /\ acks' \in [revocation : 0..ClientGenMax, shutdown : BOOLEAN] /\ acks'.revocation = 0
  BY <1>1, <1>2, ClientGenAssumption
<1>4. acks.revocation <= store.gen
  BY DEF RuntimeInv, StoreIsSound
<1>5. /\ store' \in StoreState /\ store'.peer = store.peer /\ store'.gen = store.gen
      /\ store'.unpair # "none" => store.unpair # "none"
      /\ store'.unpair = "joined" => store.unpair = "joined" \/ acks.revocation = store.gen
  BY <1>1, <1>2 DEF StoreState
<1>6. 0 <= store.gen /\ (0 = store.gen => acks.revocation = store.gen)
  BY <1>2, <1>4
<1> QED BY <1>1, <1>3, <1>5, <1>6, AcknowledgementKeeps

LEMMA HandleWorkerStoppedKeeps ==
    ASSUME RuntimeInv, HandleWorkerStopped
    PROVE  RuntimeInv' /\ ShownWhilePaired
<1>1. /\ events # <<>> /\ events' = Tail(events) /\ acks' = [acks EXCEPT !.shutdown = FALSE]
      /\ UNCHANGED <<ui, worker, commands, control, requests, store>>
  BY DEF HandleWorkerStopped, Receive
<1>2. /\ acks' \in [revocation : 0..ClientGenMax, shutdown : BOOLEAN]
      /\ acks'.revocation = acks.revocation
  BY <1>1, TypesKnown
<1>3. acks'.revocation <= store.gen
  BY <1>2 DEF RuntimeInv, StoreIsSound
<1> QED BY <1>1, <1>2, <1>3, TypesKnown, AcknowledgementKeeps

LEMMA ReconnectTimerKeeps ==
    ASSUME RuntimeInv, ReconnectTimer
    PROVE  RuntimeInv' /\ ShownWhilePaired
<1>1. ui \in UiState /\ Linked(ui) /\ FreshSession \in Nat \ {NoId}
  BY TypesKnown, Identities DEF RuntimeInv
<1>2. PICK s \in Nat \ {NoId} : s = FreshSession
  BY <1>1
<1>3. PICK u : u = [ui EXCEPT !.reconnect = FALSE]
  OBVIOUS
<1>4. PICK a \in AdapterState : a = Connecting(ui.adapter) /\ a.active = ui.adapter.active
  BY <1>1, UiFields, AdapterMoves
<1>5. PICK v : v = [ui EXCEPT !.reconnect = FALSE, !.adapter = a]
  OBVIOUS
<1>6. /\ u \in UiState /\ u.connected = ui.connected /\ u.pending = ui.pending
      /\ u.adapter = ui.adapter /\ u.core = ui.core
      /\ v \in UiState /\ v.connected = ui.connected /\ v.adapter = a /\ v.core = ui.core
  BY <1>1, <1>3, <1>4, <1>5, UiFields DEF UiState
<1>7. /\ \/ ui' = u /\ UNCHANGED commands
         \/ /\ ~ui.connected /\ Room /\ ui' = [v EXCEPT !.connecting = TRUE, !.pending = s]
            /\ commands' = Append(commands, ConnectCommand(s))
         \/ ~ui.connected /\ ui' = [v EXCEPT !.pending = NoId] /\ UNCHANGED commands
      /\ UNCHANGED <<acks, worker, control, events, requests, store>>
  <2>1. [[ui EXCEPT !.reconnect = FALSE] EXCEPT !.adapter = Connecting(@)] = v
    BY <1>1, <1>4, <1>5 DEF UiState
  <2> QED BY <1>2, <1>3, <2>1 DEF ReconnectTimer
<1>8. CASE ui' = u /\ UNCHANGED commands
  <2>1. Linked(ui')
    BY <1>1, <1>6, <1>8 DEF Linked
  <2> QED BY <1>6, <1>7, <1>8, <2>1, UiKeeps DEF UiSends
<1>9. CASE /\ ~ui.connected /\ Room /\ ui' = [v EXCEPT !.connecting = TRUE, !.pending = s]
           /\ commands' = Append(commands, ConnectCommand(s))
  <2>1. ConnectCommand(s) \in Commands /\ CommandIsSound(ConnectCommand(s))
    BY <1>2 DEF ConnectCommand, Commands, CommandIsSound, NoId
  <2>2. UiSends
    BY <1>7, <1>9, <2>1 DEF UiSends
  <2>3. /\ ui' \in UiState /\ ui'.connected = FALSE /\ ui'.adapter = a /\ ui'.core = ui.core
    BY <1>2, <1>6, <1>9 DEF UiState
  <2>4. a.active = NoRead
    BY <1>1, <1>4, <1>9 DEF Linked
  <2>5. Linked(ui')
    BY <2>3, <2>4 DEF Linked
  <2> QED BY <1>7, <1>9, <2>2, <2>3, <2>5, UiKeeps
<1>10. CASE ~ui.connected /\ ui' = [v EXCEPT !.pending = NoId] /\ UNCHANGED commands
  <2>1. /\ ui' \in UiState /\ ui'.connected = FALSE /\ ui'.adapter = a /\ ui'.core = ui.core
    BY <1>6, <1>10 DEF UiState, NoId
  <2>2. a.active = NoRead
    BY <1>1, <1>4, <1>10 DEF Linked
  <2>3. Linked(ui')
    BY <2>1, <2>2 DEF Linked
  <2> QED BY <1>7, <1>10, <2>1, <2>3, UiKeeps DEF UiSends
<1> QED BY <1>7, <1>8, <1>9, <1>10

\* The read that the refresh timer starts: none was in progress.
LEMMA PerformReadKeeps ==
    ASSUME RuntimeInv, NEW u \in UiState, SameLink(u, ui), u.adapter = ui.adapter,
           ui.adapter.active = NoRead, u.core.surface = ui.core.surface,
           Expects(u.core, "Reading", Effect1), PerformRead(u),
           UNCHANGED <<acks, worker, events, requests, store>>
    PROVE  RuntimeInv' /\ ShownWhilePaired
<1>1. ui \in UiState /\ Linked(ui) /\ Effect1 \in Nat /\ Effect2 \in Nat /\ FreshOperation \in Nat
  BY TypesKnown, Identities, EffectsAreFresh DEF RuntimeInv
<1>2. PICK read : read = [op |-> FreshOperation, effect |-> Effect1]
  OBVIOUS
<1>3. PICK a : a = [u.adapter EXCEPT !.active = read]
  OBVIOUS
<1>4. PICK r : r = [u EXCEPT !.adapter = a]
  OBVIOUS
<1>5. /\ \/ /\ ~u.connected
            /\ ui' = ReadWhileDisconnected(u, Effect1, Effect2)
            /\ UNCHANGED <<commands, control>>
         \/ ui' = u /\ UNCHANGED <<commands, control>>
         \/ /\ u.connected /\ MayRead(u.adapter) /\ Room
            /\ ui' = r
            /\ commands' = Append(commands, ReadCommand(u.adapter.session, FreshOperation))
            /\ UNCHANGED control
         \/ /\ u.connected /\ MayRead(u.adapter)
            /\ ui' = ProtocolDisconnected(r, Effect2)
            /\ Command("Close")
            /\ UNCHANGED commands
  <2>1. [u EXCEPT !.adapter.active = [op |-> FreshOperation, effect |-> Effect1]] = r
    BY <1>2, <1>3, <1>4 DEF UiState
  <2> QED BY <2>1 DEF PerformRead
<1>6. /\ u.connected = ui.connected /\ u.pending = ui.pending /\ u.adapter.active = NoRead
      /\ u.connected => u.pending = NoId
  BY <1>1 DEF SameLink, Linked
<1>7. CASE /\ ~u.connected
           /\ ui' = ReadWhileDisconnected(u, Effect1, Effect2)
           /\ UNCHANGED <<commands, control>>
  <2>1. /\ ui' \in UiState /\ SameLink(ui', u) /\ ui'.core.surface \in {"Unknown", u.core.surface}
    BY <1>1, <1>7, ReadWhileDisconnectedMoves
  <2>2. Linked(ui')
    BY <1>6, <1>7, <2>1 DEF Linked, SameLink
  <2> QED BY <1>6, <1>7, <2>1, <2>2, UiKeeps DEF UiSends
<1>8. CASE ui' = u /\ UNCHANGED <<commands, control>>
  <2>1. Linked(ui')
    BY <1>6, <1>8 DEF Linked
  <2> QED BY <1>6, <1>8, <2>1, UiKeeps DEF UiSends
<1>9. ASSUME u.connected, MayRead(u.adapter)
      PROVE  /\ r \in UiState /\ r.adapter.active = read /\ r.adapter.state = "Authenticated"
             /\ r.connected /\ r.pending = NoId /\ r.core = u.core
  <2>1. read \in ReadIdentity
    BY <1>1, <1>2 DEF ReadIdentity
  <2>2. a \in AdapterState /\ a.active = read /\ a.state = "Authenticated"
    BY <1>3, <1>9, <2>1, UiFields DEF AdapterState, MayRead
  <2> QED BY <1>4, <1>6, <1>9, <2>2 DEF UiState
<1>10. CASE /\ u.connected /\ MayRead(u.adapter) /\ Room
            /\ ui' = r
            /\ commands' = Append(commands, ReadCommand(u.adapter.session, FreshOperation))
            /\ UNCHANGED control
  <2>1. u.adapter.session \in Nat
    BY UiFields, AdapterFields
  <2>2. PICK c : c = ReadCommand(u.adapter.session, FreshOperation)
    OBVIOUS
  <2>3. c \in Commands /\ CommandIsSound(c)
    BY <1>1, <2>1, <2>2 DEF ReadCommand, Commands, CommandIsSound
  <2>4. UiSends
    BY <1>10, <2>2, <2>3 DEF UiSends
  <2>5. Linked(ui')
    BY <1>2, <1>9, <1>10 DEF Linked
  <2> QED BY <1>9, <1>10, <2>4, <2>5, UiKeeps
<1>11. CASE /\ u.connected /\ MayRead(u.adapter)
            /\ ui' = ProtocolDisconnected(r, Effect2)
            /\ Command("Close")
            /\ UNCHANGED commands
  <2>1. /\ ui' \in UiState /\ ~ui'.connected /\ ui'.core.surface = "Unknown"
        /\ ui'.adapter.active = NoRead
    BY <1>1, <1>9, <1>11, DisconnectedMoves
  <2>2. Linked(ui')
    BY <2>1 DEF Linked
  <2> QED BY <1>11, <2>1, <2>2, UiKeeps DEF UiSends
<1> QED BY <1>5, <1>7, <1>8, <1>10, <1>11

LEMMA RefreshTimerKeeps ==
    ASSUME RuntimeInv, RefreshTimer
    PROVE  RuntimeInv' /\ ShownWhilePaired
<1>1. ui \in UiState /\ Linked(ui) /\ Effect1 \in Nat
  BY TypesKnown, EffectsAreFresh DEF RuntimeInv
<1>2. /\ ui.core \in CoreState /\ ui.refresh \in Nat
  BY <1>1, UiFields
<1>3. PICK c \in CoreState : /\ c = RefreshDue(ui.core, ui.refresh, Effect1)
                             /\ c.surface = ui.core.surface
                             /\ c = ui.core \/ (ui.core.state = "Waiting" /\ Expects(c, "Reading", Effect1))
  BY <1>1, <1>2, CoreMoves
<1>4. PICK due : due = [ui EXCEPT !.refresh = NoEffect, !.core = c]
  OBVIOUS
<1>5. /\ due \in UiState /\ SameLink(due, ui) /\ due.adapter = ui.adapter /\ due.core = c
  BY <1>1, <1>3, <1>4 DEF UiState, SameLink, NoEffect
<1>6. /\ \/ due.core = ui.core /\ ui' = due /\ UNCHANGED <<commands, control>>
         \/ due.core # ui.core /\ PerformRead(due)
      /\ UNCHANGED <<acks, worker, events, requests, store>>
  BY <1>3, <1>4 DEF RefreshTimer
<1>7. CASE due.core = ui.core /\ ui' = due /\ UNCHANGED <<commands, control>>
  <2>1. Linked(ui')
    BY <1>1, <1>5, <1>7 DEF Linked, SameLink
  <2> QED BY <1>5, <1>6, <1>7, <2>1, UiKeeps DEF UiSends, SameLink
<1>8. CASE due.core # ui.core /\ PerformRead(due)
  <2>1. ui.core.state = "Waiting" /\ Expects(c, "Reading", Effect1)
    BY <1>3, <1>5, <1>8
  <2>2. ui.adapter.active = NoRead
    BY <1>1, <2>1 DEF Linked, Expects
  <2> QED BY <1>3, <1>5, <1>6, <1>8, <2>1, <2>2, PerformReadKeeps
<1> QED BY <1>6, <1>7, <1>8

-----------------------------------------------------------------------------
(* The worker.                                                             *)

\* An event that brings neither news nor an answer to show.
Plain(m) ==
    /\ m \in NetworkEvent /\ m.kind # "Paired"
    /\ m.kind = "Connected" => m.session # NoId /\ m.result \in {"ok", "terminal", Lost}
    /\ m.kind = "ReadCompleted" => m.result = Lost

LEMMA PlainMaySend ==
    ASSUME NEW ms \in Seq(NetworkEvent), \A i \in 1..Len(ms) : Plain(ms[i])
    PROVE  MaySend(ms)
BY DEF MaySend, Plain, EventIsSound, IsNews, Current

LEMMA OneMaySend ==
    ASSUME NEW m, Plain(m)
    PROVE  MaySend(<<m>>)
<1>1. PICK ms : ms = <<m>>
  OBVIOUS
<1>2. ms \in Seq(NetworkEvent) /\ \A i \in 1..Len(ms) : Plain(ms[i])
  BY <1>1 DEF Plain
<1> QED BY <1>1, <1>2, PlainMaySend

LEMMA NoneMaySend == MaySend(<<>>)
BY DEF MaySend

\* Every place of an answer is that of a command that is answered.
LEMMA EveryPlaceIsTaken ==
    ASSUME NEW n \in Nat, NEW S \in SUBSET (1..n), NEW k \in 1..Cardinality(S)
    PROVE  \E i \in S : Cardinality({j \in S : j <= i}) = k
<1> DEFINE upto(i) == {j \in S : j <= i}
           T == 1..Cardinality(S)
<1>1. IsFiniteSet(S) /\ Cardinality(S) \in Nat
  <2>1. IsFiniteSet(1..n)
    BY FS_Interval
  <2> QED BY <2>1, FS_Subset, FS_CardinalityType
<1>2. IsFiniteSet(T) /\ Cardinality(T) = Cardinality(S)
  <2>1. PICK c \in Nat : c = Cardinality(S)
    BY <1>1
  <2>2. IsFiniteSet(1..c) /\ Cardinality(1..c) = c
    <3>1. 1 \in Int /\ c \in Int /\ Cardinality(1..c) = IF 1 > c THEN 0 ELSE c - 1 + 1
      BY FS_Interval
    <3> QED BY <3>1, FS_Interval
  <2> QED BY <2>1, <2>2
<1>3. ASSUME NEW i \in S
      PROVE  upto(i) \in SUBSET S /\ IsFiniteSet(upto(i)) /\ Cardinality(upto(i)) \in T
  <2>1. upto(i) \in SUBSET S
    OBVIOUS
  <2>2. IsFiniteSet(upto(i)) /\ Cardinality(upto(i)) <= Cardinality(S)
    BY <1>1, <2>1, FS_Subset
  <2>3. Cardinality(upto(i)) \in Nat
    BY <2>2, FS_CardinalityType
  <2>4. upto(i) # {}
    OBVIOUS
  <2>5. Cardinality(upto(i)) # 0
    BY <2>2, <2>4, FS_EmptySet
  <2> HIDE DEF upto
  <2> QED BY <1>1, <2>1, <2>2, <2>3, <2>5
<1>4. PICK f : f = [i \in S |-> Cardinality(upto(i))]
  OBVIOUS
<1>5. ASSUME NEW i \in S, NEW l \in S, i < l PROVE f[i] # f[l]
  <2>1. \A a, b, c \in 1..n : a <= b /\ b < c => a <= c
    OBVIOUS
  <2>2. upto(i) \in SUBSET upto(l)
    BY <1>5, <2>1
  <2>3. l \in upto(l) /\ l \notin upto(i)
    BY <1>5
  <2>4. IsFiniteSet(upto(l))
    BY <1>3
  <2> HIDE DEF upto
  <2>5. Cardinality(upto(l)) # Cardinality(upto(i))
    BY <2>2, <2>3, <2>4, FS_Subset
  <2> QED BY <1>4, <2>5
<1>6. \A i, l \in S : i < l \/ l < i \/ i = l
  OBVIOUS
<1>7. f \in [S -> T]
  BY <1>3, <1>4
<1>8. f \in Injection(S, T)
  <2> HIDE DEF T, upto
  <2>1. \A a, b \in S : f[a] = f[b] => a = b
    BY <1>5, <1>6
  <2> QED BY <1>7, <2>1 DEF Injection, IsInjective
<1> HIDE DEF T, upto
<1>9. f \in Surjection(S, T)
  BY <1>2, <1>8, FS_Injection
<1> QED BY <1>4, <1>9 DEF Surjection, T, upto

LEMMA RejectIsPlain ==
    ASSUME NEW c \in Commands, CommandIsSound(c), c.kind # "Pair"
    PROVE  Plain(Reject(c))
<1>1. c.kind \in {"Connect", "Read"} /\ c.session \in Nat /\ c.op \in Nat
  BY DEF Commands
<1>2. CASE c.kind = "Connect"
  BY <1>1, <1>2 DEF Reject, Event, Plain, NetworkEvent, CommandIsSound, Results, NoId, Lost
<1>3. CASE c.kind = "Read"
  BY <1>1, <1>3 DEF Reject, Event, Plain, NetworkEvent, CommandIsSound, Results, NoId, Lost
<1> QED BY <1>1, <1>2, <1>3

LEMMA RejectionsArePlain ==
    ASSUME RuntimeInv
    PROVE  /\ Rejections(commands) \in Seq(NetworkEvent)
           /\ \A k \in 1..Len(Rejections(commands)) : Plain(Rejections(commands)[k])
<1>1. PICK n \in Nat : n = Len(commands)
  BY TypesKnown
<1>2. PICK S : S = {i \in 1..n : commands[i].kind # "Pair"}
  OBVIOUS
<1> DEFINE place(k) == CHOOSE i \in S : Cardinality({j \in S : j <= i}) = k
<1>3. Rejections(commands) = [k \in 1..Cardinality(S) |-> Reject(commands[place(k)])]
  BY <1>1, <1>2 DEF Rejections
<1>4. S \in SUBSET (1..n) /\ Cardinality(S) \in Nat
  <2>1. S \in SUBSET (1..n)
    BY <1>2
  <2>2. IsFiniteSet(S)
    <3>1. IsFiniteSet(1..n)
      BY FS_Interval
    <3> QED BY <2>1, <3>1, FS_Subset
  <2> QED BY <2>1, <2>2, FS_CardinalityType
<1>5. \A i \in S : Plain(Reject(commands[i])) /\ Reject(commands[i]) \in NetworkEvent
  BY <1>1, <1>2, RejectIsPlain, TypesKnown DEF RuntimeInv, Plain
<1>6. \A k \in 1..Cardinality(S) : place(k) \in S
  <2> TAKE k \in 1..Cardinality(S)
  <2>1. \E i \in S : Cardinality({j \in S : j <= i}) = k
    BY <1>4, EveryPlaceIsTaken
  <2> QED BY <2>1
<1> HIDE DEF place
<1>7. PICK c \in Nat : c = Cardinality(S)
  BY <1>4
<1>8. PICK r : r = [k \in 1..c |-> Reject(commands[place(k)])]
  OBVIOUS
<1>9. r \in Seq(NetworkEvent) /\ Len(r) = c /\ \A k \in 1..c : Plain(r[k])
  BY <1>5, <1>6, <1>7, <1>8
<1> QED BY <1>3, <1>7, <1>8, <1>9

\* The end of a session.
LEMMA HangupIsSound ==
    ASSUME worker \in WorkerState,
           NEW pc \in {"control", "recv", "pair", "trusted", "connect", "read", "stopped"}
    PROVE  /\ Hangup \in WorkerState /\ [Hangup EXCEPT !.pc = pc] \in WorkerState
           /\ Revoked \in WorkerState
           /\ ~Hangup.connected /\ Hangup.pc = worker.pc
           /\ ~Revoked.connected /\ Revoked.pc = worker.pc
           /\ ~[Hangup EXCEPT !.pc = pc].connected /\ [Hangup EXCEPT !.pc = pc].pc = pc
BY DEF WorkerState, Hangup, Revoked, NoId

LEMMA WorkerControlKeeps ==
    ASSUME RuntimeInv, WorkerControl
    PROVE  RuntimeInv'
<1>1. /\ worker \in WorkerState /\ control \in Seq(Control)
  BY TypesKnown
<1>2. PICK m : m = Head(control)
  OBVIOUS
<1>3. PICK closed : closed = Event("Closed", NoId, NoId, "ok")
  OBVIOUS
<1>4. PICK stopped : stopped = Event("WorkerStopped", NoId, NoId, "ok")
  OBVIOUS
<1>5. /\ worker.pc = "control" /\ control # <<>> /\ control' = Tail(control)
      /\ \/ m = "Close" /\ worker' = Hangup /\ Send(<<closed>>) /\ UNCHANGED commands
         \/ /\ m = "Revoke" /\ worker' = Revoked /\ Send(Rejections(commands) \o <<closed>>)
            /\ commands' = <<>>
         \/ /\ m = "Shutdown" /\ worker' = [Hangup EXCEPT !.pc = "stopped"]
            /\ Send(<<stopped>>) /\ commands' = <<>>
      /\ UNCHANGED <<ui, acks, requests, store>>
  BY <1>2, <1>3, <1>4 DEF WorkerControl
<1>6. Plain(closed) /\ Plain(stopped)
  BY <1>3, <1>4 DEF Plain, Event, NetworkEvent, Results, NoId
<1>7. control' \in Seq(Control)
  BY <1>1, <1>5, TailMoves
<1>8. WorkerTakes
  BY <1>5 DEF WorkerTakes
<1>9. /\ worker' \in WorkerState /\ ~worker'.connected /\ worker'.pc \in {"control", "stopped"}
  BY <1>1, <1>5, HangupIsSound
<1>10. WorkerIsSound' /\ ~PairingUnderWay'
  BY <1>9 DEF WorkerIsSound, PairingUnderWay
<1>11. \E ms : MaySend(ms) /\ events' = events \o ms
  <2>1. MaySend(<<closed>>) /\ MaySend(<<stopped>>)
    BY <1>6, OneMaySend
  <2>2. PICK r : r = Rejections(commands)
    OBVIOUS
  <2>3. MaySend(Rejections(commands) \o <<closed>>)
    <3>1. r \in Seq(NetworkEvent) /\ \A k \in 1..Len(r) : Plain(r[k])
      BY <2>2, RejectionsArePlain
    <3>2. PICK q : q = r \o <<closed>>
      OBVIOUS
    <3>3. PICK n \in Nat : n = Len(r)
      BY <3>1
    <3>4. /\ q \in Seq(NetworkEvent) /\ Len(q) = n + 1
          /\ \A k \in 1..(n + 1) : (k \in 1..n /\ q[k] = r[k]) \/ q[k] = closed
      <4>1. closed \in NetworkEvent
        BY <1>6 DEF Plain
      <4> QED BY <3>1, <3>2, <3>3, <4>1
    <3>5. \A k \in 1..Len(q) : Plain(q[k])
      BY <1>6, <3>1, <3>3, <3>4
    <3> QED BY <2>2, <3>2, <3>4, <3>5, PlainMaySend
  <2> QED BY <1>5, <2>1, <2>3 DEF Send
<1>12. PICK ms : MaySend(ms) /\ events' = events \o ms
  BY <1>11
<1> QED BY <1>5, <1>7, <1>8, <1>9, <1>10, <1>12, WorkerKeeps

LEMMA WorkerPollKeeps ==
    ASSUME RuntimeInv, WorkerPoll
    PROVE  RuntimeInv'
<1>1. /\ worker \in WorkerState /\ control \in Seq(Control) /\ events \in Seq(NetworkEvent)
  BY TypesKnown
<1>2. /\ worker.pc \in {"control", "recv"}
      /\ \/ worker' = [worker EXCEPT !.pc = "recv"]
         \/ worker' = [worker EXCEPT !.pc = "control"]
      /\ UNCHANGED <<ui, acks, commands, control, events, requests, store>>
  BY DEF WorkerPoll
<1>3. worker' \in WorkerState /\ worker'.pc \in {"control", "recv"} /\ worker'.connected = worker.connected
  BY <1>1, <1>2 DEF WorkerState
<1>4. WorkerIsSound' /\ ~PairingUnderWay'
  BY <1>3 DEF WorkerIsSound, PairingUnderWay
<1>5. events' = events \o <<>>
  BY <1>1, <1>2
<1>6. RevokeIsSent => RevokeIsSent'
  BY <1>2 DEF RevokeIsSent
<1> QED BY <1>1, <1>2, <1>3, <1>4, <1>5, <1>6, NoneMaySend, WorkerKeeps DEF WorkerTakes

\* The command that the worker takes.
LEMMA HeadCommand ==
    ASSUME RuntimeInv, commands # <<>>
    PROVE  Head(commands) \in Commands /\ CommandIsSound(Head(commands))
BY TypesKnown, TailMoves DEF RuntimeInv

LEMMA WorkerRejectKeeps ==
    ASSUME RuntimeInv, WorkerReject
    PROVE  RuntimeInv'
<1>1. worker \in WorkerState /\ control \in Seq(Control)
  BY TypesKnown
<1>2. PICK c : c = Head(commands)
  OBVIOUS
<1>3. /\ commands # <<>> /\ c.kind \in {"Connect", "Read"} /\ commands' = Tail(commands)
      /\ events' = events \o <<Reject(c)>> /\ worker' = [worker EXCEPT !.pc = "control"]
      /\ UNCHANGED <<ui, acks, control, requests, store>> /\ worker.pc = "recv"
  BY <1>2 DEF WorkerReject, Take, Send
<1>4. MaySend(<<Reject(c)>>)
  BY <1>2, <1>3, HeadCommand, RejectIsPlain, OneMaySend
<1>5. worker' \in WorkerState /\ worker'.pc = "control" /\ worker'.connected = worker.connected
  BY <1>1, <1>3 DEF WorkerState
<1>6. WorkerIsSound' /\ ~PairingUnderWay'
  BY <1>5 DEF WorkerIsSound, PairingUnderWay
<1>7. RevokeIsSent => RevokeIsSent'
  BY <1>3 DEF RevokeIsSent
<1> QED BY <1>1, <1>3, <1>4, <1>5, <1>6, <1>7, WorkerKeeps DEF WorkerTakes

LEMMA WorkerPairKeeps ==
    ASSUME RuntimeInv, WorkerPair
    PROVE  RuntimeInv'
<1>1. worker \in WorkerState /\ control \in Seq(Control) /\ events \in Seq(NetworkEvent)
  BY TypesKnown
<1>2. PICK b \in BOOLEAN : b = (store.peer = "Unpaired")
  OBVIOUS
<1>3. /\ commands # <<>> /\ commands' = Tail(commands)
      /\ worker' = [worker EXCEPT !.pc = "pair", !.unpaired = b]
      /\ UNCHANGED <<ui, acks, control, events, requests, store>> /\ worker.pc = "recv"
  BY <1>2 DEF WorkerPair, Take
<1>4. /\ worker' \in WorkerState /\ worker'.pc = "pair" /\ worker'.connected = worker.connected
      /\ worker'.unpaired = b
  BY <1>1, <1>3 DEF WorkerState
<1>5. WorkerIsSound'
  BY <1>2, <1>3, <1>4 DEF WorkerIsSound
<1>6. PairingUnderWay' => store.peer # "Paired"
  BY <1>2, <1>4 DEF PairingUnderWay
<1>7. events' = events \o <<>>
  BY <1>1, <1>3
<1>8. RevokeIsSent => RevokeIsSent'
  BY <1>3 DEF RevokeIsSent
<1> QED BY <1>1, <1>3, <1>4, <1>5, <1>6, <1>7, <1>8, NoneMaySend, WorkerKeeps DEF WorkerTakes

\* The identity is paired again: no answer of the new pairing is under way.
LEMMA WorkerTrustKeeps ==
    ASSUME RuntimeInv, WorkerTrust
    PROVE  RuntimeInv'
<1>1. /\ worker.pc = "pair" /\ store.peer = "Unpaired"
      /\ store' = [store EXCEPT !.peer = "Paired"] /\ worker' = [worker EXCEPT !.pc = "trusted"]
      /\ UNCHANGED <<ui, acks, commands, control, events, requests>>
  BY DEF WorkerTrust
<1>2. /\ worker \in WorkerState /\ store \in StoreState
  BY TypesKnown
<1>3. /\ worker' \in WorkerState /\ worker'.pc = "trusted" /\ worker'.unpaired = worker.unpaired
      /\ store' \in StoreState /\ store'.peer = "Paired" /\ store'.gen = store.gen
      /\ store'.unpair = store.unpair
  BY <1>1, <1>2 DEF WorkerState, StoreState
<1>4. Dark /\ store.unpair = "none"
  BY <1>1 DEF RuntimeInv, ShownIsBacked, StoreIsSound
<1>5. Dark'
  BY <1>1, <1>4 DEF Dark, Revoking
<1>6. AnswersStay
  BY <1>1, <1>3 DEF AnswersStay, EventIsSound, Current, StillPaired
<1>7. /\ events' \in Seq(NetworkEvent)
      /\ \A i \in 1..Len(events') : EventIsSound(events[i])'
      /\ NewsFindsDark'
      /\ PairingUnderWay /\ PairingUnderWay' => PairingFindsDark'
  BY <1>1, <1>5, <1>6, EventsUnmoved
<1>8. PairingUnderWay' => PairingUnderWay
  BY <1>1, <1>3 DEF PairingUnderWay
<1>9. PairingFindsDark'
  BY <1>7, <1>8 DEF PairingFindsDark
<1>10. RuntimeTypeOK'
  BY <1>1, <1>3, <1>7, TypesKnown DEF RuntimeTypeOK
<1>11. WorkerIsSound' /\ StoreIsSound' /\ RevokeIsUnderWay'
  BY <1>1, <1>3, <1>4 DEF RuntimeInv, WorkerIsSound, StoreIsSound, RevokeIsUnderWay
<1>12. \A i \in 1..Len(commands') : CommandIsSound(commands[i])'
  BY <1>1 DEF RuntimeInv, CommandIsSound
<1> QED BY <1>1, <1>5, <1>7, <1>9, <1>10, <1>11, <1>12 DEF RuntimeInv, Linked, ShownIsBacked

LEMMA WorkerPairedKeeps ==
    ASSUME RuntimeInv, WorkerPaired
    PROVE  RuntimeInv'
<1>1. worker \in WorkerState /\ control \in Seq(Control)
  BY TypesKnown
<1>2. PICK b \in BOOLEAN : b = (worker.unpaired /\ store.peer = "Paired")
  OBVIOUS
<1>3. PICK result : /\ result \in (IF b THEN {"ok"} \cup (ClientFaults \cap {"lost", "terminal"})
                                        ELSE {"untrusted"})
                    /\ events' = events \o <<Event("Paired", NoId, NoId, result)>>
  BY <1>2 DEF WorkerPaired, Send
<1>4. /\ worker.pc \in {"pair", "trusted"}
      /\ worker' = [worker EXCEPT !.pc = "control", !.unpaired = FALSE,
                                  !.revoked = @ /\ ~b]
      /\ UNCHANGED <<ui, acks, commands, control, requests, store>>
  BY <1>2 DEF WorkerPaired
<1>5. PICK m : m = Event("Paired", NoId, NoId, result)
  OBVIOUS
<1>6. m \in NetworkEvent /\ EventIsSound(m)' /\ (IsNews(m) => b) /\ ~Current(m)'
  BY <1>3, <1>5 DEF Event, NetworkEvent, Results, NoId, Lost, EventIsSound, IsNews, Current
<1>7. b => PairingUnderWay
  BY <1>2, <1>4 DEF PairingUnderWay
<1>8. MaySend(<<m>>)
  BY <1>6, <1>7 DEF MaySend
<1>9. worker' \in WorkerState /\ worker'.pc = "control" /\ worker'.connected = worker.connected
  BY <1>1, <1>4 DEF WorkerState
<1>10. WorkerIsSound' /\ ~PairingUnderWay'
  BY <1>9 DEF WorkerIsSound, PairingUnderWay
<1>11. RevokeIsSent => RevokeIsSent'
  BY <1>4 DEF RevokeIsSent
<1> QED BY <1>1, <1>3, <1>4, <1>5, <1>8, <1>9, <1>10, <1>11, WorkerKeeps DEF WorkerTakes

LEMMA WorkerConnectKeeps ==
    ASSUME RuntimeInv, WorkerConnect
    PROVE  RuntimeInv'
<1>1. /\ worker \in WorkerState /\ control \in Seq(Control) /\ events \in Seq(NetworkEvent)
      /\ store.gen \in Nat
  BY TypesKnown
<1>2. PICK s : s = Head(commands).session
  OBVIOUS
<1>3. PICK lost : lost = Event("Connected", s, NoId, Lost)
  OBVIOUS
<1>4. /\ worker.pc = "recv" /\ commands # <<>> /\ Head(commands).kind = "Connect"
      /\ commands' = Tail(commands)
      /\ \/ /\ store.peer = "Paired"
            /\ worker' = [worker EXCEPT !.pc = "connect", !.connected = FALSE,
                                        !.session = s, !.gen = store.gen]
            /\ UNCHANGED events
         \/ worker' = [Hangup EXCEPT !.pc = "control"] /\ events' = events \o <<lost>>
      /\ UNCHANGED <<ui, acks, control, requests, store>>
  BY <1>2, <1>3 DEF WorkerConnect, Take, Send
<1>5. s \in Nat \ {NoId}
  BY <1>2, <1>4, HeadCommand DEF Commands, CommandIsSound
<1>6. RevokeIsSent => RevokeIsSent'
  BY <1>4 DEF RevokeIsSent
<1>7. CASE /\ store.peer = "Paired"
           /\ worker' = [worker EXCEPT !.pc = "connect", !.connected = FALSE,
                                       !.session = s, !.gen = store.gen]
           /\ UNCHANGED events
  <2>1. worker' \in WorkerState /\ worker'.pc = "connect" /\ worker'.session = s
    BY <1>1, <1>5, <1>7 DEF WorkerState
  <2>2. WorkerIsSound' /\ ~PairingUnderWay'
    BY <1>5, <2>1 DEF WorkerIsSound, PairingUnderWay, NoId
  <2>3. events' = events \o <<>>
    BY <1>1, <1>7
  <2> QED BY <1>1, <1>4, <1>6, <1>7, <2>1, <2>2, <2>3, NoneMaySend, WorkerKeeps DEF WorkerTakes
<1>8. CASE worker' = [Hangup EXCEPT !.pc = "control"] /\ events' = events \o <<lost>>
  <2>1. worker' \in WorkerState /\ worker'.pc = "control" /\ ~worker'.connected
    BY <1>1, <1>8, HangupIsSound
  <2>2. WorkerIsSound' /\ ~PairingUnderWay'
    BY <2>1 DEF WorkerIsSound, PairingUnderWay
  <2>3. MaySend(<<lost>>)
    <3>1. Plain(lost)
      BY <1>3, <1>5 DEF Plain, Event, NetworkEvent, Results, NoId, Lost
    <3> QED BY <3>1, OneMaySend
  <2> QED BY <1>1, <1>4, <1>6, <1>8, <2>1, <2>2, <2>3, WorkerKeeps DEF WorkerTakes
<1> QED BY <1>4, <1>7, <1>8

LEMMA WorkerConnectedKeeps ==
    ASSUME RuntimeInv, WorkerConnected
    PROVE  RuntimeInv'
<1>1. worker \in WorkerState /\ control \in Seq(Control)
  BY TypesKnown
<1>2. PICK result : /\ result \in {"ok", "lost", "terminal"}
                    /\ worker' = IF result = "ok"
                                 THEN [worker EXCEPT !.pc = "control", !.connected = TRUE]
                                 ELSE [Hangup EXCEPT !.pc = "control"]
                    /\ events' = events \o <<Event("Connected", worker.session, NoId, result)>>
  <2>1. CASE /\ worker' = [worker EXCEPT !.pc = "control", !.connected = TRUE]
             /\ Send(<<Event("Connected", worker.session, NoId, "ok")>>)
    BY <2>1 DEF Send
  <2>2. CASE \E result \in ClientFaults \cap {"lost", "terminal"} :
                /\ worker' = [Hangup EXCEPT !.pc = "control"]
                /\ Send(<<Event("Connected", worker.session, NoId, result)>>)
    <3>1. PICK result \in {"lost", "terminal"} :
                /\ worker' = [Hangup EXCEPT !.pc = "control"]
                /\ Send(<<Event("Connected", worker.session, NoId, result)>>)
      BY <2>2
    <3>2. result # "ok" /\ result \in {"ok", "lost", "terminal"}
      OBVIOUS
    <3> QED BY <3>1, <3>2 DEF Send
  <2> QED BY <2>1, <2>2 DEF WorkerConnected
<1>3. worker.pc = "connect" /\ UNCHANGED <<ui, acks, commands, control, requests, store>>
  BY DEF WorkerConnected
<1>4. worker.session \in Nat \ {NoId}
  BY <1>1, <1>3 DEF RuntimeInv, WorkerIsSound, WorkerState
<1>5. worker' \in WorkerState /\ worker'.pc = "control"
  <2>1. [worker EXCEPT !.pc = "control", !.connected = TRUE] \in WorkerState
    BY <1>1 DEF WorkerState
  <2>2. [worker EXCEPT !.pc = "control", !.connected = TRUE].pc = "control"
    BY <1>1 DEF WorkerState
  <2> QED BY <1>1, <1>2, <2>1, <2>2, HangupIsSound
<1>6. WorkerIsSound' /\ ~PairingUnderWay'
  BY <1>5 DEF WorkerIsSound, PairingUnderWay
<1>7. RevokeIsSent => RevokeIsSent'
  BY <1>3 DEF RevokeIsSent
<1>8. PICK m : m = Event("Connected", worker.session, NoId, result)
  OBVIOUS
<1>9. MaySend(<<m>>)
  <2>1. Plain(m)
    BY <1>2, <1>4, <1>8 DEF Plain, Event, NetworkEvent, Results, NoId, Lost
  <2> QED BY <2>1, OneMaySend
<1> QED BY <1>1, <1>2, <1>3, <1>5, <1>6, <1>7, <1>8, <1>9, WorkerKeeps DEF WorkerTakes

LEMMA WorkerReadKeeps ==
    ASSUME RuntimeInv, WorkerRead
    PROVE  RuntimeInv'
<1>1. worker \in WorkerState /\ control \in Seq(Control) /\ events \in Seq(NetworkEvent)
  BY TypesKnown
<1>2. PICK c : c = Head(commands)
  OBVIOUS
<1>3. /\ commands # <<>> /\ commands' = Tail(commands) /\ worker.pc = "recv"
      /\ worker' = [worker EXCEPT !.pc = "read", !.session = c.session, !.op = c.op]
      /\ UNCHANGED <<ui, acks, control, events, requests, store>>
  BY <1>2 DEF WorkerRead, Take
<1>4. c.session \in Nat /\ c.op \in Nat
  BY <1>2, <1>3, HeadCommand DEF Commands
<1>5. worker' \in WorkerState /\ worker'.pc = "read" /\ worker'.connected = worker.connected
  BY <1>1, <1>3, <1>4 DEF WorkerState
<1>6. WorkerIsSound' /\ ~PairingUnderWay'
  BY <1>5 DEF WorkerIsSound, PairingUnderWay
<1>7. RevokeIsSent => RevokeIsSent'
  BY <1>3 DEF RevokeIsSent
<1>8. events' = events \o <<>>
  BY <1>1, <1>3
<1> QED BY <1>1, <1>3, <1>5, <1>6, <1>7, <1>8, NoneMaySend, WorkerKeeps DEF WorkerTakes

LEMMA WorkerAnsweredKeeps ==
    ASSUME RuntimeInv, WorkerAnswered
    PROVE  RuntimeInv'
<1>1. /\ worker \in WorkerState /\ control \in Seq(Control) /\ store.gen \in Nat
  BY TypesKnown
<1>2. PICK result :
        /\ result \in Answer \cup {Lost} /\ (result # Lost => StillPaired(worker.gen))
        /\ worker' \in {[worker EXCEPT !.pc = "control", !.op = NoId], [Hangup EXCEPT !.pc = "control"]}
        /\ events' = events \o <<[Event("ReadCompleted", worker.session, worker.op, result)
                                    EXCEPT !.gen = worker.gen]>>
  BY AnswerAssumption DEF WorkerAnswered, Send
<1>3. worker.pc = "read" /\ UNCHANGED <<ui, acks, commands, control, requests, store>>
  BY DEF WorkerAnswered
<1>4. PICK m : m = [Event("ReadCompleted", worker.session, worker.op, result) EXCEPT !.gen = worker.gen]
  OBVIOUS
<1>5. worker.session \in Nat /\ worker.op \in Nat /\ worker.gen \in Nat
  BY <1>1 DEF WorkerState
<1>6. /\ m \in NetworkEvent /\ m.kind = "ReadCompleted" /\ m.result = result /\ m.gen = worker.gen
  BY <1>2, <1>4, <1>5 DEF Event, NetworkEvent, Results, NoId
<1>7. worker' \in WorkerState /\ worker'.pc = "control" /\ (~worker.connected => ~worker'.connected)
  <2>1. PICK w : w = [worker EXCEPT !.pc = "control", !.op = NoId]
    OBVIOUS
  <2>2. w \in WorkerState /\ w.pc = "control" /\ w.connected = worker.connected
    BY <1>1, <2>1 DEF WorkerState, NoId
  <2> QED BY <1>1, <1>2, <2>1, <2>2, HangupIsSound
<1>8. WorkerIsSound' /\ ~PairingUnderWay'
  BY <1>7 DEF WorkerIsSound, PairingUnderWay
<1>9. RevokeIsSent => RevokeIsSent'
  BY <1>3 DEF RevokeIsSent
<1>10. EventIsSound(m)' /\ ~IsNews(m)
  BY <1>1, <1>2, <1>3, <1>6 DEF EventIsSound, IsNews, StillPaired
<1>11. MaySend(<<m>>)
  BY <1>6, <1>8, <1>10 DEF MaySend
<1> QED BY <1>1, <1>2, <1>3, <1>4, <1>7, <1>8, <1>9, <1>11, WorkerKeeps DEF WorkerTakes

-----------------------------------------------------------------------------
(* The owner.                                                              *)

\* A request of the owner's.
LEMMA RequestGrows ==
    ASSUME RuntimeInv, NEW r \in OwnerRequest, requests' = Append(requests, r),
           store' \in StoreState, store.gen <= store'.gen,
           r.kind = "Revoked" => r.gen <= store'.gen
    PROVE  /\ requests' \in Seq(OwnerRequest) /\ (Revoking => Revoking')
           /\ r.kind = "Revoked" => Revoking'
           /\ r.kind # "Revoked" => (Revoking' => Revoking)
           /\ \A i \in 1..Len(requests') :
                 requests'[i].kind = "Revoked" => requests'[i].gen <= store'.gen
<1>1. requests \in Seq(OwnerRequest) /\ store.gen \in Nat
  BY TypesKnown
<1>2. PICK n \in Nat : n = Len(requests)
  BY <1>1
<1>3. /\ requests' \in Seq(OwnerRequest) /\ Len(requests') = n + 1
      /\ \A i \in 1..n : i \in 1..(n + 1) /\ requests'[i] = requests[i]
      /\ n + 1 \in 1..(n + 1) /\ requests'[n + 1] = r
      /\ \A i \in 1..(n + 1) : i \in 1..n \/ i = n + 1
  BY <1>1, <1>2
<1>4. \A i \in 1..n : requests[i] \in OwnerRequest
                      /\ (requests[i].kind = "Revoked" => requests[i].gen <= store.gen)
  BY <1>1, <1>2 DEF RuntimeInv, StoreIsSound
<1>5. \A i \in 1..n : requests[i].kind = "Revoked" => requests[i].gen <= store'.gen
  <2>1. store'.gen \in Nat /\ \A q \in OwnerRequest : q.gen \in Nat
    BY ClientGenAssumption DEF StoreState, OwnerRequest
  <2> QED BY <1>1, <1>4, <2>1
<1>6. (Revoking => Revoking') /\ (r.kind = "Revoked" => Revoking')
      /\ (r.kind # "Revoked" => (Revoking' => Revoking))
  BY <1>2, <1>3 DEF Revoking
<1> QED BY <1>3, <1>5, <1>6

LEMMA OwnerPairKeeps ==
    ASSUME RuntimeInv, OwnerPair
    PROVE  RuntimeInv'
<1>1. PICK r : r = OwnerEvent("PairStart", 0)
  OBVIOUS
<1>2. /\ requests' = Append(requests, r) /\ UNCHANGED <<ui, acks, worker, commands, control, events, store>>
  BY <1>1 DEF OwnerPair
<1>3. r \in OwnerRequest /\ r.kind = "PairStart" /\ store \in StoreState /\ store.gen <= store.gen
  BY <1>1, ClientGenAssumption, TypesKnown DEF OwnerEvent, OwnerRequest
<1>4. /\ requests' \in Seq(OwnerRequest) /\ (Revoking <=> Revoking')
      /\ \A i \in 1..Len(requests') :
            requests'[i].kind = "Revoked" => requests'[i].gen <= store'.gen
  BY <1>2, <1>3, RequestGrows
<1>5. AnswersStay
  BY <1>2 DEF AnswersStay, EventIsSound, Current, StillPaired
<1>6. (Dark => Dark') /\ ShownIsBacked'
  BY <1>2, <1>4 DEF Dark, ShownIsBacked, RuntimeInv
<1>7. WorkerIsSound' /\ StoreIsSound' /\ RevokeIsUnderWay' /\ (PairingUnderWay' => PairingUnderWay)
  BY <1>2, <1>4 DEF RuntimeInv, WorkerIsSound, StoreIsSound, RevokeIsUnderWay, RevokeIsSent, PairingUnderWay
<1> QED BY <1>2, <1>3, <1>4, <1>5, <1>6, <1>7, OwnerKeeps

LEMMA OwnerUnpairKeeps ==
    ASSUME RuntimeInv, OwnerUnpair
    PROVE  RuntimeInv'
<1>1. PICK g : g = store.gen + 1
  OBVIOUS
<1>2. PICK r : r = OwnerEvent("Revoked", g)
  OBVIOUS
<1>3. store \in StoreState /\ store.gen \in Nat /\ acks.revocation \in Nat
  BY TypesKnown
<1>4. /\ store.peer = "Paired" /\ store.gen < ClientGenMax /\ store.unpair = "none"
      /\ store' = [store EXCEPT !.peer = "Revoking", !.gen = g, !.unpair = "joining"]
      /\ UNCHANGED <<ui, acks, worker, commands, control, events>>
  BY <1>1 DEF OwnerUnpair
<1>5. g \in 0..ClientGenMax /\ store.gen <= g
  BY <1>1, <1>3, <1>4, ClientGenAssumption
<1>6. /\ store' \in StoreState /\ store'.peer = "Revoking" /\ store'.gen = g
      /\ store'.unpair = "joining"
  BY <1>3, <1>4, <1>5 DEF StoreState
<1>7. requests' = Append(requests, r)
  BY <1>2, <1>6 DEF OwnerUnpair
<1>8. r \in OwnerRequest /\ r.kind = "Revoked" /\ r.gen = g
  BY <1>2, <1>5 DEF OwnerEvent, OwnerRequest
<1>9. g <= store'.gen /\ store.gen <= store'.gen
  BY <1>5, <1>6
<1>10. /\ requests' \in Seq(OwnerRequest) /\ Revoking'
       /\ \A i \in 1..Len(requests') :
            requests'[i].kind = "Revoked" => requests'[i].gen <= store'.gen
  BY <1>6, <1>7, <1>8, <1>9, RequestGrows
<1>11. AnswersStay
  <2>1. \A m \in NetworkEvent : m.gen \in Nat
    BY DEF NetworkEvent
  <2>2. \A x \in Nat : x <= store.gen => x <= g /\ x # g
    BY <1>1, <1>3
  <2>3. \A m \in NetworkEvent : EventIsSound(m) => EventIsSound(m)'
    BY <1>6, <2>1, <2>2 DEF EventIsSound
  <2>4. \A m \in NetworkEvent : ~Current(m)'
    BY <1>6 DEF Current, StillPaired
  <2> QED BY <2>3, <2>4 DEF AnswersStay
<1>12. Dark' /\ ShownIsBacked'
  BY <1>10 DEF Dark, ShownIsBacked
<1>13. WorkerIsSound'
  BY <1>4 DEF RuntimeInv, WorkerIsSound
<1>14. acks.revocation <= g /\ acks.revocation # g
  BY <1>1, <1>3 DEF RuntimeInv, StoreIsSound
<1>15. StoreIsSound' /\ RevokeIsUnderWay'
  BY <1>4, <1>6, <1>10, <1>14 DEF StoreIsSound, RevokeIsUnderWay
<1>16. PairingUnderWay' => PairingUnderWay
  BY <1>4, <1>6 DEF PairingUnderWay
<1> QED BY <1>4, <1>6, <1>10, <1>11, <1>12, <1>13, <1>15, <1>16, OwnerKeeps

\* The owner's wait for the join ends, or recovery erases the pairing.
LEMMA ErasureKeeps ==
    ASSUME RuntimeInv, UNCHANGED <<ui, acks, worker, commands, control, events, requests>>,
           store.peer = "Revoking", store' \in StoreState, store'.peer \in {"Revoking", "Unpaired"},
           store'.gen = store.gen, store'.unpair = "none"
    PROVE  RuntimeInv'
<1>1. AnswersStay
  BY DEF AnswersStay, EventIsSound, Current, StillPaired
<1>2. (Dark => Dark') /\ ShownIsBacked' /\ requests' \in Seq(OwnerRequest)
  BY TypesKnown DEF RuntimeInv, ShownIsBacked, Dark, Revoking
<1>3. WorkerIsSound' /\ StoreIsSound' /\ RevokeIsUnderWay' /\ (PairingUnderWay' => PairingUnderWay)
  BY DEF RuntimeInv, WorkerIsSound, StoreIsSound, RevokeIsUnderWay, PairingUnderWay
<1> QED BY <1>1, <1>2, <1>3, OwnerKeeps

LEMMA OwnerJoinKeeps ==
    ASSUME RuntimeInv, OwnerJoin
    PROVE  RuntimeInv'
<1>1. store \in StoreState
  BY TypesKnown
<1>2. /\ store.unpair # "none"
      /\ store' = [store EXCEPT !.unpair = "none",
                                !.peer = IF store.unpair = "joined" THEN "Unpaired" ELSE @]
      /\ UNCHANGED <<ui, acks, worker, commands, control, events, requests>>
  BY DEF OwnerJoin
<1>3. store.peer = "Revoking"
  BY <1>2 DEF RuntimeInv, StoreIsSound
<1>4. /\ store' \in StoreState /\ store'.peer \in {"Revoking", "Unpaired"}
      /\ store'.gen = store.gen /\ store'.unpair = "none"
  BY <1>1, <1>2, <1>3 DEF StoreState
<1> QED BY <1>2, <1>3, <1>4, ErasureKeeps

LEMMA OwnerRecoverKeeps ==
    ASSUME RuntimeInv, OwnerRecover
    PROVE  RuntimeInv'
<1>1. store \in StoreState
  BY TypesKnown
<1>2. /\ store.peer = "Revoking" /\ store.unpair = "none"
      /\ store' = [store EXCEPT !.peer = "Unpaired"]
      /\ UNCHANGED <<ui, acks, worker, commands, control, events, requests>>
  BY DEF OwnerRecover
<1>3. /\ store' \in StoreState /\ store'.peer = "Unpaired"
      /\ store'.gen = store.gen /\ store'.unpair = "none"
  BY <1>1, <1>2 DEF StoreState
<1> QED BY <1>2, <1>3, ErasureKeeps

LEMMA OwnerShutdownKeeps ==
    ASSUME RuntimeInv, OwnerShutdown
    PROVE  RuntimeInv'
<1>1. PICK r : r = OwnerEvent("Shutdown", 0)
  OBVIOUS
<1>2. /\ requests' = Append(requests, r) /\ store' = [store EXCEPT !.open = FALSE]
      /\ UNCHANGED <<ui, acks, worker, commands, control, events>>
  BY <1>1 DEF OwnerShutdown
<1>3. store \in StoreState /\ store.gen \in Nat
  BY TypesKnown
<1>4. /\ store' \in StoreState /\ store'.peer = store.peer /\ store'.gen = store.gen
      /\ store'.unpair = store.unpair
  BY <1>2, <1>3 DEF StoreState
<1>5. r \in OwnerRequest /\ r.kind = "Shutdown" /\ store.gen <= store'.gen
  BY <1>1, <1>3, <1>4, ClientGenAssumption DEF OwnerEvent, OwnerRequest
<1>6. /\ requests' \in Seq(OwnerRequest) /\ (Revoking <=> Revoking')
      /\ \A i \in 1..Len(requests') :
            requests'[i].kind = "Revoked" => requests'[i].gen <= store'.gen
  BY <1>2, <1>4, <1>5, RequestGrows
<1>7. AnswersStay
  BY <1>4 DEF AnswersStay, EventIsSound, Current, StillPaired
<1>8. (Dark => Dark') /\ ShownIsBacked'
  BY <1>2, <1>4, <1>6 DEF Dark, ShownIsBacked, RuntimeInv
<1>9. WorkerIsSound' /\ StoreIsSound' /\ RevokeIsUnderWay' /\ (PairingUnderWay' => PairingUnderWay)
  BY <1>2, <1>4, <1>6 DEF RuntimeInv, WorkerIsSound, StoreIsSound, RevokeIsUnderWay, RevokeIsSent, PairingUnderWay
<1> QED BY <1>2, <1>4, <1>6, <1>7, <1>8, <1>9, OwnerKeeps

-----------------------------------------------------------------------------
(* The runtime as a whole.                                                 *)

LEMMA RuntimeInitSound == ClientInit => RuntimeInv
<1> SUFFICES ASSUME ClientInit PROVE RuntimeInv
  OBVIOUS
<1>1. PICK c : c = ConnectCommand(1)
  OBVIOUS
<1>2. c \in Commands /\ CommandIsSound(c)
  BY <1>1 DEF ConnectCommand, Commands, CommandIsSound, NoId
<1>3. PICK a \in AdapterState : a = Connecting(NewAdapter) /\ a.active = NoRead
  <2>1. NewAdapter \in AdapterState /\ NewAdapter.active = NoRead
    BY NoReadIdentity DEF NewAdapter, AdapterState, NoId
  <2> QED BY <2>1, AdapterMoves
<1>4. /\ ui = [core |-> [state |-> "Waiting", effect |-> 2, surface |-> "Unknown"],
               refresh |-> 2, reconnect |-> FALSE, adapter |-> a,
               connected |-> FALSE, connecting |-> TRUE, pending |-> 1]
      /\ acks = [revocation |-> 0, shutdown |-> FALSE]
      /\ worker = [pc |-> "control", session |-> NoId, op |-> NoId, gen |-> 0,
                   connected |-> FALSE, revoked |-> FALSE, unpaired |-> FALSE]
      /\ commands = <<c>> /\ control = <<>> /\ events = <<>> /\ requests = <<>>
      /\ \E p \in {"Paired", "Unpaired"} :
            store = [peer |-> p, gen |-> 0, unpair |-> "none", open |-> TRUE]
  BY <1>1, <1>3 DEF ClientInit
<1>5. ui \in UiState /\ ui.connected = FALSE /\ ui.adapter.active = NoRead /\ ui.core.surface = "Unknown"
  BY <1>3, <1>4 DEF UiState, CoreState
<1>6. /\ worker \in WorkerState /\ store \in StoreState
      /\ acks \in [revocation : 0..ClientGenMax, shutdown : BOOLEAN]
  BY <1>4, ClientGenAssumption DEF WorkerState, StoreState, NoId
<1>7. /\ commands \in Seq(Commands) /\ Len(commands) = 1
      /\ \A i \in 1..Len(commands) : CommandIsSound(commands[i])
  BY <1>2, <1>4
<1>8. RuntimeTypeOK
  BY <1>4, <1>5, <1>6, <1>7, CommandAssumption DEF RuntimeTypeOK
<1>9. Linked(ui) /\ ShownIsBacked
  BY <1>5 DEF Linked, ShownIsBacked, Dark
<1>10. NewsFindsDark /\ PairingFindsDark /\ \A i \in 1..Len(events) : EventIsSound(events[i])
  BY <1>4 DEF NewsFindsDark, PairingFindsDark, PairingUnderWay
<1>11. WorkerIsSound /\ StoreIsSound /\ RevokeIsUnderWay
  BY <1>4 DEF WorkerIsSound, StoreIsSound, RevokeIsUnderWay
<1> QED BY <1>7, <1>8, <1>9, <1>10, <1>11 DEF RuntimeInv

\* A step that changes nothing.
LEMMA RuntimeStutters ==
    ASSUME RuntimeInv, UNCHANGED clientVars
    PROVE  RuntimeInv' /\ ShownWhilePaired
BY DEF clientVars, RuntimeInv, RuntimeTypeOK, Linked, ShownIsBacked, Dark, Revoking, CommandIsSound,
       EventIsSound, NewsFindsDark, Current, StillPaired, PairingFindsDark, PairingUnderWay,
       WorkerIsSound, StoreIsSound, RevokeIsUnderWay, RevokeIsSent, ShownWhilePaired

LEMMA RuntimeKeeps ==
    ASSUME RuntimeInv, [ClientNext]_clientVars
    PROVE  RuntimeInv' /\ ShownWhilePaired
<1>1. CASE OwnerEvents
  BY <1>1, HandleRevokedKeeps, HandlePairStartKeeps, HandleShutdownKeeps DEF OwnerEvents
<1>2. CASE NetworkEvents
  BY <1>2, HandlePairedKeeps, HandleConnectedKeeps, HandleReadResultKeeps, HandleClosedKeeps,
     HandleWorkerStoppedKeeps DEF NetworkEvents
<1>3. CASE RefreshTimer
  BY <1>3, RefreshTimerKeeps
<1>4. CASE ReconnectTimer
  BY <1>4, ReconnectTimerKeeps
<1>5. CASE Worker
  <2>1. RuntimeInv'
    BY <1>5, WorkerControlKeeps, WorkerPollKeeps, WorkerRejectKeeps, WorkerPairKeeps,
       WorkerTrustKeeps, WorkerPairedKeeps, WorkerConnectKeeps, WorkerConnectedKeeps,
       WorkerReadKeeps, WorkerAnsweredKeeps DEF Worker
  <2>2. ui' = ui
    BY <1>5 DEF Worker, WorkerControl, WorkerPoll, WorkerReject, WorkerPair, WorkerTrust,
       WorkerPaired, WorkerConnect, WorkerConnected, WorkerRead, WorkerAnswered
  <2> QED BY <2>1, <2>2 DEF ShownWhilePaired
<1>6. CASE ClientOwner
  <2>1. RuntimeInv'
    BY <1>6, OwnerPairKeeps, OwnerUnpairKeeps, OwnerJoinKeeps, OwnerRecoverKeeps,
       OwnerShutdownKeeps DEF ClientOwner
  <2>2. ui' = ui
    BY <1>6 DEF ClientOwner, OwnerPair, OwnerUnpair, OwnerJoin, OwnerRecover, OwnerShutdown
  <2> QED BY <2>1, <2>2 DEF ShownWhilePaired
<1>7. CASE UNCHANGED clientVars
  BY <1>7, RuntimeStutters
<1> QED BY <1>1, <1>2, <1>3, <1>4, <1>5, <1>6, <1>7 DEF ClientNext

\* The inductive invariant of the client runtime.
THEOREM RuntimeInvariance == ClientSpec => []RuntimeInv
<1>1. ClientInit => RuntimeInv
  BY RuntimeInitSound
<1>2. RuntimeInv /\ [ClientNext]_clientVars => RuntimeInv'
  BY RuntimeKeeps
<1> QED BY <1>1, <1>2, PTL DEF ClientSpec

\* What is in a channel is at one of its places.
LEMMA RuntimeImpliesClientInv == RuntimeInv => ClientInv
<1> SUFFICES ASSUME RuntimeInv PROVE ClientInv
  OBVIOUS
<1>1. ClientTypeOK
  <2>1. ui \in UiState /\ store \in StoreState /\ Len(commands) <= CommandMax
        /\ acks \in [revocation : 0..ClientGenMax, shutdown : BOOLEAN]
    BY TypesKnown
  <2>2. ui.core \in CoreState /\ ui.adapter \in AdapterState
    BY <2>1, UiFields
  <2>3. ui.adapter \in [state : {"Disconnected", "Backoff", "Connecting",
                                "Authenticated", "Stopped"},
                       session : Nat, terminal : BOOLEAN,
                       active : [op : Nat, effect : Nat]]
    BY <2>2 DEF AdapterState, ReadIdentity
  <2> QED BY <2>1, <2>2, <2>3 DEF ClientTypeOK, CoreState, StoreState
<1>2. ReadsCorrelated
  BY DEF RuntimeInv, Linked, ReadsCorrelated
<1>3. RevocationClosed
  <2>1. RevokeIsSent => "Revoke" \in Elements(control)
    BY DEF RevokeIsSent, Elements
  <2> QED BY <2>1 DEF RuntimeInv, RevokeIsUnderWay, RevocationClosed
<1> QED BY <1>1, <1>2, <1>3 DEF ClientInv

\* No answer completes a read that was given up, and an unpair that was joined has
\* closed the session of the pairing, or has a Revoke under way that will.
THEOREM ClientStaysSound == ClientSpec => []ClientInv
BY RuntimeInvariance, RuntimeImpliesClientInv, PTL

\* Once the UI thread has handled a revocation, what it shows is backed by a live
\* session of the present pairing.
THEOREM WhatIsShownIsLive == ClientSpec => []ShownIsLive
<1>1. RuntimeInv => ShownIsLive
  <2>1. RuntimeInv => (Revoking => \E r \in Elements(requests) : r.kind = "Revoked")
    BY DEF Revoking, Elements
  <2> QED BY <2>1 DEF RuntimeInv, ShownIsBacked, Dark, ShownIsLive
<1> QED BY <1>1, RuntimeInvariance, PTL

\* A step of the runtime shows an availability anew only while the identity is
\* paired (handle_read_result looks at the pairing again before it shows).
THEOREM NothingIsShownAfterUnpair == ClientSpec => NothingShownAfterUnpair
<1>1. RuntimeInv /\ [ClientNext]_clientVars => ShownWhilePaired
  BY RuntimeKeeps
<1>2. RuntimeInv /\ [ClientNext]_clientVars
        => [ui'.core.surface \notin {"Unknown", ui.core.surface} => store.peer = "Paired"]_clientVars
  BY <1>1 DEF ShownWhilePaired
<1> QED BY <1>2, RuntimeInvariance, PTL DEF ClientSpec, NothingShownAfterUnpair
=============================================================================
