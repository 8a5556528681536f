------------------------------ MODULE Features ------------------------------
(***************************************************************************)
(* The two application features (crates/application-features) as functions *)
(* from a feature's state and an input to its next state.  An input the    *)
(* feature rejects returns the state unchanged, as the transactional       *)
(* publish() does.  The identity of a newly requested effect is a          *)
(* parameter: a transition that requests one leaves it in the state.       *)
(***************************************************************************)
EXTENDS Naturals

NoEffect == 0

-----------------------------------------------------------------------------
(* availability.rs: read, arm the refresh timer, wait, read again.         *)

AvailabilityStopped == [state |-> "Stopped", effect |-> NoEffect, surface |-> "Unknown"]

AvailabilityStart(id) == [state |-> "Reading", effect |-> id, surface |-> "Unknown"]

\* Only the completion of the effect in progress is accepted.
Expects(f, state, e) == f.state = state /\ f.effect = e

ReadCompleted(f, e, surface, id) ==
    IF Expects(f, "Reading", e)
    THEN [state |-> "ArmingRefresh", effect |-> id, surface |-> surface]
    ELSE f

TimerArmCompleted(f, e, ok) ==
    IF ~Expects(f, "ArmingRefresh", e) THEN f
    ELSE IF ok THEN [f EXCEPT !.state = "Waiting"]
    ELSE AvailabilityStopped

RefreshDue(f, e, id) ==
    IF Expects(f, "Waiting", e)
    THEN [f EXCEPT !.state = "Reading", !.effect = id]
    ELSE f

\* Mutant: a read in progress goes on.
InvalidatedKeepsReading(f, id) == [f EXCEPT !.surface = "Unknown"]

\* A read in progress completes as failed; otherwise only the surface goes.
Invalidated(f, id) ==
    IF f.state = "Reading" THEN ReadCompleted(f, f.effect, "Unknown", id)
    ELSE [f EXCEPT !.surface = "Unknown"]

-----------------------------------------------------------------------------
(* synthetic_notice.rs: show until cleared or until its own timer expires. *)

NoticeStopped == [state |-> "Stopped", effect |-> NoEffect, kind |-> "None"]
NoticeIdle == [state |-> "Idle", effect |-> NoEffect, kind |-> "None"]

NoticeShow(kind, id) == [state |-> "Arming", effect |-> id, kind |-> kind]

NoticeTimerArmed(n, e, ok) ==
    IF ~Expects(n, "Arming", e) THEN n
    ELSE IF ok THEN [n EXCEPT !.state = "Visible"]
    ELSE NoticeIdle

NoticeExpired(n, e) == IF Expects(n, "Visible", e) THEN NoticeIdle ELSE n

NoticeInvalidated(n) == IF n.state = "Stopped" THEN n ELSE NoticeIdle
=============================================================================
