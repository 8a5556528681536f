---------------------------- MODULE LatestValue ----------------------------
(***************************************************************************)
(* What a generation-published slot promises (AmpLatestValue of core-s3    *)
(* lib.rs, its conformance model): the writer replaces the value in one    *)
(* step, and what a reader observes is the latest value there is.          *)
(***************************************************************************)
EXTENDS Naturals

VARIABLES
    latest,     \* the last value published
    observed    \* the last value a reader observed

Value(generation) == [head |-> generation, rest |-> generation]

publish == latest' = Value(latest.head + 1) /\ UNCHANGED observed

latest_after == latest.head # 0 /\ observed' = latest /\ UNCHANGED latest

LatestInit == latest = Value(0) /\ observed = Value(0)
LatestSpec == LatestInit /\ [][publish \/ latest_after]_<<latest, observed>>

=============================================================================
