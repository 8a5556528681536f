------------------------------ MODULE AmpTouch ------------------------------
(***************************************************************************)
(* The touch ring (core-s3-amp main.c publish_touch, renderer adapter.c    *)
(* deskkin_touch_read, core-s3 lib.rs AmpTouchRing): the input thread      *)
(* writes samples into a few slots, the renderer reads them in order and   *)
(* counts the ones it was too slow for.                                    *)
(***************************************************************************)
EXTENDS Naturals

CONSTANTS
    Capacity,   \* DESKKIN_TOUCH_CAPACITY, 16 in the code
    TouchGenMax \* samples written; the generation is a uint32_t

ASSUME CapacityAssumption == Capacity \in Nat \ {0}

VARIABLES
    ring,       \* the slots: publication word, generation, the rest of a sample
    newest,     \* write_generation
    drops,      \* drop_count
    toucher,    \* the input thread's step and generation
    taker,      \* the renderer's read: step, latest, wanted, what it copied
    reached,    \* the renderer's touch_generation
    delivered   \* history: samples handed to the application

touchVars == <<ring, newest, drops, toucher, taker, reached, delivered>>

Empty == [publication |-> 0, generation |-> 0, rest |-> 0]
Away == [at |-> "rest", latest |-> 0, wanted |-> 0, copy |-> Empty]
SlotAt(generation) == (generation - 1) % Capacity

TouchInit ==
    /\ ring = [i \in 0..(Capacity - 1) |-> Empty] /\ newest = 0 /\ drops = 0
    /\ toucher = [at |-> "rest", generation |-> 0]
    /\ taker = Away /\ reached = 0 /\ delivered = 0

-----------------------------------------------------------------------------
(* publish_touch                                                           *)

PutSlot(field, value) ==
    ring' = [ring EXCEPT ![SlotAt(toucher'.generation)][field] = value]

ToucherGoes(from, to) ==
    toucher.at = from /\ toucher' = [toucher EXCEPT !.at = to]

TouchBegins ==
    /\ toucher.at = "rest" /\ toucher.generation < TouchGenMax
    /\ toucher' = [at |-> "head", generation |-> toucher.generation + 1]
    /\ PutSlot("publication", 0)
    /\ UNCHANGED <<newest, drops, taker, reached, delivered>>

TouchCopies ==
    /\ \/ ToucherGoes("head", "rest of it") /\ PutSlot("generation", toucher.generation)
       \/ ToucherGoes("rest of it", "publish") /\ PutSlot("rest", toucher.generation)
    /\ UNCHANGED <<newest, drops, taker, reached, delivered>>

TouchPublishes ==
    /\ ToucherGoes("publish", "announce") /\ PutSlot("publication", toucher.generation)
    /\ UNCHANGED <<newest, drops, taker, reached, delivered>>

TouchAnnounces ==
    /\ ToucherGoes("announce", "rest") /\ newest' = toucher.generation
    /\ UNCHANGED <<ring, drops, taker, reached, delivered>>

-----------------------------------------------------------------------------
(* deskkin_touch_read                                                      *)

\* The sample to read: the next one, or the oldest the ring still has.
Wanted(latest) ==
    IF latest - (reached + 1) >= Capacity THEN latest - Capacity + 1 ELSE reached + 1

TakeBegins ==
    /\ taker.at = "rest" /\ newest # 0 /\ newest # reached
    /\ taker' = [Away EXCEPT !.at = "begin", !.latest = newest, !.wanted = Wanted(newest)]
    /\ UNCHANGED <<ring, newest, drops, toucher, reached, delivered>>

\* EAGAIN when the slot holds another sample, or none.
TakeLooks ==
    /\ taker.at = "begin"
    /\ taker' = IF ring[SlotAt(taker.wanted)].publication = taker.wanted
                THEN [taker EXCEPT !.at = "head"] ELSE Away
    /\ UNCHANGED <<ring, newest, drops, toucher, reached, delivered>>

TakeCopies ==
    /\ \/ /\ taker.at = "head"
          /\ taker' = [taker EXCEPT !.at = "rest of it",
                           !.copy.generation = ring[SlotAt(taker.wanted)].generation]
       \/ /\ taker.at = "rest of it"
          /\ taker' = [taker EXCEPT !.at = "check", !.copy.rest = ring[SlotAt(taker.wanted)].rest]
    /\ UNCHANGED <<ring, newest, drops, toucher, reached, delivered>>

\* Mutant of StillThere: the generation inside the copy is check enough.
StillThereInside == taker.copy.generation = taker.wanted

\* The slot was not given to another sample while it was copied.
StillThere == ring[SlotAt(taker.wanted)].publication = taker.wanted

Skips == drops' = IF StillThere THEN drops + (taker.wanted - (reached + 1)) ELSE drops

TakeEnds ==
    /\ taker.at = "check" /\ Skips
    /\ IF StillThere
       THEN reached' = taker.copy.generation /\ delivered' = delivered + 1
       ELSE UNCHANGED <<reached, delivered>>
    /\ taker' = [Away EXCEPT !.copy = IF StillThere THEN taker.copy ELSE Empty]
    /\ UNCHANGED <<ring, newest, toucher>>

ToucherNext == TouchBegins \/ TouchCopies \/ TouchPublishes \/ TouchAnnounces
TakerNext == TakeBegins \/ TakeLooks \/ TakeCopies \/ TakeEnds
TouchNext == ToucherNext \/ TakerNext

TouchSpec == TouchInit /\ [][TouchNext]_touchVars

-----------------------------------------------------------------------------
(* Properties                                                              *)

\* Every sample up to the one the renderer has reached was delivered, once, or
\* counted as dropped, whatever the input thread overwrote meanwhile.
TouchesCounted == reached = delivered + drops

\* A sample is delivered whole: its fields were not taken from the sample that
\* is overwriting the slot.
SampleIsWhole == taker.at = "rest" /\ taker.copy # Empty =>
    taker.copy.generation = reached /\ taker.copy.rest = reached

\* Every touch reaches the application once and whole, or is counted as dropped.
TouchesArrive == TouchesCounted /\ SampleIsWhole

=============================================================================
