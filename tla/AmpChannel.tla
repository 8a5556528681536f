----------------------------- MODULE AmpChannel -----------------------------
(***************************************************************************)
(* The values the two processors of the device exchange through shared     *)
(* memory (core-s3-amp shared.h, main.c, renderer adapter.c): a payload    *)
(* that is copied byte by byte, and the publication word that tells a      *)
(* reader which generation it holds, 0 while it is being written.          *)
(***************************************************************************)
EXTENDS Naturals

CONSTANT PublishMax     \* publications; the generation is a uint32_t

ASSUME PublishAssumption == PublishMax \in Nat

Channel == {"world", "heartbeat", "command", "yaw", "profile"}

VARIABLES
    channel,        \* which of them this behaviour is about
    publication,    \* the publication word
    payload,        \* the shared bytes: the generation, and the rest
    writer,         \* its step, and its generation
    consumer,       \* its step, the publication it started from, its attempts
    copied,         \* where the reader copies to
    accepted,       \* history: the last copy found valid
    used,           \* the value the reading processor goes on with
    faulty          \* a copy was reported as an integrity failure (boot error 9)

channelVars == <<channel, publication, payload, writer, consumer, copied, accepted, used, faulty>>

\* Two parts that a copy may take from different publications.
Bytes(head, rest) == [head |-> head, rest |-> rest]
Nothing == Bytes(0, 0)
Whole(bytes) == bytes.head = bytes.rest

ChannelInit ==
    /\ channel \in Channel
    /\ publication = 0 /\ payload = Nothing
    /\ writer = [at |-> "rest", generation |-> 0]
    /\ consumer = [at |-> "rest", before |-> 0, attempt |-> 0]
    /\ copied = Nothing /\ accepted = Nothing /\ used = Nothing /\ faulty = FALSE

readerVars == <<consumer, copied, accepted, used, faulty>>

-----------------------------------------------------------------------------
(* The writer: publication 0, the copy, the new generation.                *)

PublishBegins ==
    /\ writer.at = "rest" /\ writer.generation < PublishMax
    /\ writer' = [at |-> "head", generation |-> writer.generation + 1]
    /\ publication' = 0
    /\ UNCHANGED <<channel, payload, readerVars>>

CopyTo ==
    /\ \/ /\ writer.at = "head" /\ writer' = [writer EXCEPT !.at = "rest of it"]
          /\ payload' = [payload EXCEPT !.head = writer.generation]
       \/ /\ writer.at = "rest of it" /\ writer' = [writer EXCEPT !.at = "publish"]
          /\ payload' = [payload EXCEPT !.rest = writer.generation]
    /\ UNCHANGED <<channel, publication, readerVars>>

PublishEnds ==
    /\ writer.at = "publish" /\ writer' = [writer EXCEPT !.at = "rest"]
    /\ publication' = writer.generation
    /\ UNCHANGED <<channel, payload, readerVars>>

-----------------------------------------------------------------------------
(* The reader                                                              *)

AttemptMax == IF channel \in {"world", "heartbeat", "profile"} THEN 3 ELSE 1

\* The read is over.  The renderer reads the snapshot into the record it draws
\* from, so it goes on with whatever was copied; the others have a copy aside.
Done(valid) ==
    /\ consumer' = [at |-> "rest", before |-> 0, attempt |-> 0]
    /\ accepted' = IF valid THEN copied ELSE accepted
    /\ used' = IF valid \/ (channel = "world" /\ used # Nothing) THEN copied ELSE used

\* Nothing published, or nothing new: command and heartbeat remember what they
\* have; the profile's reader spends an attempt.
ReadBegins ==
    /\ consumer.at \in {"rest", "again"}
    /\ IF publication = 0 \/ (channel \in {"heartbeat", "command"} /\ publication = accepted.head)
       THEN IF channel = "profile" /\ consumer.attempt + 1 < AttemptMax
            THEN consumer' = [consumer EXCEPT !.at = "again", !.attempt = @ + 1] /\ UNCHANGED <<accepted, used>>
            ELSE Done(FALSE)
       ELSE /\ consumer' = [consumer EXCEPT !.at = "head", !.before = publication]
            /\ UNCHANGED <<accepted, used>>
    /\ UNCHANGED <<channel, publication, payload, writer, copied, faulty>>

CopyFrom ==
    /\ \/ /\ consumer.at = "head" /\ consumer' = [consumer EXCEPT !.at = "rest of it"]
          /\ copied' = [copied EXCEPT !.head = payload.head]
       \/ /\ consumer.at = "rest of it" /\ consumer' = [consumer EXCEPT !.at = "check"]
          /\ copied' = [copied EXCEPT !.rest = payload.rest]
    /\ UNCHANGED <<channel, publication, payload, writer, accepted, used, faulty>>

\* Mutant of Unchanged: the generation inside the copy is check enough.
UnchangedInside == copied.head = consumer.before

\* The publication word is the same as before the copy.
Unchanged == publication = consumer.before

\* A copy that was stable but names another generation is a fault, except for
\* the snapshot, whose reader tries again, and the profile, which has none.
ReadEnds ==
    LET named == copied.head = consumer.before
        valid == Unchanged /\ (named \/ channel = "profile")
        retries == ~valid /\ (~Unchanged \/ channel = "world") /\ consumer.attempt + 1 < AttemptMax
    IN  /\ consumer.at = "check"
        /\ IF retries
           THEN /\ consumer' = [at |-> "again", before |-> 0, attempt |-> consumer.attempt + 1]
                /\ UNCHANGED <<accepted, used>>
           ELSE Done(valid)
        /\ faulty' = (faulty \/ (Unchanged /\ ~named /\ channel \in {"heartbeat", "command", "yaw"}))
        /\ UNCHANGED <<channel, publication, payload, writer, copied>>

ChannelNext ==
    PublishBegins \/ CopyTo \/ PublishEnds \/ ReadBegins \/ CopyFrom \/ ReadEnds

ChannelSpec == ChannelInit /\ [][ChannelNext]_channelVars

-----------------------------------------------------------------------------
(* Properties                                                              *)

\* A value is published at the end of its copy.
Latest == INSTANCE LatestValue WITH
    latest <- Bytes(writer.generation - (IF writer.at = "rest" THEN 0 ELSE 1),
                    writer.generation - (IF writer.at = "rest" THEN 0 ELSE 1)),
    observed <- accepted

\* However the two processors interleave (a flash operation may stall the
\* renderer's anywhere), a copy that is found valid is the latest value, whole.
ImplementsLatestValue == Latest!LatestSpec

\* A value that is merely being replaced is never reported as an integrity
\* failure, which would stop the renderer or fail the boot.
NoFalseFault == ~faulty

\* "AMP exchanges generation-published bounded values: stable shell/SAS/view/pose
\* snapshots" (docs/architecture.md): a processor goes on with stable values only.
UsedIsStable == Whole(used)

=============================================================================
