------------------------------ MODULE AmpProofs ------------------------------
(***************************************************************************)
(* Proofs about the memory the two processors share: a slot implements the *)
(* latest value, and the touch ring delivers or counts every sample, for   *)
(* any number of publications and every interleaving.                      *)
(***************************************************************************)
EXTENDS AmpChannel, AmpTouch, Integers, TLAPS

-----------------------------------------------------------------------------
(* A slot and its publication word.                                        *)

Slot == [head : Nat, rest : Nat]
Copying == {"head", "rest of it", "check"}
ReaderAt == {"rest", "again", "head", "rest of it", "check"}

ChannelTypeOK ==
    /\ channel \in Channel /\ publication \in Nat
    /\ payload \in Slot /\ copied \in Slot
    /\ writer \in [at : {"rest", "head", "rest of it", "publish"}, generation : Nat]
    /\ consumer \in [at : ReaderAt, before : Nat, attempt : Nat]

\* What the writer has done so far; a publication stands only while it rests.
WriterInv ==
    /\ publication # 0 => /\ writer.at = "rest" /\ publication = writer.generation
                          /\ payload.head = publication /\ payload.rest = publication
    /\ writer.at \in {"rest of it", "publish"} => payload.head = writer.generation
    /\ writer.at = "publish" => payload.rest = writer.generation

\* What the reader has copied comes from the publication it started from, for
\* as long as that publication stands; a later one has a later generation.
ReaderInv ==
    consumer.at \in Copying =>
        /\ consumer.before # 0 /\ consumer.before <= writer.generation
        /\ writer.at # "rest" => consumer.before < writer.generation
        /\ publication = consumer.before =>
              /\ consumer.at \in {"rest of it", "check"} => copied.head = publication
              /\ consumer.at = "check" => copied.rest = publication

ChannelInv == ChannelTypeOK /\ WriterInv /\ ReaderInv /\ NoFalseFault

USE DEF Bytes, Nothing, Slot, Copying, ReaderAt, Channel

\* Later generations are larger.
LEMMA Later == \A m, n \in Nat : /\ m <= n => m < n + 1 /\ m <= n + 1
                                 /\ m < n => m <= n /\ m # n
OBVIOUS

\* The writer's steps keep the invariant.
LEMMA WriterKeeps ==
    ASSUME ChannelInv, PublishBegins \/ CopyTo \/ PublishEnds
    PROVE  ChannelInv'
<1>1. /\ writer \in [at : {"rest", "head", "rest of it", "publish"}, generation : Nat]
      /\ payload \in Slot /\ publication \in Nat /\ channel \in Channel /\ copied \in Slot
      /\ consumer \in [at : ReaderAt, before : Nat, attempt : Nat]
  BY DEF ChannelInv, ChannelTypeOK
<1>n. writer.generation \in Nat /\ consumer.before \in Nat
  BY <1>1
<1>2. UNCHANGED <<channel, consumer, copied>>
  BY DEF PublishBegins, CopyTo, PublishEnds, readerVars
<1>3. NoFalseFault'
  BY Zenon DEF PublishBegins, CopyTo, PublishEnds, readerVars, ChannelInv, NoFalseFault
<1>4. CASE PublishBegins
  <2>1. /\ writer.at = "rest" /\ writer' = [at |-> "head", generation |-> writer.generation + 1]
        /\ publication' = 0 /\ payload' = payload
    BY <1>4 DEF PublishBegins
  <2>2. writer'.at = "head" /\ writer'.generation = writer.generation + 1
    BY <2>1
  <2>n. writer.generation + 1 \in Nat
    BY <1>n
  <2>w. writer' \in [at : {"rest", "head", "rest of it", "publish"}, generation : Nat]
    BY <2>1, <2>n
  <2>3. ChannelTypeOK'
    BY <1>1, <1>2, <2>1, <2>w DEF ChannelTypeOK
  <2>4. WriterInv'
    BY <2>1, <2>2 DEF WriterInv
  <2>5. ReaderInv'
    <3>1. consumer.at \in Copying =>
            consumer.before # 0 /\ consumer.before <= writer.generation
      BY DEF ChannelInv, ReaderInv
    <3> QED
      BY <1>n, <1>2, <2>1, <2>2, <3>1, Later DEF ReaderInv
  <2> QED
    BY <1>3, <2>3, <2>4, <2>5 DEF ChannelInv
<1>5. CASE CopyTo
  <2>1. writer.at \in {"head", "rest of it"} /\ publication' = publication
    BY <1>5 DEF CopyTo
  <2>2. publication = 0
    BY <2>1 DEF ChannelInv, WriterInv
  <2>3. /\ writer'.generation = writer.generation
        /\ writer'.at \in {"rest of it", "publish"} /\ payload'.head = writer.generation
        /\ writer'.at = "publish" => payload'.rest = writer.generation
        /\ writer' \in [at : {"rest", "head", "rest of it", "publish"}, generation : Nat]
        /\ payload' \in Slot
    <3>1. CASE /\ writer.at = "head" /\ writer' = [writer EXCEPT !.at = "rest of it"]
               /\ payload' = [payload EXCEPT !.head = writer.generation]
      BY <1>1, <3>1
    <3>2. CASE /\ writer.at = "rest of it" /\ writer' = [writer EXCEPT !.at = "publish"]
               /\ payload' = [payload EXCEPT !.rest = writer.generation]
      <4>1. payload.head = writer.generation
        BY <3>2 DEF ChannelInv, WriterInv
      <4> QED
        BY <1>1, <3>2, <4>1
    <3> QED
      BY <1>5, <3>1, <3>2 DEF CopyTo
  <2>4. ChannelTypeOK'
    BY <1>1, <1>2, <2>1, <2>3 DEF ChannelTypeOK
  <2>5. WriterInv'
    BY <2>1, <2>2, <2>3 DEF WriterInv
  <2>6. ReaderInv'
    <3>1. consumer.at \in Copying =>
            consumer.before # 0 /\ consumer.before < writer.generation
      BY <2>1 DEF ChannelInv, ReaderInv
    <3> QED
      BY <1>n, <1>2, <2>1, <2>2, <2>3, <3>1, Later DEF ReaderInv
  <2> QED
    BY <1>3, <2>4, <2>5, <2>6 DEF ChannelInv
<1>6. CASE PublishEnds
  <2>1. /\ writer.at = "publish" /\ writer' = [writer EXCEPT !.at = "rest"]
        /\ publication' = writer.generation /\ payload' = payload
    BY <1>6 DEF PublishEnds
  <2>2. writer'.at = "rest" /\ writer'.generation = writer.generation
    BY <1>1, <2>1
  <2>3. ChannelTypeOK'
    BY <1>1, <1>2, <2>1 DEF ChannelTypeOK
  <2>4. WriterInv'
    BY <2>1, <2>2 DEF ChannelInv, WriterInv
  <2>5. ReaderInv'
    <3>1. consumer.at \in Copying =>
            consumer.before # 0 /\ consumer.before < writer.generation
      BY <2>1 DEF ChannelInv, ReaderInv
    <3> QED
      BY <1>n, <1>2, <2>1, <2>2, <3>1, Later DEF ReaderInv
  <2> QED
    BY <1>3, <2>3, <2>4, <2>5 DEF ChannelInv
<1> QED
  BY <1>4, <1>5, <1>6

\* A copy that is found valid is the value of the publication that stands.
LEMMA ValidIsLatest ==
    ASSUME ChannelInv, consumer.at = "check", Unchanged
    PROVE  /\ copied = Bytes(writer.generation, writer.generation)
           /\ writer.at = "rest" /\ writer.generation # 0
           /\ copied.head = consumer.before
<1>1. publication # 0 /\ publication = consumer.before
  BY DEF ChannelInv, ReaderInv, Unchanged
<1>2. /\ publication = writer.generation /\ writer.at = "rest"
      /\ copied.head = publication /\ copied.rest = publication
  BY <1>1 DEF ChannelInv, WriterInv, ReaderInv
<1>3. copied \in Slot
  BY DEF ChannelInv, ChannelTypeOK
<1> QED
  BY <1>1, <1>2, <1>3

\* The reader's steps keep the invariant.
LEMMA ReaderKeeps ==
    ASSUME ChannelInv, ReadBegins \/ CopyFrom \/ ReadEnds
    PROVE  ChannelInv'
<1>1. /\ consumer \in [at : ReaderAt, before : Nat, attempt : Nat]
      /\ payload \in Slot /\ copied \in Slot /\ publication \in Nat
  BY DEF ChannelInv, ChannelTypeOK
<1>a. consumer.attempt \in Nat /\ consumer.before \in Nat
  BY <1>1
<1>n. consumer.attempt + 1 \in Nat
  BY <1>a
<1>2. UNCHANGED <<channel, publication, payload, writer>>
  BY DEF ReadBegins, CopyFrom, ReadEnds
<1>3. WriterInv'
  BY <1>2 DEF ChannelInv, WriterInv
<1>4. CASE ReadBegins
  <2>1. UNCHANGED <<copied, faulty>>
    BY <1>4 DEF ReadBegins
  <2>2. \/ consumer' = [consumer EXCEPT !.at = "again", !.attempt = consumer.attempt + 1]
        \/ consumer' = [at |-> "rest", before |-> 0, attempt |-> 0]
        \/ publication # 0 /\ consumer' = [consumer EXCEPT !.at = "head", !.before = publication]
    BY <1>4 DEF ReadBegins, Done
  <2>3. /\ consumer' \in [at : ReaderAt, before : Nat, attempt : Nat]
        /\ consumer'.at \in Copying =>
              publication # 0 /\ consumer'.at = "head" /\ consumer'.before = publication
    <3>1. CASE consumer' = [consumer EXCEPT !.at = "again", !.attempt = consumer.attempt + 1]
      BY <1>1, <1>n, <3>1
    <3>2. CASE consumer' = [at |-> "rest", before |-> 0, attempt |-> 0]
      BY <3>2
    <3>3. CASE publication # 0 /\ consumer' = [consumer EXCEPT !.at = "head", !.before = publication]
      BY <1>1, <3>3
    <3> QED
      BY <2>2, <3>1, <3>2, <3>3
  <2>4. ChannelTypeOK'
    BY <1>1, <1>2, <2>1, <2>3 DEF ChannelInv, ChannelTypeOK
  <2>5. ReaderInv'
    <3> SUFFICES ASSUME consumer'.at \in Copying PROVE ReaderInv'
      BY DEF ReaderInv
    <3>1. publication # 0 /\ consumer'.at = "head" /\ consumer'.before = publication
      BY <2>3
    <3>2. publication = writer.generation /\ writer.at = "rest"
      BY <3>1 DEF ChannelInv, WriterInv
    <3>3. writer.generation \in Nat
      BY <1>1, <3>2
    <3> QED
      BY <1>2, <3>1, <3>2, <3>3 DEF ReaderInv
  <2>6. NoFalseFault'
    BY <2>1 DEF ChannelInv, NoFalseFault
  <2> QED
    BY <1>3, <2>4, <2>5, <2>6 DEF ChannelInv
<1>5. CASE CopyFrom
  <2>1. faulty' = faulty
    BY <1>5 DEF CopyFrom
  <2>2. CASE /\ consumer.at = "head" /\ consumer' = [consumer EXCEPT !.at = "rest of it"]
             /\ copied' = [copied EXCEPT !.head = payload.head]
    BY <1>1, <1>2, <1>3, <2>1, <2>2
    DEF ChannelInv, ChannelTypeOK, WriterInv, ReaderInv, NoFalseFault
  <2>3. CASE /\ consumer.at = "rest of it" /\ consumer' = [consumer EXCEPT !.at = "check"]
             /\ copied' = [copied EXCEPT !.rest = payload.rest]
    BY <1>1, <1>2, <1>3, <2>1, <2>3
    DEF ChannelInv, ChannelTypeOK, WriterInv, ReaderInv, NoFalseFault
  <2> QED
    BY <1>5, <2>2, <2>3 DEF CopyFrom
<1>6. CASE ReadEnds
  <2>1. /\ consumer.at = "check" /\ copied' = copied
        /\ \/ consumer' = [at |-> "again", before |-> 0, attempt |-> consumer.attempt + 1]
           \/ consumer' = [at |-> "rest", before |-> 0, attempt |-> 0]
    BY <1>6 DEF ReadEnds, Done
  <2>2. faulty' = (faulty \/ (Unchanged /\ ~(copied.head = consumer.before)
                              /\ channel \in {"heartbeat", "command", "yaw"}))
    BY <1>6 DEF ReadEnds
  <2>3. Unchanged => copied.head = consumer.before
    BY <2>1, ValidIsLatest
  <2>4. NoFalseFault'
    BY <2>2, <2>3 DEF ChannelInv, NoFalseFault
  <2>5. /\ consumer' \in [at : ReaderAt, before : Nat, attempt : Nat]
        /\ consumer'.at \notin Copying
    <3>1. CASE consumer' = [at |-> "again", before |-> 0, attempt |-> consumer.attempt + 1]
      BY <1>n, <3>1
    <3>2. CASE consumer' = [at |-> "rest", before |-> 0, attempt |-> 0]
      BY <3>2
    <3> QED
      BY <2>1, <3>1, <3>2
  <2>6. ChannelTypeOK'
    BY <1>1, <1>2, <2>1, <2>5 DEF ChannelInv, ChannelTypeOK
  <2>7. ReaderInv'
    BY <2>5 DEF ReaderInv
  <2> QED
    BY <1>3, <2>4, <2>6, <2>7 DEF ChannelInv
<1> QED
  BY <1>4, <1>5, <1>6

\* The invariant of a slot between the two processors, for any number of
\* publications (PublishBegins to ReadEnds).
THEOREM ChannelInvariance == ChannelSpec => []ChannelInv
<1>1. ChannelInit => ChannelInv
  BY DEF ChannelInit, ChannelInv, ChannelTypeOK, WriterInv, ReaderInv, NoFalseFault
<1>2. ChannelInv /\ [ChannelNext]_channelVars => ChannelInv'
  <2> SUFFICES ASSUME ChannelInv, [ChannelNext]_channelVars PROVE ChannelInv'
    OBVIOUS
  <2>1. CASE UNCHANGED channelVars
    BY <2>1 DEF channelVars, ChannelInv, ChannelTypeOK, WriterInv, ReaderInv, NoFalseFault
  <2> QED
    BY <2>1, WriterKeeps, ReaderKeeps DEF ChannelNext
<1> QED
  BY <1>1, <1>2, PTL DEF ChannelSpec

\* No value that is merely being replaced is reported as an integrity failure
\* (boot error 9), however long either processor is stalled.
THEOREM NoReplacementIsAFault == ChannelSpec => []NoFalseFault
<1>1. ChannelInv => NoFalseFault
  BY DEF ChannelInv
<1> QED
  BY <1>1, ChannelInvariance, PTL

\* Every step of a slot is a step of the latest value, or none: the byte-wise
\* copies and the publication word give readers the latest value, whole.
THEOREM SlotIsLatestValue == ChannelSpec => ImplementsLatestValue
<1> DEFINE value == writer.generation - (IF writer.at = "rest" THEN 0 ELSE 1)
<1>1. ChannelInit => Latest!LatestInit
  BY DEF ChannelInit, Latest!LatestInit, Latest!Value
<1>2. ChannelInv /\ [ChannelNext]_channelVars
        => [Latest!publish \/ Latest!latest_after]_<<Bytes(value, value), accepted>>
  <2> SUFFICES ASSUME ChannelInv, [ChannelNext]_channelVars
               PROVE  [Latest!publish \/ Latest!latest_after]_<<Bytes(value, value), accepted>>
    OBVIOUS
  <2>1. /\ writer \in [at : {"rest", "head", "rest of it", "publish"}, generation : Nat]
    BY DEF ChannelInv, ChannelTypeOK
  <2>n. writer.generation \in Nat
    BY <2>1
  <2>2. CASE UNCHANGED channelVars
    BY <2>2 DEF channelVars
  <2>3. CASE PublishBegins
    <3>1. /\ writer.at = "rest" /\ writer'.at = "head" /\ accepted' = accepted
          /\ writer'.generation = writer.generation + 1
      BY <2>3 DEF PublishBegins, readerVars
    <3>2. value' = value
      BY <2>n, <3>1
    <3> QED
      BY <3>1, <3>2
  <2>4. CASE CopyTo
    <3>1. /\ writer.at # "rest" /\ writer'.at # "rest" /\ accepted' = accepted
          /\ writer'.generation = writer.generation
      BY <2>1, <2>4 DEF CopyTo, readerVars
    <3>2. value' = value
      BY <3>1
    <3> QED
      BY <3>1, <3>2
  <2>5. CASE PublishEnds
    <3>1. /\ writer.at = "publish" /\ writer'.at = "rest"
          /\ writer'.generation = writer.generation /\ accepted' = accepted
      BY <2>1, <2>5 DEF PublishEnds, readerVars
    <3>2. value' = value + 1 /\ value \in Int
      BY <2>n, <3>1
    <3>3. /\ Bytes(value', value') = [head |-> value + 1, rest |-> value + 1]
          /\ Bytes(value, value).head = value
      BY <3>2
    <3> QED
      BY <3>1, <3>2, <3>3 DEF Latest!publish, Latest!Value
  <2>6. CASE ReadBegins \/ CopyFrom
    BY <2>6 DEF ReadBegins, CopyFrom, Done
  <2>7. CASE ReadEnds
    <3>1. consumer.at = "check" /\ writer' = writer
      BY <2>7 DEF ReadEnds
    <3>2. accepted' = accepted \/ (Unchanged /\ accepted' = copied)
      BY <2>7 DEF ReadEnds, Done
    <3>3. value' = value
      BY <3>1
    <3>4. CASE Unchanged /\ accepted' = copied
      <4>1. /\ copied = Bytes(writer.generation, writer.generation)
            /\ writer.at = "rest" /\ writer.generation # 0
        BY <3>1, <3>4, ValidIsLatest
      <4>2. value = writer.generation
        BY <2>n, <4>1
      <4> QED
        BY <3>3, <3>4, <4>1, <4>2 DEF Latest!latest_after
    <3> QED
      BY <3>2, <3>3, <3>4
  <2> QED
    BY <2>2, <2>3, <2>4, <2>5, <2>6, <2>7 DEF ChannelNext
<1> QED
  BY <1>1, <1>2, ChannelInvariance, PTL DEF ChannelSpec, ImplementsLatestValue, Latest!LatestSpec

-----------------------------------------------------------------------------
(* The touch ring: for every capacity, and however often the input thread   *)
(* laps the renderer, a sample is delivered once and whole or counted as    *)
(* dropped.                                                                 *)

RingSlot == 0..(Capacity - 1)
TouchSample == [publication : Nat, generation : Nat, rest : Nat]
Writing == {"head", "rest of it", "publish"}

TouchTypeOK ==
    /\ ring \in [RingSlot -> TouchSample]
    /\ newest \in Nat /\ drops \in Nat /\ reached \in Nat /\ delivered \in Nat
    /\ toucher \in [at : Writing \cup {"rest", "announce"}, generation : Nat]
    /\ taker \in [at : {"rest", "begin", "head", "rest of it", "check"},
                  latest : Nat, wanted : Nat, copy : TouchSample]

\* The announced generation is the last one written, or the one before it while
\* the input thread is at work.
Announced ==
    /\ toucher.at = "rest" => newest = toucher.generation
    /\ toucher.at # "rest" => newest < toucher.generation

\* A published slot holds the sample it names, in the slot that is its own.
PublishedIsWhole == \A i \in RingSlot :
    LET s == ring[i]
    IN  s.publication # 0 =>
            s.generation = s.publication /\ s.rest = s.publication /\ SlotAt(s.publication) = i

\* The slot under the input thread's pen is not published, and holds what was
\* written so far.
UnderThePen == toucher.at \in Writing =>
    LET s == ring[SlotAt(toucher.generation)]
    IN  /\ s.publication = 0
        /\ toucher.at \in {"rest of it", "publish"} => s.generation = toucher.generation
        /\ toucher.at = "publish" => s.rest = toucher.generation

\* The renderer asks for a sample it has not had and that was announced.
AsksForNews ==
    /\ reached <= newest
    /\ taker.at # "rest" => reached < taker.wanted /\ taker.wanted <= newest

\* As long as the slot is still published as the sample asked for, what was
\* copied so far is of that sample.
CopyIsTheSlot ==
    /\ taker.at = "rest of it" /\ StillThere => taker.copy.generation = taker.wanted
    /\ taker.at = "check" /\ StillThere =>
           taker.copy.generation = taker.wanted /\ taker.copy.rest = taker.wanted

TouchInv ==
    /\ TouchTypeOK /\ Announced /\ PublishedIsWhole /\ UnderThePen
    /\ AsksForNews /\ CopyIsTheSlot /\ TouchesArrive

-----------------------------------------------------------------------------

\* Every generation from one on has a slot.
LEMMA SlotInRange == \A g \in Nat : g > 0 => SlotAt(g) \in RingSlot
<1>1. SUFFICES ASSUME NEW g \in Nat, g > 0 PROVE SlotAt(g) \in RingSlot
    OBVIOUS
<1>2. g - 1 \in Nat /\ Capacity \in Nat /\ Capacity > 0
    BY <1>1, CapacityAssumption
<1>3. \A m, c \in Nat : c > 0 => m % c \in 0..(c - 1)
    OBVIOUS
<1> QED BY <1>2, <1>3 DEF SlotAt, RingSlot

\* The ring starts empty and nothing was delivered.
LEMMA TouchStarts == TouchInit => TouchInv
<1> SUFFICES ASSUME TouchInit PROVE TouchInv
    OBVIOUS
<1>1. Empty \in TouchSample
    BY DEF Empty, TouchSample
<1>2. TouchTypeOK
    BY <1>1 DEF TouchInit, TouchTypeOK, Away, RingSlot, Writing
<1>3. Announced /\ AsksForNews
    BY DEF TouchInit, Announced, AsksForNews, Away
<1>4. PublishedIsWhole
    BY DEF TouchInit, PublishedIsWhole, Empty, RingSlot
<1>5. UnderThePen /\ CopyIsTheSlot
    BY DEF TouchInit, UnderThePen, CopyIsTheSlot, Away, Writing
<1>6. TouchesArrive
    BY DEF TouchInit, TouchesArrive, TouchesCounted, SampleIsWhole, Away
<1> QED BY <1>2, <1>3, <1>4, <1>5, <1>6 DEF TouchInv

\* What the input thread leaves alone: as long as it does not publish the sample
\* the renderer is after, the renderer's half of the invariant stands.
LEMMA WriterSpares ==
    ASSUME TouchInv, UNCHANGED <<drops, taker, reached, delivered>>, newest' >= newest,
           \A i \in RingSlot : ring'[i].publication \in {0, ring[i].publication}
                           \/ ring'[i].publication > newest
    PROVE  CopyIsTheSlot' /\ TouchesArrive' /\ (newest' \in Nat => AsksForNews')
<1> USE DEF TouchInv
<1>0. newest \in Nat /\ reached \in Nat /\ taker.wanted \in Nat
    BY DEF TouchTypeOK
<1>1. TouchesArrive'
    BY DEF TouchesArrive, TouchesCounted, SampleIsWhole
<1>2. newest' \in Nat => AsksForNews'
  <2>1. \A m, n, k \in Nat : m <= n /\ n <= k => m <= k
      OBVIOUS
  <2> QED BY <1>0, <2>1 DEF AsksForNews
<1>3. CopyIsTheSlot'
  <2>1. CASE taker.at \in {"rest of it", "check"}
    <3>1. taker.wanted \in Nat /\ taker.wanted > 0 /\ taker.wanted <= newest
      <4>1. taker.at # "rest"
          BY <2>1
      <4>2. reached < taker.wanted /\ taker.wanted <= newest
          BY <4>1 DEF AsksForNews
      <4> QED BY <1>0, <4>2
    <3>2. SlotAt(taker.wanted) \in RingSlot
        BY <3>1, SlotInRange
    <3>3. StillThere' => StillThere
      <4>1. newest \in Nat
          BY DEF TouchTypeOK
      <4> QED BY <3>1, <3>2, <4>1 DEF StillThere, SlotAt
    <3> QED BY <3>3 DEF CopyIsTheSlot
  <2> QED BY <2>1 DEF CopyIsTheSlot
<1> QED BY <1>1, <1>2, <1>3

\* One field of one slot is written: the ring stays a ring, and the other slots
\* and the other fields keep what they had.
LEMMA PutWrites ==
    ASSUME TouchTypeOK, NEW i \in RingSlot, NEW f \in {"publication", "generation", "rest"},
           NEW v \in Nat, ring' = [ring EXCEPT ![i][f] = v]
    PROVE  /\ ring' \in [RingSlot -> TouchSample]
           /\ \A j \in RingSlot : j # i => ring'[j] = ring[j]
           /\ ring'[i][f] = v
           /\ \A h \in {"publication", "generation", "rest"} : h # f => ring'[i][h] = ring[i][h]
<1>1. ring \in [RingSlot -> TouchSample] /\ ring[i] \in TouchSample
    BY DEF TouchTypeOK
<1> DEFINE s == [ring[i] EXCEPT ![f] = v]
<1>2. /\ s[f] = v
      /\ \A h \in {"publication", "generation", "rest"} : h # f => s[h] = ring[i][h]
    BY <1>1 DEF TouchSample
<1>3. s \in TouchSample
  <2>1. CASE f = "publication"
      BY <1>1, <2>1 DEF TouchSample
  <2>2. CASE f = "generation"
      BY <1>1, <2>2 DEF TouchSample
  <2>3. CASE f = "rest"
      BY <1>1, <2>3 DEF TouchSample
  <2> QED BY <2>1, <2>2, <2>3
<1> HIDE DEF s
<1>4. ring' = [ring EXCEPT ![i] = s]
    BY DEF s
<1> QED BY <1>1, <1>2, <1>3, <1>4

\* The input thread takes the next generation and withdraws its slot.
LEMMA BeginsKeeps == TouchInv /\ TouchBegins => TouchInv'
<1> SUFFICES ASSUME TouchInv, TouchBegins PROVE TouchInv'
    OBVIOUS
<1> DEFINE g == toucher.generation + 1
           i == SlotAt(g)
<1>0. toucher.generation \in Nat /\ newest \in Nat /\ TouchTypeOK
    BY DEF TouchInv, TouchTypeOK
<1>1. g \in Nat /\ g > 0
    BY <1>0
<1>2. i \in RingSlot
    BY <1>1, SlotInRange
<1>3. toucher'.at = "head" /\ toucher'.generation = g /\ newest' = newest
      /\ UNCHANGED <<drops, taker, reached, delivered>>
    BY DEF TouchBegins
<1>4. ring' = [ring EXCEPT ![i]["publication"] = 0]
    BY <1>3 DEF TouchBegins, PutSlot
<1> HIDE DEF i, g
<1>5. /\ ring' \in [RingSlot -> TouchSample] /\ ring'[i].publication = 0
      /\ \A j \in RingSlot : j # i => ring'[j] = ring[j]
    BY <1>0, <1>2, <1>4, PutWrites
<1>6. TouchTypeOK'
  <2>1. toucher' \in [at : Writing \cup {"rest", "announce"}, generation : Nat]
      BY <1>1 DEF TouchBegins, Writing, g
  <2> QED BY <1>0, <1>3, <1>5, <2>1 DEF TouchTypeOK
<1>7. Announced'
  <2>1. newest = toucher.generation
      BY DEF TouchInv, Announced, TouchBegins
  <2> QED BY <1>0, <1>3, <2>1 DEF Announced, g
<1>8. PublishedIsWhole'
    BY <1>5 DEF PublishedIsWhole, TouchInv, SlotAt
<1>9. UnderThePen'
    BY <1>3, <1>5 DEF UnderThePen, i, SlotAt
<1>10. \A j \in RingSlot : ring'[j].publication \in {0, ring[j].publication}
    BY <1>5
<1>11. CopyIsTheSlot' /\ TouchesArrive' /\ AsksForNews'
    BY <1>0, <1>3, <1>10, WriterSpares
<1> QED BY <1>6, <1>7, <1>8, <1>9, <1>11 DEF TouchInv

\* It writes the sample into the slot it has withdrawn.
LEMMA CopiesKeeps == TouchInv /\ TouchCopies => TouchInv'
<1> SUFFICES ASSUME TouchInv, TouchCopies PROVE TouchInv'
    OBVIOUS
<1> DEFINE g == toucher.generation
           i == SlotAt(g)
<1>1. TouchTypeOK /\ g \in Nat /\ newest \in Nat /\ toucher.at \in {"head", "rest of it"}
    BY DEF TouchInv, TouchTypeOK, TouchCopies, ToucherGoes
<1>2. g > 0 /\ newest < g
  <2>1. newest < g
      BY <1>1 DEF TouchInv, Announced
  <2>2. \A m, n \in Nat : m < n => n > 0
      OBVIOUS
  <2> QED BY <1>1, <2>1, <2>2
<1>3. i \in RingSlot
    BY <1>1, <1>2, SlotInRange
<1>4. toucher'.generation = g /\ newest' = newest /\ UNCHANGED <<drops, taker, reached, delivered>>
      /\ toucher' \in [at : {"rest of it", "publish"}, generation : Nat]
    BY <1>1 DEF TouchCopies, ToucherGoes, TouchTypeOK
<1>5. \/ toucher.at = "head" /\ toucher'.at = "rest of it"
         /\ ring' = [ring EXCEPT ![i]["generation"] = g]
      \/ toucher.at = "rest of it" /\ toucher'.at = "publish"
         /\ ring' = [ring EXCEPT ![i]["rest"] = g]
  <2>1. CASE ToucherGoes("head", "rest of it") /\ PutSlot("generation", toucher.generation)
      BY <1>1, <1>4, <2>1 DEF ToucherGoes, PutSlot, TouchTypeOK
  <2>2. CASE ToucherGoes("rest of it", "publish") /\ PutSlot("rest", toucher.generation)
      BY <1>1, <1>4, <2>2 DEF ToucherGoes, PutSlot, TouchTypeOK
  <2> QED BY <2>1, <2>2 DEF TouchCopies
<1>6. ring[i].publication = 0 /\ (toucher.at = "rest of it" => ring[i].generation = g)
    BY <1>1 DEF TouchInv, UnderThePen, Writing
<1> HIDE DEF i, g
<1>7. /\ ring' \in [RingSlot -> TouchSample] /\ ring'[i].publication = 0
      /\ \A j \in RingSlot : j # i => ring'[j] = ring[j]
      /\ ring'[i].generation = g
      /\ toucher'.at = "publish" => ring'[i].rest = g
  <2>1. CASE toucher.at = "head"
    <3>1. ring' = [ring EXCEPT ![i]["generation"] = g] /\ toucher'.at = "rest of it"
        BY <1>5, <2>1
    <3> QED BY <1>1, <1>3, <1>6, <3>1, PutWrites
  <2>2. CASE toucher.at = "rest of it"
    <3>1. ring' = [ring EXCEPT ![i]["rest"] = g]
        BY <1>5, <2>2
    <3> QED BY <1>1, <1>3, <1>6, <2>2, <3>1, PutWrites
  <2> QED BY <1>1, <2>1, <2>2
<1>8. TouchTypeOK'
    BY <1>1, <1>4, <1>7 DEF TouchTypeOK, Writing
<1>9. Announced'
    BY <1>2, <1>4 DEF Announced
<1>10. PublishedIsWhole'
    BY <1>7 DEF PublishedIsWhole, TouchInv, SlotAt
<1>11. UnderThePen'
    BY <1>4, <1>7 DEF UnderThePen, i, SlotAt
<1>12. \A j \in RingSlot : ring'[j].publication \in {0, ring[j].publication}
    BY <1>7
<1>13. CopyIsTheSlot' /\ TouchesArrive' /\ AsksForNews'
  <2>1. newest \in Nat /\ newest' = newest
      BY <1>1, <1>4
  <2>2. newest' \in Nat /\ newest' >= newest
      BY <2>1
  <2> QED BY <1>4, <1>12, <2>2, WriterSpares
<1> QED BY <1>8, <1>9, <1>10, <1>11, <1>13 DEF TouchInv

\* It publishes the slot: the sample in it is whole, and newer than any the
\* renderer may be after.
LEMMA PublishesKeeps == TouchInv /\ TouchPublishes => TouchInv'
<1> SUFFICES ASSUME TouchInv, TouchPublishes PROVE TouchInv'
    OBVIOUS
<1> DEFINE g == toucher.generation
           i == SlotAt(g)
<1>1. TouchTypeOK /\ g \in Nat /\ newest \in Nat /\ toucher.at = "publish"
    BY DEF TouchInv, TouchTypeOK, TouchPublishes, ToucherGoes
<1>2. g > 0 /\ newest < g
  <2>1. newest < g
      BY <1>1 DEF TouchInv, Announced
  <2>2. \A m, n \in Nat : m < n => n > 0
      OBVIOUS
  <2> QED BY <1>1, <2>1, <2>2
<1>3. i \in RingSlot
    BY <1>1, <1>2, SlotInRange
<1>4. toucher'.generation = g /\ toucher'.at = "announce" /\ newest' = newest
      /\ UNCHANGED <<drops, taker, reached, delivered>>
    BY <1>1 DEF TouchPublishes, ToucherGoes, TouchTypeOK
<1>5. ring' = [ring EXCEPT ![i]["publication"] = g]
    BY <1>4 DEF TouchPublishes, PutSlot
<1>6. ring[i].generation = g /\ ring[i].rest = g
    BY <1>1 DEF TouchInv, UnderThePen, Writing
<1>7. SlotAt(g) = i
    OBVIOUS
<1> HIDE DEF i, g
<1>8. /\ ring' \in [RingSlot -> TouchSample] /\ ring'[i].publication = g
      /\ \A j \in RingSlot : j # i => ring'[j] = ring[j]
      /\ ring'[i].generation = g /\ ring'[i].rest = g
    BY <1>1, <1>3, <1>5, <1>6, PutWrites
<1>9. TouchTypeOK'
  <2>1. toucher' \in [at : Writing \cup {"rest", "announce"}, generation : Nat]
      BY <1>1 DEF TouchPublishes, ToucherGoes, TouchTypeOK
  <2> QED BY <1>1, <1>4, <1>8, <2>1 DEF TouchTypeOK
<1>10. Announced' /\ UnderThePen'
    BY <1>2, <1>4 DEF Announced, UnderThePen, Writing
<1>11. PublishedIsWhole'
    BY <1>7, <1>8 DEF PublishedIsWhole, TouchInv, SlotAt
<1>12. \A j \in RingSlot : ring'[j].publication = ring[j].publication \/ ring'[j].publication > newest
    BY <1>1, <1>2, <1>8
<1>13. CopyIsTheSlot' /\ TouchesArrive' /\ AsksForNews'
  <2>1. newest \in Nat /\ newest' = newest
      BY <1>1, <1>4
  <2>2. newest' \in Nat /\ newest' >= newest
      BY <2>1
  <2> QED BY <1>4, <1>12, <2>2, WriterSpares
<1> QED BY <1>9, <1>10, <1>11, <1>13 DEF TouchInv

\* It announces the generation it has published.
LEMMA AnnouncesKeeps == TouchInv /\ TouchAnnounces => TouchInv'
<1> SUFFICES ASSUME TouchInv, TouchAnnounces PROVE TouchInv'
    OBVIOUS
<1>1. TouchTypeOK /\ toucher.generation \in Nat /\ newest \in Nat /\ toucher.at = "announce"
    BY DEF TouchInv, TouchTypeOK, TouchAnnounces, ToucherGoes
<1>2. newest < toucher.generation
    BY <1>1 DEF TouchInv, Announced
<1>3. toucher'.generation = toucher.generation /\ toucher'.at = "rest" /\ ring' = ring
      /\ newest' = toucher.generation /\ UNCHANGED <<drops, taker, reached, delivered>>
    BY <1>1 DEF TouchAnnounces, ToucherGoes, TouchTypeOK
<1>4. TouchTypeOK'
  <2>1. toucher' \in [at : Writing \cup {"rest", "announce"}, generation : Nat]
      BY <1>1 DEF TouchAnnounces, ToucherGoes, TouchTypeOK
  <2> QED BY <1>1, <1>3, <2>1 DEF TouchTypeOK
<1>5. Announced' /\ UnderThePen'
    BY <1>3 DEF Announced, UnderThePen, Writing
<1>6. PublishedIsWhole'
    BY <1>3 DEF PublishedIsWhole, TouchInv, SlotAt
<1>7. newest' \in Nat /\ newest' >= newest
    BY <1>1, <1>2, <1>3
<1>8. CopyIsTheSlot' /\ TouchesArrive' /\ AsksForNews'
    BY <1>3, <1>7, WriterSpares
<1> QED BY <1>4, <1>5, <1>6, <1>8 DEF TouchInv


\* What the renderer leaves alone: the ring and the input thread's step.
LEMMA ReaderSpares ==
    ASSUME TouchInv, UNCHANGED <<ring, newest, toucher>>
    PROVE  Announced' /\ PublishedIsWhole' /\ UnderThePen'
BY DEF TouchInv, Announced, PublishedIsWhole, UnderThePen, SlotAt

\* The sample asked for lies between the last one reached and the newest, also
\* when the ring has gone round since.
LEMMA WantedIsNews ==
    ASSUME reached \in Nat, newest \in Nat, reached < newest
    PROVE  Wanted(newest) \in Nat /\ reached < Wanted(newest) /\ Wanted(newest) <= newest
<1>1. \A r, n \in Nat, c \in Nat \ {0} : r < n =>
          LET w == IF n - (r + 1) >= c THEN n - c + 1 ELSE r + 1
          IN  w \in Nat /\ r < w /\ w <= n
    OBVIOUS
<1> QED BY <1>1, CapacityAssumption DEF Wanted

\* The renderer sees a new generation and picks a sample.
LEMMA TakeBeginsKeeps == TouchInv /\ TakeBegins => TouchInv'
<1> SUFFICES ASSUME TouchInv, TakeBegins PROVE TouchInv'
    OBVIOUS
<1>1. TouchTypeOK /\ newest \in Nat /\ reached \in Nat
    BY DEF TouchInv, TouchTypeOK
<1>2. UNCHANGED <<ring, newest, drops, toucher, reached, delivered>> /\ newest # reached
    BY DEF TakeBegins
<1>3. reached < newest
  <2>1. reached <= newest
      BY DEF TouchInv, AsksForNews
  <2> QED BY <1>1, <1>2, <2>1
<1> DEFINE w == Wanted(newest)
<1>4. w \in Nat /\ reached < w /\ w <= newest
    BY <1>1, <1>3, WantedIsNews
<1> HIDE DEF w
<1>5. taker' = [at |-> "begin", latest |-> newest, wanted |-> w, copy |-> Empty]
    BY DEF TakeBegins, Away, w
<1>6. TouchTypeOK'
    BY <1>1, <1>2, <1>4, <1>5 DEF TouchTypeOK, Empty, TouchSample
<1>7. AsksForNews'
  <2>1. taker'.wanted = w
      BY <1>5
  <2> QED BY <1>1, <1>2, <1>3, <1>4, <2>1 DEF AsksForNews
<1>8. CopyIsTheSlot' /\ TouchesArrive'
    BY <1>2, <1>5 DEF CopyIsTheSlot, TouchInv, TouchesArrive, TouchesCounted, SampleIsWhole
<1> QED BY <1>2, <1>6, <1>7, <1>8, ReaderSpares DEF TouchInv

\* It looks whether the slot is published as that sample, and tries again later
\* when it is not.
LEMMA TakeLooksKeeps == TouchInv /\ TakeLooks => TouchInv'
<1> SUFFICES ASSUME TouchInv, TakeLooks PROVE TouchInv'
    OBVIOUS
<1>1. TouchTypeOK
    BY DEF TouchInv
<1>2. UNCHANGED <<ring, newest, drops, toucher, reached, delivered>> /\ taker.at = "begin"
    BY DEF TakeLooks
<1>3. taker' = [taker EXCEPT !.at = "head"] \/ taker' = Away
    BY DEF TakeLooks
<1>4. TouchTypeOK'
  <2>1. CASE taker' = Away
      BY <1>1, <1>2, <2>1 DEF TouchTypeOK, Away, Empty, TouchSample
  <2>2. CASE taker' = [taker EXCEPT !.at = "head"]
      BY <1>1, <1>2, <2>2 DEF TouchTypeOK
  <2> QED BY <1>3, <2>1, <2>2
<1>5. AsksForNews' /\ CopyIsTheSlot' /\ TouchesArrive'
  <2>1. CASE taker' = Away
      BY <1>2, <2>1 DEF TouchInv, AsksForNews, CopyIsTheSlot, TouchesArrive, TouchesCounted,
                        SampleIsWhole, Away
  <2>2. CASE taker' = [taker EXCEPT !.at = "head"]
    <3>1. taker'.at = "head" /\ taker'.wanted = taker.wanted
        BY <1>1, <2>2 DEF TouchTypeOK
    <3> QED BY <1>2, <3>1 DEF TouchInv, AsksForNews, CopyIsTheSlot, TouchesArrive,
                              TouchesCounted, SampleIsWhole
  <2> QED BY <1>3, <2>1, <2>2
<1> QED BY <1>2, <1>4, <1>5, ReaderSpares DEF TouchInv

\* It copies the slot field by field while the input thread may be writing there.
LEMMA TakeCopiesKeeps == TouchInv /\ TakeCopies => TouchInv'
<1> SUFFICES ASSUME TouchInv, TakeCopies PROVE TouchInv'
    OBVIOUS
<1> DEFINE w == taker.wanted
           i == SlotAt(w)
<1>1. TouchTypeOK /\ taker \in [at : {"rest", "begin", "head", "rest of it", "check"},
                                latest : Nat, wanted : Nat, copy : TouchSample]
      /\ reached \in Nat /\ w \in Nat
    BY DEF TouchInv, TouchTypeOK
<1>2. UNCHANGED <<ring, newest, drops, toucher, reached, delivered>>
      /\ taker.at \in {"head", "rest of it"}
    BY DEF TakeCopies
<1>3. w > 0 /\ w # 0
  <2>1. reached < w
      BY <1>2 DEF TouchInv, AsksForNews
  <2>2. \A m, n \in Nat : m < n => n > 0 /\ n # 0
      OBVIOUS
  <2> QED BY <1>1, <2>1, <2>2
<1>4. i \in RingSlot /\ ring[i] \in TouchSample
  <2>1. i \in RingSlot
      BY <1>1, <1>3, SlotInRange
  <2> QED BY <1>1, <2>1 DEF TouchTypeOK
<1>5. ring[i].publication = w => ring[i].generation = w /\ ring[i].rest = w
  <2>1. LET s == ring[i] IN s.publication # 0 => s.generation = s.publication /\ s.rest = s.publication
      BY <1>4 DEF TouchInv, PublishedIsWhole
  <2> QED BY <1>3, <2>1
<1>6. CASE taker.at = "head"
  <2>1. taker' = [taker EXCEPT !.at = "rest of it", !.copy.generation = ring[i].generation]
      BY <1>6 DEF TakeCopies
  <2>2. taker'.at = "rest of it" /\ taker'.wanted = w
        /\ taker'.copy.generation = ring[i].generation
      BY <1>1, <2>1 DEF TouchSample
  <2>3. TouchTypeOK'
      BY <1>1, <1>2, <1>4, <2>1 DEF TouchTypeOK, TouchSample
  <2>4. AsksForNews' /\ TouchesArrive'
      BY <1>2, <2>2 DEF TouchInv, AsksForNews, TouchesArrive, TouchesCounted, SampleIsWhole
  <2>5. CopyIsTheSlot'
      BY <1>2, <1>5, <2>2 DEF CopyIsTheSlot, StillThere, SlotAt
  <2> QED BY <1>2, <2>3, <2>4, <2>5, ReaderSpares DEF TouchInv
<1>7. CASE taker.at = "rest of it"
  <2>1. taker' = [taker EXCEPT !.at = "check", !.copy.rest = ring[i].rest]
      BY <1>7 DEF TakeCopies
  <2>2. taker'.at = "check" /\ taker'.wanted = w
        /\ taker'.copy.generation = taker.copy.generation /\ taker'.copy.rest = ring[i].rest
      BY <1>1, <2>1 DEF TouchSample
  <2>3. TouchTypeOK'
      BY <1>1, <1>2, <1>4, <2>1 DEF TouchTypeOK, TouchSample
  <2>4. AsksForNews' /\ TouchesArrive'
      BY <1>2, <2>2 DEF TouchInv, AsksForNews, TouchesArrive, TouchesCounted, SampleIsWhole
  <2>5. CopyIsTheSlot'
      BY <1>2, <1>5, <1>7, <2>2 DEF TouchInv, CopyIsTheSlot, StillThere, SlotAt
  <2> QED BY <1>2, <2>3, <2>4, <2>5, ReaderSpares DEF TouchInv
<1> QED BY <1>2, <1>6, <1>7

\* It looks at the publication word again: unchanged, the copy is the sample and
\* the ones passed over are counted; else nothing happened.
LEMMA TakeEndsKeeps == TouchInv /\ TakeEnds => TouchInv'
<1> SUFFICES ASSUME TouchInv, TakeEnds PROVE TouchInv'
    OBVIOUS
<1>1. TouchTypeOK /\ reached \in Nat /\ newest \in Nat /\ drops \in Nat /\ delivered \in Nat
      /\ taker.wanted \in Nat /\ taker.copy \in TouchSample
    BY DEF TouchInv, TouchTypeOK
<1>2. UNCHANGED <<ring, newest, toucher>> /\ taker.at = "check"
    BY DEF TakeEnds
<1>3. reached < taker.wanted /\ taker.wanted <= newest /\ reached <= newest
      /\ reached = delivered + drops
    BY <1>2 DEF TouchInv, AsksForNews, TouchesArrive, TouchesCounted
<1>4. CASE StillThere
  <2>1. taker.copy.generation = taker.wanted /\ taker.copy.rest = taker.wanted
      BY <1>2, <1>4 DEF TouchInv, CopyIsTheSlot
  <2>2. reached' = taker.wanted /\ delivered' = delivered + 1
        /\ drops' = drops + (taker.wanted - (reached + 1))
      BY <1>4, <2>1 DEF TakeEnds, Skips
  <2>3. taker' = [at |-> "rest", latest |-> 0, wanted |-> 0, copy |-> taker.copy]
      BY <1>4 DEF TakeEnds, Away
  <2>4. reached' \in Nat /\ delivered' \in Nat /\ drops' \in Nat /\ reached' = delivered' + drops'
    <3>1. \A r, w, d, e \in Nat : r < w /\ r = d + e =>
              e + (w - (r + 1)) \in Nat /\ w = (d + 1) + (e + (w - (r + 1)))
        OBVIOUS
    <3> QED BY <1>1, <1>3, <2>2, <3>1
  <2>5. TouchTypeOK'
      BY <1>1, <1>2, <2>3, <2>4 DEF TouchTypeOK
  <2>6. AsksForNews' /\ CopyIsTheSlot'
      BY <1>2, <1>3, <2>2, <2>3 DEF AsksForNews, CopyIsTheSlot
  <2>7. TouchesArrive'
      BY <2>1, <2>2, <2>3, <2>4 DEF TouchesArrive, TouchesCounted, SampleIsWhole
  <2> QED BY <1>2, <2>5, <2>6, <2>7, ReaderSpares DEF TouchInv
<1>5. CASE ~StillThere
  <2>1. taker' = Away /\ UNCHANGED <<drops, reached, delivered>>
      BY <1>5 DEF TakeEnds, Skips, Away
  <2>2. TouchTypeOK'
      BY <1>1, <1>2, <2>1 DEF TouchTypeOK, Away, Empty, TouchSample
  <2>3. AsksForNews' /\ CopyIsTheSlot' /\ TouchesArrive'
      BY <1>2, <1>3, <2>1 DEF AsksForNews, CopyIsTheSlot, TouchesArrive, TouchesCounted,
                              SampleIsWhole, Away
  <2> QED BY <1>2, <2>2, <2>3, ReaderSpares DEF TouchInv
<1> QED BY <1>4, <1>5

-----------------------------------------------------------------------------

\* The ring, the input thread and the renderer stay in step: the inductive
\* invariant of publish_touch and deskkin_touch_read.
THEOREM TouchInvariance == TouchSpec => []TouchInv
<1>1. TouchInv /\ [TouchNext]_touchVars => TouchInv'
  <2> SUFFICES ASSUME TouchInv, [TouchNext]_touchVars PROVE TouchInv'
      OBVIOUS
  <2>1. CASE ToucherNext
      BY <2>1, BeginsKeeps, CopiesKeeps, PublishesKeeps, AnnouncesKeeps DEF ToucherNext
  <2>2. CASE TakerNext
      BY <2>2, TakeBeginsKeeps, TakeLooksKeeps, TakeCopiesKeeps, TakeEndsKeeps DEF TakerNext
  <2>3. CASE UNCHANGED touchVars
      BY <2>3 DEF touchVars, TouchInv, TouchTypeOK, Announced, PublishedIsWhole, UnderThePen,
                  AsksForNews, CopyIsTheSlot, StillThere, TouchesArrive, TouchesCounted,
                  SampleIsWhole, SlotAt
  <2> QED BY <2>1, <2>2, <2>3 DEF TouchNext
<1> QED BY <1>1, TouchStarts, PTL DEF TouchSpec

\* Every touch up to the last the renderer has reached was delivered once and
\* whole, or is in the drop count, for every capacity of the ring: the two looks
\* at the publication word in deskkin_touch_read are enough.
THEOREM TouchesAreAccountedFor == TouchSpec => []TouchesArrive
<1>1. TouchInv => TouchesArrive
    BY DEF TouchInv
<1> QED BY <1>1, TouchInvariance, PTL

=============================================================================
