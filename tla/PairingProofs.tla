--------------------------- MODULE PairingProofs ---------------------------
(***************************************************************************)
(* Pairing keeps the promise of PairingTrust for every set of devices,     *)
(* transactions and faults.                                                *)
(*                                                                         *)
(* Evidence only accumulates: consent and log grow, so what a message in   *)
(* flight or a thread's position says of the stores stays true of every    *)
(* other connection.  Each action is therefore looked at on its own        *)
(* connection; the two negative facts, an untouched transaction and the    *)
(* record a device builds on, are followed separately.                     *)
(***************************************************************************)
EXTENDS Pairing, PairingTrustProofs, SequenceTheorems

-----------------------------------------------------------------------------
(* Queues.                                                                 *)

\* A reader finds what was in flight, and leaves nothing new behind.
LEMMA ReadInFlight ==
    ASSUME NEW q \in Seq(Message), q # <<>>
    PROVE  /\ Head(q) \in Message /\ Tail(q) \in Seq(Message)
           /\ InFlight(q, Head(q))
           /\ \A m : InFlight(Tail(q), m) => InFlight(q, m)
  <1>1. Len(q) \in Nat /\ Len(q) > 0 /\ Head(q) = q[1]
    BY EmptySeq, LenProperties
  <1>2. Tail(q) \in Seq(Message) /\ Len(Tail(q)) = Len(q) - 1
        /\ \A i \in 1..Len(Tail(q)) : Tail(q)[i] = q[i + 1]
    BY HeadTailProperties
  <1>3. Head(q) \in Message
    BY HeadTailProperties
  <1> QED
    BY <1>1, <1>2, <1>3 DEF InFlight

\* A sender adds exactly what it sends.
LEMMA SendInFlight ==
    ASSUME NEW q \in Seq(Message), NEW ms \in Seq(Message)
    PROVE  /\ q \o ms \in Seq(Message)
           /\ \A m : InFlight(q \o ms, m) => InFlight(q, m) \/ InFlight(ms, m)
  <1>1. q \o ms \in Seq(Message) /\ Len(q \o ms) = Len(q) + Len(ms)
        /\ \A i \in 1..Len(q) + Len(ms) :
              (q \o ms)[i] = IF i <= Len(q) THEN q[i] ELSE ms[i - Len(q)]
    BY ConcatProperties
  <1>2. Len(q) \in Nat /\ Len(ms) \in Nat
    OBVIOUS
  <1>3. ASSUME NEW m, InFlight(q \o ms, m)
        PROVE  InFlight(q, m) \/ InFlight(ms, m)
    <2>1. PICK i \in 1..Len(q) + Len(ms) : (q \o ms)[i] = m
      BY <1>1, <1>3 DEF InFlight
    <2>2. CASE i <= Len(q)
      BY <2>1, <2>2, <1>1, <1>2 DEF InFlight
    <2>3. CASE ~(i <= Len(q))
      <3>1. i - Len(q) \in 1..Len(ms) /\ ms[i - Len(q)] = m
        BY <2>1, <2>3, <1>1, <1>2
      <3> QED
        BY <3>1 DEF InFlight
    <2> QED
      BY <2>2, <2>3
  <1> QED
    BY <1>1, <1>3

\* The few sequences the threads send.
LEMMA Sent ==
    /\ \A m : ~InFlight(<<>>, m)
    /\ \A a, m : InFlight(<<a>>, m) => m = a
    /\ \A a, b, m : InFlight(<<a, b>>, m) => m \in {a, b}
  BY DEF InFlight

\* What reading the expected message does to the responder's queue.
LEMMA ResponderReadsOK ==
    ASSUME TypeOK, NEW t \in Tx, NEW pc \in DOMAIN ResponderExpects,
           ResponderReads(t, pc)
    PROVE  /\ rpc[t] = pc
           /\ toR' \in [Tx -> Seq(Message)]
           /\ \A x \in Tx \ {t} : toR'[x] = toR[x]
           /\ InFlight(toR[t], ResponderExpects[pc])
           /\ \A m : InFlight(toR'[t], m) => InFlight(toR[t], m)
  BY ReadInFlight DEF TypeOK, ResponderReads

\* What reading the expected message does to the initiator's queue.
LEMMA InitiatorReadsOK ==
    ASSUME TypeOK, NEW t \in Tx, NEW pc \in DOMAIN InitiatorExpects,
           InitiatorReads(t, pc)
    PROVE  /\ ipc[t] = pc
           /\ toI' \in [Tx -> Seq(Message)]
           /\ \A x \in Tx \ {t} : toI'[x] = toI[x]
           /\ InFlight(toI[t], InitiatorExpects[pc])
           /\ \A m : InFlight(toI'[t], m) => InFlight(toI[t], m)
  BY ReadInFlight DEF TypeOK, InitiatorReads

\* A send to the initiator adds those messages and no others.
LEMMA ToInitiatorOK ==
    ASSUME TypeOK, NEW t \in Tx, NEW ms \in Seq(Message), ToInitiator(t, ms)
    PROVE  /\ toI' \in [Tx -> Seq(Message)]
           /\ \A x \in Tx \ {t} : toI'[x] = toI[x]
           /\ \A m : InFlight(toI'[t], m) => InFlight(toI[t], m) \/ InFlight(ms, m)
  BY SendInFlight DEF TypeOK, ToInitiator

\* A send to the responder adds those messages and no others.
LEMMA ToResponderOK ==
    ASSUME TypeOK, NEW t \in Tx, NEW ms \in Seq(Message), ToResponder(t, ms)
    PROVE  /\ toR' \in [Tx -> Seq(Message)]
           /\ \A x \in Tx \ {t} : toR'[x] = toR[x]
           /\ \A m : InFlight(toR'[t], m) => InFlight(toR[t], m) \/ InFlight(ms, m)
  BY SendInFlight DEF TypeOK, ToResponder

\* Only the responder thread of t moves.
LEMMA ResponderAtOK ==
    ASSUME TypeOK, NEW t \in Tx, NEW pc \in ResponderPc, ResponderAt(t, pc)
    PROVE  /\ rpc' \in [Tx -> ResponderPc] /\ rpc'[t] = pc
           /\ \A x \in Tx \ {t} : rpc'[x] = rpc[x]
  BY DEF TypeOK, ResponderAt

\* Only the initiator thread of t moves.
LEMMA InitiatorAtOK ==
    ASSUME TypeOK, NEW t \in Tx, NEW pc \in InitiatorPc, InitiatorAt(t, pc)
    PROVE  /\ ipc' \in [Tx -> InitiatorPc] /\ ipc'[t] = pc
           /\ \A x \in Tx \ {t} : ipc'[x] = ipc[x]
  BY DEF TypeOK, InitiatorAt

-----------------------------------------------------------------------------
(* Steps that publish nothing.                                             *)

\* What the responder may put in flight without a publication.
Harmless(m) == m \notin {"Confirmed", "Committed", "Prepared", "Hello"}

\* A responder step that changes nothing durable preserves the invariant when
\* what it sends and where it goes are vouched for.
LEMMA ResponderLocal ==
    ASSUME IInv, NEW t \in Tx, UNCHANGED <<durable, ipc>>,
           rpc' \in [Tx -> ResponderPc], \A x \in Tx \ {t} : rpc'[x] = rpc[x],
           toR' \in [Tx -> Seq(Message)], \A x \in Tx \ {t} : toR'[x] = toR[x],
           toI' \in [Tx -> Seq(Message)], \A x \in Tx \ {t} : toI'[x] = toI[x],
           \A m : InFlight(toR'[t], m) => InFlight(toR[t], m),
           \A m : InFlight(toI'[t], m) => InFlight(toI[t], m) \/ Harmless(m),
           ResponderMayBe(t, rpc'[t])
    PROVE  IInv'
  <1>1. TypeOK'
    BY DEF IInv, TypeOK, durable, TrustTypeOK
  <1>2. OneInitiator'
    BY DEF IInv, OneInitiator
  <1>0. UNCHANGED <<peer, gen, consent, log>>
    BY DEF durable
  <1>3. ASSUME NEW x \in Tx PROVE MessagesVouch(x)'
    <2>1. MessagesVouch(x) /\ MessagesVouch(t)
      BY DEF IInv
    <2>2. \A m : /\ InFlight(toR[x], m)' <=> InFlight(toR'[x], m)
                 /\ InFlight(toI[x], m)' <=> InFlight(toI'[x], m)
      BY DEF InFlight
    <2> QED
      BY <1>0, <2>1, <2>2 DEF MessagesVouch, Harmless, Published
  <1>4. ASSUME NEW x \in Tx PROVE ResponderMayBe(x, rpc[x])'
    <2>1. ResponderMayBe(x, rpc'[x])
      BY <1>0 DEF IInv
    <2> QED
      BY <1>0, <2>1 DEF ResponderMayBe, Published, Untouched
  <1>5. ASSUME NEW x \in Tx PROVE InitiatorMayBe(x, ipc[x])'
    <2>1. InitiatorMayBe(x, ipc'[x])
      BY <1>0 DEF IInv
    <2> QED
      BY <1>0, <2>1 DEF InitiatorMayBe, Published, Untouched, DeviceRecordMatches
  <1> QED
    BY <1>1, <1>2, <1>3, <1>4, <1>5 DEF IInv

\* The same for an initiator step.
LEMMA InitiatorLocal ==
    ASSUME IInv, NEW t \in Tx, UNCHANGED <<durable, rpc>>,
           ipc' \in [Tx -> InitiatorPc], \A x \in Tx \ {t} : ipc'[x] = ipc[x],
           toR' \in [Tx -> Seq(Message)], \A x \in Tx \ {t} : toR'[x] = toR[x],
           toI' \in [Tx -> Seq(Message)], \A x \in Tx \ {t} : toI'[x] = toI[x],
           \A m : InFlight(toI'[t], m) => InFlight(toI[t], m),
           \A m : InFlight(toR'[t], m) =>
                    \/ InFlight(toR[t], m) \/ Harmless(m)
                    \/ m = "Confirmed" /\ t \in consent["initiator"],
           InitiatorMayBe(t, ipc'[t]),
           Running(ipc'[t]) =>
              \/ Running(ipc[t])
              \/ \A u \in Tx : Owner[t] \notin Hosted /\ Owner[u] = Owner[t]
                                => ~Running(ipc[u])
    PROVE  IInv'
  <1>1. TypeOK'
    BY DEF IInv, TypeOK, durable, TrustTypeOK
  <1>2. OneInitiator'
    BY DEF IInv, OneInitiator
  <1>0. UNCHANGED <<peer, gen, consent, log>>
    BY DEF durable
  <1>3. ASSUME NEW x \in Tx PROVE MessagesVouch(x)'
    <2>1. MessagesVouch(x) /\ MessagesVouch(t)
      BY DEF IInv
    <2>2. \A m : /\ InFlight(toR[x], m)' <=> InFlight(toR'[x], m)
                 /\ InFlight(toI[x], m)' <=> InFlight(toI'[x], m)
      BY DEF InFlight
    <2> QED
      BY <1>0, <2>1, <2>2 DEF MessagesVouch, Harmless, Published
  <1>4. ASSUME NEW x \in Tx PROVE ResponderMayBe(x, rpc[x])'
    <2>1. ResponderMayBe(x, rpc'[x])
      BY <1>0 DEF IInv
    <2> QED
      BY <1>0, <2>1 DEF ResponderMayBe, Published, Untouched
  <1>5. ASSUME NEW x \in Tx PROVE InitiatorMayBe(x, ipc[x])'
    <2>1. InitiatorMayBe(x, ipc'[x])
      BY <1>0 DEF IInv
    <2> QED
      BY <1>0, <2>1 DEF InitiatorMayBe, Published, Untouched, DeviceRecordMatches
  <1> QED
    BY <1>1, <1>2, <1>3, <1>4, <1>5 DEF IInv

\* Answering in time or closing: nothing but the given messages is sent.
LEMMA ResponderInTimeOK ==
    ASSUME TypeOK, NEW t \in Tx, NEW pc \in ResponderPc, NEW ms \in Seq(Message),
           ResponderInTime(t, pc, ms)
    PROVE  /\ rpc' \in [Tx -> ResponderPc] /\ rpc'[t] \in {pc, "done"}
           /\ \A x \in Tx \ {t} : rpc'[x] = rpc[x]
           /\ toI' \in [Tx -> Seq(Message)]
           /\ \A x \in Tx \ {t} : toI'[x] = toI[x]
           /\ \A m : InFlight(toI'[t], m) =>
                 InFlight(toI[t], m) \/ InFlight(ms, m) \/ m = "Close"
  <1>0. "done" \in ResponderPc /\ <<"Close">> \in Seq(Message)
    BY DEF ResponderPc, Message
  <1>1. CASE ResponderAt(t, pc) /\ ToInitiator(t, ms)
    BY <1>1, ResponderAtOK, ToInitiatorOK
  <1>2. CASE ResponderAt(t, "done") /\ ToInitiator(t, <<"Close">>)
    BY <1>2, <1>0, ResponderAtOK, ToInitiatorOK, Sent
  <1> QED
    BY <1>1, <1>2 DEF ResponderInTime

\* Both outcomes of a deadline check, as one fact about queue and thread.
LEMMA InitiatorInTimeOK ==
    ASSUME TypeOK, NEW t \in Tx, NEW pc \in InitiatorPc, NEW ms \in Seq(Message),
           NEW late \in Seq(Message), InitiatorInTime(t, pc, ms, late)
    PROVE  /\ ipc' \in [Tx -> InitiatorPc] /\ ipc'[t] \in {pc, "done"}
           /\ \A x \in Tx \ {t} : ipc'[x] = ipc[x]
           /\ toR' \in [Tx -> Seq(Message)]
           /\ \A x \in Tx \ {t} : toR'[x] = toR[x]
           /\ \A m : InFlight(toR'[t], m) =>
                 InFlight(toR[t], m) \/ InFlight(ms, m) \/ InFlight(late, m)
  <1>0. "done" \in InitiatorPc
    BY DEF InitiatorPc
  <1>1. CASE InitiatorAt(t, pc) /\ ToResponder(t, ms)
    BY <1>1, InitiatorAtOK, ToResponderOK
  <1>2. CASE InitiatorAt(t, "done") /\ ToResponder(t, late)
    BY <1>2, <1>0, InitiatorAtOK, ToResponderOK
  <1> QED
    BY <1>1, <1>2 DEF InitiatorInTime

\* The responder's reads move it on with the evidence the message carries.
LEMMA ResponderReadStep ==
    ASSUME IInv, NEW t \in Tx,
           \/ ResponderAccept(t) \/ ResponderBegin(t) \/ ResponderDecision(t)
           \/ ResponderPrepared(t) \/ ResponderCommit(t) \/ ResponderCommitted(t)
           \/ ResponderHello(t) \/ ResponderUnexpected(t) \/ ResponderStop(t)
    PROVE  IInv' /\ UNCHANGED durable
  <1> USE DEF durable
  <1>0. /\ TypeOK /\ MessagesVouch(t) /\ ResponderMayBe(t, rpc[t])
        /\ \A pc \in DOMAIN ResponderExpects : pc \in ResponderPc
        /\ {"idle", "confirm", "setPending", "setCommitting", "setPaired", "done",
            "begin", "awaitDecision", "awaitPrepared", "awaitCommit",
            "awaitCommitted", "awaitHello"} \subseteq ResponderPc
        /\ {"begin", "awaitDecision", "awaitPrepared", "awaitCommit",
            "awaitCommitted", "awaitHello"} = DOMAIN ResponderExpects
        /\ toI \in [Tx -> Seq(Message)] /\ toR \in [Tx -> Seq(Message)]
        /\ rpc \in [Tx -> ResponderPc]
    BY DEF IInv, ResponderPc, ResponderExpects, TypeOK
  <1>s. <<>> \in Seq(Message) /\ <<"Complete">> \in Seq(Message) /\ <<"Close">> \in Seq(Message)
    BY DEF Message
  <1>d. ResponderMayBe(t, "done")
    BY DEF ResponderMayBe
  <1>1. CASE ResponderAccept(t)
    <2>1. ResponderMayBe(t, rpc'[t])
      BY <1>0, <1>1 DEF ResponderAccept, ResponderAt, ResponderMayBe
    <2> QED
      BY <1>0, <1>1, <2>1, ResponderLocal DEF ResponderAccept, ResponderAt
  <1>2. CASE ResponderBegin(t)
    <2>1. /\ rpc' \in [Tx -> ResponderPc] /\ rpc'[t] \in {"confirm", "done"}
          /\ \A x \in Tx \ {t} : rpc'[x] = rpc[x]
          /\ toI' \in [Tx -> Seq(Message)] /\ \A x \in Tx \ {t} : toI'[x] = toI[x]
          /\ \A m : InFlight(toI'[t], m) => InFlight(toI[t], m) \/ Harmless(m)
      <3>1. CASE ResponderInTime(t, "confirm", <<>>)
        BY <3>1, <1>0, <1>s, ResponderInTimeOK, Sent DEF Harmless
      <3>2. CASE ResponderAt(t, "done") /\ ToInitiator(t, <<"Close">>)
        BY <3>2, <1>0, <1>s, ResponderAtOK, ToInitiatorOK, Sent DEF Harmless
      <3> QED
        BY <1>2, <3>1, <3>2 DEF ResponderBegin
    <2>2. ResponderReads(t, "begin") /\ UNCHANGED <<durable, ipc>>
      BY <1>2 DEF ResponderBegin
    <2>3. ResponderMayBe(t, rpc'[t])
      BY <1>0, <2>1, <2>2 DEF ResponderMayBe, ResponderReads
    <2> QED
      BY <1>0, <2>1, <2>2, <2>3, ResponderReadsOK, ResponderLocal
  <1>3. CASE ResponderDecision(t)
    <2>1. /\ ResponderReads(t, "awaitDecision") /\ UNCHANGED <<durable, ipc, toI>>
          /\ ResponderAt(t, "awaitPrepared")
      BY <1>3 DEF ResponderDecision
    <2>2. InFlight(toR[t], "Confirmed") /\ rpc[t] = "awaitDecision"
      BY <1>0, <2>1, ResponderReadsOK DEF ResponderExpects
    <2>3. ResponderMayBe(t, "awaitPrepared")
      BY <1>0, <2>2 DEF ResponderMayBe, MessagesVouch
    <2>r. /\ toR' \in [Tx -> Seq(Message)] /\ \A x \in Tx \ {t} : toR'[x] = toR[x]
          /\ \A m : InFlight(toR'[t], m) => InFlight(toR[t], m)
      BY <1>0, <2>1, ResponderReadsOK
    <2>i. /\ rpc' \in [Tx -> ResponderPc] /\ rpc'[t] = "awaitPrepared"
          /\ \A x \in Tx \ {t} : rpc'[x] = rpc[x]
      BY <1>0, <2>1, ResponderAtOK
    <2> QED
      BY <1>0, <2>1, <2>3, <2>r, <2>i, ResponderLocal
  <1>4. CASE ResponderPrepared(t)
    <2>1. /\ ResponderReads(t, "awaitPrepared") /\ UNCHANGED <<durable, ipc>>
          /\ ResponderInTime(t, "setPending", <<>>)
      BY <1>4 DEF ResponderPrepared
    <2>2. InFlight(toR[t], "Prepared") /\ rpc[t] = "awaitPrepared"
      BY <1>0, <2>1, ResponderReadsOK DEF ResponderExpects
    <2>3. ResponderMayBe(t, "setPending")
      BY <1>0, <2>2 DEF ResponderMayBe, MessagesVouch
    <2>r. /\ toR' \in [Tx -> Seq(Message)] /\ \A x \in Tx \ {t} : toR'[x] = toR[x]
          /\ \A m : InFlight(toR'[t], m) => InFlight(toR[t], m)
      BY <1>0, <2>1, ResponderReadsOK
    <2>i. /\ rpc' \in [Tx -> ResponderPc] /\ rpc'[t] \in {"setPending", "done"}
          /\ \A x \in Tx \ {t} : rpc'[x] = rpc[x]
          /\ toI' \in [Tx -> Seq(Message)] /\ \A x \in Tx \ {t} : toI'[x] = toI[x]
          /\ \A m : InFlight(toI'[t], m) => InFlight(toI[t], m) \/ InFlight(<<>>, m) \/ m = "Close"
      BY <1>0, <1>s, <2>1, ResponderInTimeOK
    <2>h. \A m : InFlight(toI'[t], m) => InFlight(toI[t], m) \/ Harmless(m)
      BY <2>i, Sent DEF Harmless
    <2> QED
      BY <1>d, <2>1, <2>3, <2>r, <2>i, <2>h, ResponderLocal
  <1>5. CASE ResponderCommit(t)
    <2>1. /\ ResponderReads(t, "awaitCommit") /\ UNCHANGED <<durable, ipc>>
          /\ ResponderInTime(t, "setCommitting", <<>>)
      BY <1>5 DEF ResponderCommit
    <2>2. ResponderMayBe(t, "setCommitting")
      BY DEF ResponderMayBe
    <2>r. /\ toR' \in [Tx -> Seq(Message)] /\ \A x \in Tx \ {t} : toR'[x] = toR[x]
          /\ \A m : InFlight(toR'[t], m) => InFlight(toR[t], m)
      BY <1>0, <2>1, ResponderReadsOK
    <2>i. /\ rpc' \in [Tx -> ResponderPc] /\ rpc'[t] \in {"setCommitting", "done"}
          /\ \A x \in Tx \ {t} : rpc'[x] = rpc[x]
          /\ toI' \in [Tx -> Seq(Message)] /\ \A x \in Tx \ {t} : toI'[x] = toI[x]
          /\ \A m : InFlight(toI'[t], m) => InFlight(toI[t], m) \/ InFlight(<<>>, m) \/ m = "Close"
      BY <1>0, <1>s, <2>1, ResponderInTimeOK
    <2>h. \A m : InFlight(toI'[t], m) => InFlight(toI[t], m) \/ Harmless(m)
      BY <2>i, Sent DEF Harmless
    <2> QED
      BY <1>d, <2>1, <2>2, <2>r, <2>i, <2>h, ResponderLocal
  <1>6. CASE ResponderCommitted(t)
    <2>1. /\ ResponderReads(t, "awaitCommitted") /\ UNCHANGED <<durable, ipc>>
          /\ ResponderInTime(t, "awaitHello", <<"Complete">>)
      BY <1>6 DEF ResponderCommitted
    <2>2. ResponderMayBe(t, "awaitHello")
      BY DEF ResponderMayBe
    <2>r. /\ toR' \in [Tx -> Seq(Message)] /\ \A x \in Tx \ {t} : toR'[x] = toR[x]
          /\ \A m : InFlight(toR'[t], m) => InFlight(toR[t], m)
      BY <1>0, <2>1, ResponderReadsOK
    <2>i. /\ rpc' \in [Tx -> ResponderPc] /\ rpc'[t] \in {"awaitHello", "done"}
          /\ \A x \in Tx \ {t} : rpc'[x] = rpc[x]
          /\ toI' \in [Tx -> Seq(Message)] /\ \A x \in Tx \ {t} : toI'[x] = toI[x]
          /\ \A m : InFlight(toI'[t], m) => InFlight(toI[t], m) \/ InFlight(<<"Complete">>, m) \/ m = "Close"
      BY <1>0, <1>s, <2>1, ResponderInTimeOK
    <2>h. \A m : InFlight(toI'[t], m) => InFlight(toI[t], m) \/ Harmless(m)
      BY <2>i, Sent DEF Harmless
    <2> QED
      BY <1>d, <2>1, <2>2, <2>r, <2>i, <2>h, ResponderLocal
  <1>7. CASE ResponderHello(t)
    <2>1. /\ ResponderReads(t, "awaitHello") /\ UNCHANGED <<durable, ipc, toI>>
          /\ ResponderAt(t, "setPaired")
      BY <1>7 DEF ResponderHello
    <2>2. InFlight(toR[t], "Hello")
      BY <1>0, <2>1, ResponderReadsOK DEF ResponderExpects
    <2>3. ResponderMayBe(t, "setPaired")
      BY <1>0, <2>2 DEF ResponderMayBe, MessagesVouch
    <2>r. /\ toR' \in [Tx -> Seq(Message)] /\ \A x \in Tx \ {t} : toR'[x] = toR[x]
          /\ \A m : InFlight(toR'[t], m) => InFlight(toR[t], m)
      BY <1>0, <2>1, ResponderReadsOK
    <2>i. /\ rpc' \in [Tx -> ResponderPc] /\ rpc'[t] = "setPaired"
          /\ \A x \in Tx \ {t} : rpc'[x] = rpc[x]
      BY <1>0, <2>1, ResponderAtOK
    <2> QED
      BY <1>0, <2>1, <2>3, <2>r, <2>i, ResponderLocal
  <1>8. CASE ResponderUnexpected(t)
    <2>1. /\ toR[t] # <<>> /\ toR' = [toR EXCEPT ![t] = Tail(@)]
          /\ ResponderAt(t, "done") /\ UNCHANGED <<durable, ipc, toI>>
      BY <1>8 DEF ResponderUnexpected
    <2>2. /\ toR' \in [Tx -> Seq(Message)] /\ \A x \in Tx \ {t} : toR'[x] = toR[x]
          /\ \A m : InFlight(toR'[t], m) => InFlight(toR[t], m)
      BY <1>0, <2>1, ReadInFlight
    <2> QED
      BY <1>0, <1>d, <2>1, <2>2, ResponderAtOK, ResponderLocal
  <1>9. CASE ResponderStop(t)
    BY <1>0, <1>d, <1>9, ResponderAtOK, ResponderLocal DEF ResponderStop
  <1> QED
    BY <1>1, <1>2, <1>3, <1>4, <1>5, <1>6, <1>7, <1>8, <1>9

\* The initiator's steps between publications.
LEMMA InitiatorReadStep ==
    ASSUME IInv, NEW t \in Tx,
           \/ InitiatorConnect(t) \/ InitiatorBegin(t) \/ InitiatorDecision(t)
           \/ InitiatorPrepared(t) \/ InitiatorCommitted(t) \/ InitiatorComplete(t)
           \/ InitiatorAck(t) \/ InitiatorUnexpected(t) \/ InitiatorStop(t)
    PROVE  IInv' /\ UNCHANGED durable
  <1> USE DEF durable
  <1>0. /\ TypeOK /\ MessagesVouch(t) /\ InitiatorMayBe(t, ipc[t])
        /\ {"idle", "handshake", "confirm", "declined", "setPending", "setCommitting",
            "setPaired", "done", "awaitDecision", "awaitPrepared", "awaitCommitted",
            "awaitComplete", "awaitAck"} \subseteq InitiatorPc
        /\ {"awaitDecision", "awaitPrepared", "awaitCommitted",
            "awaitComplete", "awaitAck"} = DOMAIN InitiatorExpects
        /\ toI \in [Tx -> Seq(Message)] /\ toR \in [Tx -> Seq(Message)]
        /\ ipc \in [Tx -> InitiatorPc]
    BY DEF IInv, InitiatorPc, InitiatorExpects, TypeOK
  <1>s. /\ <<>> \in Seq(Message) /\ <<"Commit">> \in Seq(Message)
        /\ <<"Close">> \in Seq(Message) /\ <<"Begin">> \in Seq(Message)
        /\ <<"Confirmed">> \in Seq(Message) /\ <<"Rejected">> \in Seq(Message)
        /\ <<"Confirmed", "Close">> \in Seq(Message)
    BY DEF Message
  <1>d. InitiatorMayBe(t, "done") /\ ~Running("done")
    BY DEF InitiatorMayBe, DeviceRecordMatches, Running
  <1>1. CASE InitiatorConnect(t)
    <2>1. InitiatorMayBe(t, "handshake")
      BY <1>0, <1>1 DEF InitiatorConnect, InitiatorMayBe, DeviceRecordMatches
    <2>2. /\ ipc' \in [Tx -> InitiatorPc] /\ ipc'[t] = "handshake"
          /\ \A x \in Tx \ {t} : ipc'[x] = ipc[x]
      BY <1>0, <1>1, InitiatorAtOK DEF InitiatorConnect
    <2> QED
      BY <1>0, <1>1, <2>1, <2>2, InitiatorLocal DEF InitiatorConnect
  <1>2. CASE InitiatorBegin(t)
    <2>1. InitiatorMayBe(t, "confirm") /\ Running(ipc[t])
      BY <1>0, <1>2 DEF InitiatorBegin, InitiatorMayBe, DeviceRecordMatches, Running
    <2>2. /\ ipc' \in [Tx -> InitiatorPc] /\ ipc'[t] = "confirm"
          /\ \A x \in Tx \ {t} : ipc'[x] = ipc[x]
      BY <1>0, <1>2, InitiatorAtOK DEF InitiatorBegin
    <2>3. /\ toR' \in [Tx -> Seq(Message)] /\ \A x \in Tx \ {t} : toR'[x] = toR[x]
          /\ \A m : InFlight(toR'[t], m) => InFlight(toR[t], m) \/ InFlight(<<"Begin">>, m)
      BY <1>0, <1>2, <1>s, ToResponderOK DEF InitiatorBegin
    <2>4. \A m : InFlight(toR'[t], m) => InFlight(toR[t], m) \/ Harmless(m)
      BY <2>3, Sent DEF Harmless
    <2> QED
      BY <1>0, <1>2, <2>1, <2>2, <2>3, <2>4, InitiatorLocal DEF InitiatorBegin
  <1>3. CASE InitiatorDecision(t)
    <2>1. /\ toI[t] # <<>> /\ toI' = [toI EXCEPT ![t] = Tail(@)]
          /\ UNCHANGED <<durable, rpc>> /\ ipc[t] \in {"awaitDecision", "declined"}
      BY <1>3 DEF InitiatorDecision
    <2>2. Running(ipc[t])
      BY <2>1 DEF Running
    <2>r. /\ toI' \in [Tx -> Seq(Message)] /\ \A x \in Tx \ {t} : toI'[x] = toI[x]
          /\ \A m : InFlight(toI'[t], m) => InFlight(toI[t], m)
          /\ InFlight(toI[t], Head(toI[t]))
      BY <1>0, <2>1, ReadInFlight
    <2>3. CASE InitiatorAt(t, "done") /\ UNCHANGED toR
      <3>1. /\ ipc' \in [Tx -> InitiatorPc] /\ ipc'[t] = "done"
            /\ \A x \in Tx \ {t} : ipc'[x] = ipc[x]
        BY <1>0, <2>3, InitiatorAtOK
      <3> QED
        BY <1>0, <1>d, <2>1, <2>2, <2>r, <2>3, <3>1, InitiatorLocal
    <2>4. ASSUME NEW own \in {"Confirmed", "Rejected"},
                 own = "Confirmed" => ipc[t] = "awaitDecision",
                 InitiatorAt(t, "done") /\ ToResponder(t, <<own>>)
          PROVE  IInv'
      <3>1. /\ ipc' \in [Tx -> InitiatorPc] /\ ipc'[t] = "done"
            /\ \A x \in Tx \ {t} : ipc'[x] = ipc[x]
        BY <1>0, <2>4, InitiatorAtOK
      <3>2. /\ toR' \in [Tx -> Seq(Message)] /\ \A x \in Tx \ {t} : toR'[x] = toR[x]
            /\ \A m : InFlight(toR'[t], m) => InFlight(toR[t], m) \/ InFlight(<<own>>, m)
        BY <1>0, <1>s, <2>4, ToResponderOK
      <3>3. own = "Confirmed" => t \in consent["initiator"]
        BY <1>0, <2>4 DEF InitiatorMayBe
      <3>4. \A m : InFlight(toR'[t], m) =>
                     \/ InFlight(toR[t], m) \/ Harmless(m)
                     \/ m = "Confirmed" /\ t \in consent["initiator"]
        BY <2>4, <3>2, <3>3, Sent DEF Harmless
      <3> QED
        BY <1>0, <1>d, <2>1, <2>2, <2>r, <3>1, <3>2, <3>4, InitiatorLocal
    <2>5. ASSUME ipc[t] = "awaitDecision", Head(toI[t]) = "Confirmed",
                 InitiatorInTime(t, "setPending", <<"Confirmed">>, <<"Confirmed", "Close">>)
          PROVE  IInv'
      <3>1. InitiatorMayBe(t, "setPending") /\ t \in consent["initiator"]
        BY <1>0, <2>5, <2>r DEF InitiatorMayBe, MessagesVouch, DeviceRecordMatches
      <3>2. /\ ipc' \in [Tx -> InitiatorPc] /\ ipc'[t] \in {"setPending", "done"}
            /\ \A x \in Tx \ {t} : ipc'[x] = ipc[x]
            /\ toR' \in [Tx -> Seq(Message)] /\ \A x \in Tx \ {t} : toR'[x] = toR[x]
            /\ \A m : InFlight(toR'[t], m) =>
                  \/ InFlight(toR[t], m) \/ InFlight(<<"Confirmed">>, m)
                  \/ InFlight(<<"Confirmed", "Close">>, m)
        BY <1>0, <1>s, <2>5, InitiatorInTimeOK
      <3>3. \A m : InFlight(toR'[t], m) =>
                     \/ InFlight(toR[t], m) \/ Harmless(m)
                     \/ m = "Confirmed" /\ t \in consent["initiator"]
        BY <3>1, <3>2, Sent DEF Harmless
      <3> QED
        BY <1>d, <2>1, <2>2, <2>r, <3>1, <3>2, <3>3, InitiatorLocal
    <2>6. IInv'
      BY <1>3, <2>1, <2>3, <2>4, <2>5 DEF InitiatorDecision
    <2> QED
      BY <2>1, <2>6
  <1>4. CASE InitiatorPrepared(t)
    <2>1. /\ InitiatorReads(t, "awaitPrepared") /\ UNCHANGED <<durable, rpc>>
          /\ InitiatorInTime(t, "awaitCommitted", <<"Commit">>, <<"Close">>)
      BY <1>4 DEF InitiatorPrepared
    <2>2. Running(ipc[t])
      BY <2>1 DEF Running, InitiatorReads
    <2>3. InitiatorMayBe(t, "awaitCommitted")
      BY <1>0, <2>1 DEF InitiatorMayBe, DeviceRecordMatches, InitiatorReads
    <2>r. /\ toI' \in [Tx -> Seq(Message)] /\ \A x \in Tx \ {t} : toI'[x] = toI[x]
          /\ \A m : InFlight(toI'[t], m) => InFlight(toI[t], m)
      BY <1>0, <2>1, InitiatorReadsOK
    <2>i. /\ ipc' \in [Tx -> InitiatorPc] /\ ipc'[t] \in {"awaitCommitted", "done"}
          /\ \A x \in Tx \ {t} : ipc'[x] = ipc[x]
          /\ toR' \in [Tx -> Seq(Message)] /\ \A x \in Tx \ {t} : toR'[x] = toR[x]
          /\ \A m : InFlight(toR'[t], m) =>
                InFlight(toR[t], m) \/ InFlight(<<"Commit">>, m) \/ InFlight(<<"Close">>, m)
      BY <1>0, <1>s, <2>1, InitiatorInTimeOK
    <2>h. \A m : InFlight(toR'[t], m) => InFlight(toR[t], m) \/ Harmless(m)
      BY <2>i, Sent DEF Harmless
    <2> QED
      BY <1>d, <2>1, <2>2, <2>3, <2>r, <2>i, <2>h, InitiatorLocal DEF Running
  <1>5. CASE InitiatorCommitted(t)
    <2>1. /\ InitiatorReads(t, "awaitCommitted") /\ UNCHANGED <<durable, rpc, toR>>
          /\ InitiatorAt(t, "setCommitting")
      BY <1>5 DEF InitiatorCommitted
    <2>2. Running(ipc[t])
      BY <2>1 DEF Running, InitiatorReads
    <2>4. InFlight(toI[t], "Committed") /\ ipc[t] = "awaitCommitted"
      BY <1>0, <2>1, InitiatorReadsOK DEF InitiatorExpects
    <2>3. InitiatorMayBe(t, "setCommitting")
      BY <1>0, <2>4 DEF InitiatorMayBe, DeviceRecordMatches, MessagesVouch
    <2>r. /\ toI' \in [Tx -> Seq(Message)] /\ \A x \in Tx \ {t} : toI'[x] = toI[x]
          /\ \A m : InFlight(toI'[t], m) => InFlight(toI[t], m)
      BY <1>0, <2>1, InitiatorReadsOK
    <2>i. /\ ipc' \in [Tx -> InitiatorPc] /\ ipc'[t] = "setCommitting"
          /\ \A x \in Tx \ {t} : ipc'[x] = ipc[x]
      BY <1>0, <2>1, InitiatorAtOK
    <2> QED
      BY <1>0, <1>d, <2>1, <2>2, <2>3, <2>r, <2>i, InitiatorLocal DEF Running
  <1>6. CASE InitiatorComplete(t)
    <2>1. /\ InitiatorReads(t, "awaitComplete") /\ UNCHANGED <<durable, rpc>>
          /\ InitiatorInTime(t, "setPaired", <<>>, <<"Close">>)
      BY <1>6 DEF InitiatorComplete
    <2>2. Running(ipc[t])
      BY <2>1 DEF Running, InitiatorReads
    <2>3. InitiatorMayBe(t, "setPaired")
      BY <1>0, <2>1 DEF InitiatorMayBe, DeviceRecordMatches, InitiatorReads
    <2>r. /\ toI' \in [Tx -> Seq(Message)] /\ \A x \in Tx \ {t} : toI'[x] = toI[x]
          /\ \A m : InFlight(toI'[t], m) => InFlight(toI[t], m)
      BY <1>0, <2>1, InitiatorReadsOK
    <2>i. /\ ipc' \in [Tx -> InitiatorPc] /\ ipc'[t] \in {"setPaired", "done"}
          /\ \A x \in Tx \ {t} : ipc'[x] = ipc[x]
          /\ toR' \in [Tx -> Seq(Message)] /\ \A x \in Tx \ {t} : toR'[x] = toR[x]
          /\ \A m : InFlight(toR'[t], m) =>
                InFlight(toR[t], m) \/ InFlight(<<>>, m) \/ InFlight(<<"Close">>, m)
      BY <1>0, <1>s, <2>1, InitiatorInTimeOK
    <2>h. \A m : InFlight(toR'[t], m) => InFlight(toR[t], m) \/ Harmless(m)
      BY <2>i, Sent DEF Harmless
    <2> QED
      BY <1>d, <2>1, <2>2, <2>3, <2>r, <2>i, <2>h, InitiatorLocal DEF Running
  <1>7. CASE InitiatorAck(t)
    <2>1. /\ InitiatorReads(t, "awaitAck") /\ UNCHANGED <<durable, rpc, toR>>
          /\ InitiatorAt(t, "done")
      BY <1>7 DEF InitiatorAck
    <2>r. /\ toI' \in [Tx -> Seq(Message)] /\ \A x \in Tx \ {t} : toI'[x] = toI[x]
          /\ \A m : InFlight(toI'[t], m) => InFlight(toI[t], m)
      BY <1>0, <2>1, InitiatorReadsOK
    <2>i. /\ ipc' \in [Tx -> InitiatorPc] /\ ipc'[t] = "done"
          /\ \A x \in Tx \ {t} : ipc'[x] = ipc[x]
      BY <1>0, <2>1, InitiatorAtOK
    <2> QED
      BY <1>0, <1>d, <2>1, <2>r, <2>i, InitiatorLocal DEF Running
  <1>8. CASE InitiatorUnexpected(t)
    <2>1. /\ toI[t] # <<>> /\ toI' = [toI EXCEPT ![t] = Tail(@)]
          /\ InitiatorAt(t, "done") /\ UNCHANGED <<durable, rpc, toR>>
      BY <1>8 DEF InitiatorUnexpected
    <2>2. /\ toI' \in [Tx -> Seq(Message)] /\ \A x \in Tx \ {t} : toI'[x] = toI[x]
          /\ \A m : InFlight(toI'[t], m) => InFlight(toI[t], m)
      BY <1>0, <2>1, ReadInFlight
    <2>3. /\ ipc' \in [Tx -> InitiatorPc] /\ ipc'[t] = "done"
          /\ \A x \in Tx \ {t} : ipc'[x] = ipc[x]
      BY <1>0, <2>1, InitiatorAtOK
    <2> QED
      BY <1>0, <1>d, <2>1, <2>2, <2>3, InitiatorLocal
  <1>9. CASE InitiatorStop(t)
    <2>1. /\ ipc' \in [Tx -> InitiatorPc] /\ ipc'[t] = "done"
          /\ \A x \in Tx \ {t} : ipc'[x] = ipc[x]
      BY <1>0, <1>9, InitiatorAtOK DEF InitiatorStop
    <2> QED
      BY <1>0, <1>d, <1>9, <2>1, InitiatorLocal DEF InitiatorStop
  <1> QED
    BY <1>1, <1>2, <1>3, <1>4, <1>5, <1>6, <1>7, <1>8, <1>9

-----------------------------------------------------------------------------
(* The two confirmations.                                                  *)

LEMMA ResponderConfirmStep ==
    ASSUME IInv, NEW t \in Tx, ResponderConfirm(t)
    PROVE  IInv' /\ (UNCHANGED durable \/ Consent("responder", t))
  <1>0. /\ TypeOK /\ "done" \in ResponderPc /\ "awaitDecision" \in ResponderPc
        /\ toR \in [Tx -> Seq(Message)] /\ consent \in [{"initiator", "responder"} -> SUBSET Tx]
        /\ <<"Confirmed">> \in Seq(Message) /\ <<"Confirmed", "Close">> \in Seq(Message)
        /\ <<"Rejected">> \in Seq(Message)
    BY DEF IInv, TypeOK, TrustTypeOK, Role, ResponderPc, ResponderExpects, Message
  <1>a. UNCHANGED <<peer, gen, log, ipc, toR>> /\ rpc[t] = "confirm"
    BY DEF ResponderConfirm
  <1>1. CASE ResponderAt(t, "done") /\ ToInitiator(t, <<"Rejected">>) /\ UNCHANGED consent
    <2>1. /\ rpc' \in [Tx -> ResponderPc] /\ rpc'[t] = "done"
          /\ \A x \in Tx \ {t} : rpc'[x] = rpc[x]
      BY <1>0, <1>1, ResponderAtOK
    <2>2. /\ toI' \in [Tx -> Seq(Message)] /\ \A x \in Tx \ {t} : toI'[x] = toI[x]
          /\ \A m : InFlight(toI'[t], m) => InFlight(toI[t], m) \/ InFlight(<<"Rejected">>, m)
      BY <1>0, <1>1, ToInitiatorOK
    <2>3. \A m : InFlight(toI'[t], m) => InFlight(toI[t], m) \/ Harmless(m)
      BY <2>2, Sent DEF Harmless
    <2>4. ResponderMayBe(t, "done")
      BY DEF ResponderMayBe
    <2>5. UNCHANGED durable
      BY <1>1, <1>a DEF durable
    <2> QED
      BY <1>0, <1>a, <2>1, <2>2, <2>3, <2>4, <2>5, ResponderLocal
  <1>2. ASSUME consent' = [consent EXCEPT !["responder"] = @ \cup {t}],
               \/ ResponderAt(t, "awaitDecision") /\ ToInitiator(t, <<"Confirmed">>)
               \/ ResponderAt(t, "done") /\ ToInitiator(t, <<"Confirmed", "Close">>)
        PROVE  IInv' /\ Consent("responder", t)
    <2>1. /\ rpc' \in [Tx -> ResponderPc] /\ rpc'[t] \in {"awaitDecision", "done"}
          /\ \A x \in Tx \ {t} : rpc'[x] = rpc[x]
      BY <1>0, <1>2, ResponderAtOK
    <2>2. /\ toI' \in [Tx -> Seq(Message)] /\ \A x \in Tx \ {t} : toI'[x] = toI[x]
          /\ \A m : InFlight(toI'[t], m) =>
                \/ InFlight(toI[t], m) \/ InFlight(<<"Confirmed">>, m)
                \/ InFlight(<<"Confirmed", "Close">>, m)
      BY <1>0, <1>2, ToInitiatorOK
    <2>3. \A m : InFlight(toI'[t], m) => InFlight(toI[t], m) \/ m \in {"Confirmed", "Close"}
      BY <2>2, Sent
    <2>4. /\ consent' \in [{"initiator", "responder"} -> SUBSET Tx]
          /\ t \in consent'["responder"] /\ consent["responder"] \subseteq consent'["responder"]
          /\ consent'["initiator"] = consent["initiator"]
      BY <1>0, <1>2
    <2>5. TypeOK'
      BY <1>0, <1>a, <2>1, <2>2, <2>4 DEF TypeOK, TrustTypeOK, Role, IInv
    <2>6. OneInitiator'
      BY <1>a DEF IInv, OneInitiator
    <2>7. ASSUME NEW x \in Tx PROVE MessagesVouch(x)'
      <3>1. MessagesVouch(x)
        BY DEF IInv
      <3>2. \A m : /\ InFlight(toR[x], m)' <=> InFlight(toR[x], m)
                   /\ InFlight(toI[x], m)' <=> InFlight(toI'[x], m)
        BY <1>a DEF InFlight
      <3> QED
        BY <1>a, <2>2, <2>3, <2>4, <3>1, <3>2 DEF MessagesVouch, Published
    <2>8. ASSUME NEW x \in Tx PROVE ResponderMayBe(x, rpc[x])'
      <3>1. ResponderMayBe(x, rpc[x])
        BY DEF IInv
      <3> QED
        BY <1>a, <2>1, <2>4, <3>1 DEF ResponderMayBe, Published, Untouched
    <2>9. ASSUME NEW x \in Tx PROVE InitiatorMayBe(x, ipc[x])'
      <3>1. InitiatorMayBe(x, ipc[x])
        BY DEF IInv
      <3> QED
        BY <1>a, <2>4, <3>1 DEF InitiatorMayBe, Published, Untouched, DeviceRecordMatches
    <2>10. Consent("responder", t)
      BY <1>2, <1>a DEF Consent
    <2> QED
      BY <2>5, <2>6, <2>7, <2>8, <2>9, <2>10 DEF IInv
  <1> QED
    BY <1>1, <1>2 DEF ResponderConfirm

\* The answer of the person at the device preserves the invariant.
LEMMA InitiatorConfirmStep ==
    ASSUME IInv, NEW t \in Tx, InitiatorConfirm(t)
    PROVE  IInv' /\ (UNCHANGED durable \/ Consent("initiator", t))
  <1>0. /\ TypeOK /\ "declined" \in InitiatorPc /\ "awaitDecision" \in InitiatorPc
        /\ toR \in [Tx -> Seq(Message)] /\ toI \in [Tx -> Seq(Message)]
        /\ consent \in [{"initiator", "responder"} -> SUBSET Tx]
        /\ InitiatorMayBe(t, ipc[t])
    BY DEF IInv, TypeOK, TrustTypeOK, Role, InitiatorPc, InitiatorExpects
  <1>a. UNCHANGED <<peer, gen, log, rpc, toR, toI>> /\ ipc[t] = "confirm" /\ Running(ipc[t])
    BY DEF InitiatorConfirm, Running
  <1>1. CASE InitiatorAt(t, "declined") /\ UNCHANGED consent
    <2>1. /\ ipc' \in [Tx -> InitiatorPc] /\ ipc'[t] = "declined"
          /\ \A x \in Tx \ {t} : ipc'[x] = ipc[x]
      BY <1>0, <1>1, InitiatorAtOK
    <2>2. InitiatorMayBe(t, "declined")
      BY <1>0, <1>a DEF InitiatorMayBe, DeviceRecordMatches
    <2>3. UNCHANGED durable
      BY <1>1, <1>a DEF durable
    <2> QED
      BY <1>0, <1>a, <2>1, <2>2, <2>3, InitiatorLocal
  <1>2. ASSUME consent' = [consent EXCEPT !["initiator"] = @ \cup {t}],
               InitiatorAt(t, "awaitDecision")
        PROVE  IInv' /\ Consent("initiator", t)
    <2>1. /\ ipc' \in [Tx -> InitiatorPc] /\ ipc'[t] = "awaitDecision"
          /\ \A x \in Tx \ {t} : ipc'[x] = ipc[x]
      BY <1>0, <1>2, InitiatorAtOK
    <2>4. /\ consent' \in [{"initiator", "responder"} -> SUBSET Tx]
          /\ t \in consent'["initiator"] /\ consent["initiator"] \subseteq consent'["initiator"]
          /\ consent'["responder"] = consent["responder"]
      BY <1>0, <1>2
    <2>5. TypeOK'
      BY <1>0, <1>a, <2>1, <2>4 DEF TypeOK, TrustTypeOK, Role, IInv
    <2>6. OneInitiator'
      BY <1>a, <2>1 DEF IInv, OneInitiator
    <2>7. ASSUME NEW x \in Tx PROVE MessagesVouch(x)'
      <3>1. MessagesVouch(x)
        BY DEF IInv
      <3>2. \A m : /\ InFlight(toR[x], m)' <=> InFlight(toR[x], m)
                   /\ InFlight(toI[x], m)' <=> InFlight(toI[x], m)
        BY <1>a DEF InFlight
      <3> QED
        BY <1>a, <2>4, <3>1, <3>2 DEF MessagesVouch, Published
    <2>8. ASSUME NEW x \in Tx PROVE ResponderMayBe(x, rpc[x])'
      <3>1. ResponderMayBe(x, rpc[x])
        BY DEF IInv
      <3> QED
        BY <1>a, <2>4, <3>1 DEF ResponderMayBe, Published, Untouched
    <2>9. ASSUME NEW x \in Tx PROVE InitiatorMayBe(x, ipc[x])'
      <3>1. InitiatorMayBe(x, ipc[x])
        BY DEF IInv
      <3> QED
        BY <1>a, <2>1, <2>4, <3>1
        DEF InitiatorMayBe, Published, Untouched, DeviceRecordMatches
    <2>10. Consent("initiator", t)
      BY <1>2, <1>a DEF Consent
    <2> QED
      BY <2>5, <2>6, <2>7, <2>8, <2>9, <2>10 DEF IInv
  <1> QED
    BY <1>1, <1>2 DEF InitiatorConfirm

-----------------------------------------------------------------------------
(* Publications.                                                           *)

\* A record published by s reaches the history and only grows it.
LEMMA PublishOK ==
    ASSUME TypeOK, NEW s \in Store, NEW t \in Tx, NEW state \in Binding,
           Publish(s, state, t)
    PROVE  /\ TrustTypeOK'
           /\ \A u, st, x : Published(u, st, x) => Published(u, st, x)'
           /\ Published(s, state, t)'
           /\ \A u, x : Untouched(u, x) /\ ~(u = s /\ x = t) => Untouched(u, x)'
           /\ consent' = consent
           /\ peer'[s] = [state |-> state, tx |-> t]
           /\ \A u \in Store \ {s} : peer'[u] = peer[u]
  <1> DEFINE new == [store |-> s, state |-> state, tx |-> t, gen |-> gen[s]]
  <1>1. /\ log' = log \cup {new} /\ gen' = gen /\ consent' = consent
        /\ peer' = [peer EXCEPT ![s] = [state |-> state, tx |-> t]]
        /\ peer \in [Store -> PeerRecord] /\ gen \in [Store -> 0..MaxGeneration]
        /\ log \subseteq LogEntry
        /\ consent \in [Role -> SUBSET Tx]
    BY DEF Publish, Entry, TypeOK, TrustTypeOK
  <1>2. new \in LogEntry
    BY <1>1 DEF LogEntry, Store, Binding
  <1>3. [state |-> state, tx |-> t] \in PeerRecord
    BY DEF PeerRecord, PeerState, Binding
  <1>4. TrustTypeOK'
    BY <1>1, <1>2, <1>3 DEF TrustTypeOK, Store
  <1>6. new.store = s /\ new.state = state /\ new.tx = t
    OBVIOUS
  <1> HIDE DEF new
  <1>7. \A u, st, x : Published(u, st, x) => Published(u, st, x)'
    BY <1>1 DEF Published
  <1>8. Published(s, state, t)'
    BY <1>1, <1>6 DEF Published
  <1>9. \A u, x : Untouched(u, x) /\ ~(u = s /\ x = t) => Untouched(u, x)'
    BY <1>1, <1>6 DEF Untouched
  <1> QED
    BY <1>1, <1>4, <1>7, <1>8, <1>9

\* The store check of set_peer, as the rung below.
LEMMA ValidRung ==
    ASSUME TypeOK, NEW s \in Store, NEW t \in Tx, NEW state \in Binding,
           ValidPeerTransition(peer[s], [state |-> state, tx |-> t])
    PROVE  \/ state = "Pending" /\ peer[s] = Unpaired
           \/ state = "Committing" /\ peer[s] = [state |-> "Pending", tx |-> t]
           \/ state = "Paired" /\ peer[s] = [state |-> "Committing", tx |-> t]
  <1>1. peer[s] = Unpaired \/ peer[s] \in [state : {"Pending", "Committing", "Paired", "Revoking"}, tx : Tx]
    BY DEF TypeOK, TrustTypeOK, PeerRecord, PeerState, Store, Unpaired
  <1>2. peer[s] # Unpaired => peer[s] = [state |-> peer[s].state, tx |-> peer[s].tx]
    BY <1>1
  <1>3. peer[s] = Unpaired => peer[s].state = "Unpaired"
    BY DEF Unpaired
  <1> QED
    BY <1>1, <1>2, <1>3 DEF ValidPeerTransition, Binding

\* A publication of the responder, however it ends, preserves the invariant.
LEMMA ResponderStoreStep ==
    ASSUME IInv, NEW t \in Tx, NEW pc, NEW state \in Binding,
           NEW replies \in SUBSET Message, NEW next \in ResponderPc,
           ResponderStore(t, pc, state, replies, next),
           next \in {"awaitCommit", "awaitCommitted", "done"},
           "Confirmed" \notin replies, "Committed" \in replies => state = "Committing"
    PROVE  /\ IInv'
           /\ \/ UNCHANGED durable
              \/ /\ ValidPeerTransition(peer[Host], [state |-> state, tx |-> t])
                 /\ Publish(Host, state, t)
  <1>0. /\ TypeOK /\ "done" \in ResponderPc /\ <<"Close">> \in Seq(Message)
        /\ \A m \in replies : <<m>> \in Seq(Message)
        /\ toI \in [Tx -> Seq(Message)] /\ toR \in [Tx -> Seq(Message)]
        /\ rpc \in [Tx -> ResponderPc] /\ Host \in Store
        /\ \A x \in Tx : Owner[x] \in Store \ {Host}
    BY HostAssumption, OwnerAssumption, NoTxAssumption DEF IInv, TypeOK, ResponderPc, Message, Store
  <1>a. UNCHANGED <<ipc, toR>> /\ rpc[t] = pc
    BY DEF ResponderStore
  <1>d. ResponderMayBe(t, "done")
    BY DEF ResponderMayBe
  <1>1. CASE UNCHANGED durable /\ ToInitiator(t, <<"Close">>) /\ ResponderAt(t, "done")
    <2>1. /\ rpc' \in [Tx -> ResponderPc] /\ rpc'[t] = "done"
          /\ \A x \in Tx \ {t} : rpc'[x] = rpc[x]
      BY <1>0, <1>1, ResponderAtOK
    <2>2. /\ toI' \in [Tx -> Seq(Message)] /\ \A x \in Tx \ {t} : toI'[x] = toI[x]
          /\ \A m : InFlight(toI'[t], m) => InFlight(toI[t], m) \/ InFlight(<<"Close">>, m)
      BY <1>0, <1>1, ToInitiatorOK
    <2>3. \A m : InFlight(toI'[t], m) => InFlight(toI[t], m) \/ Harmless(m)
      BY <2>2, Sent DEF Harmless
    <2> QED
      BY <1>0, <1>1, <1>a, <1>d, <2>1, <2>2, <2>3, ResponderLocal
  <1>2. ASSUME Publish(Host, state, t),
               \/ \E m \in replies : ToInitiator(t, <<m>>) /\ ResponderAt(t, next)
               \/ ToInitiator(t, <<"Close">>) /\ ResponderAt(t, "done")
               \/ UNCHANGED toI /\ ResponderAt(t, "done")
        PROVE  IInv' /\ Publish(Host, state, t)
    <2>1. /\ rpc' \in [Tx -> ResponderPc]
          /\ rpc'[t] \in {"awaitCommit", "awaitCommitted", "done"}
          /\ \A x \in Tx \ {t} : rpc'[x] = rpc[x]
      BY <1>0, <1>2, ResponderAtOK
    <2>2. /\ toI' \in [Tx -> Seq(Message)] /\ \A x \in Tx \ {t} : toI'[x] = toI[x]
          /\ \A m : InFlight(toI'[t], m) => InFlight(toI[t], m) \/ m \in replies \cup {"Close"}
      <3>1. CASE \E m \in replies : ToInitiator(t, <<m>>)
        <4>1. PICK n \in replies : ToInitiator(t, <<n>>)
          BY <3>1
        <4>2. /\ toI' \in [Tx -> Seq(Message)] /\ \A x \in Tx \ {t} : toI'[x] = toI[x]
              /\ \A m : InFlight(toI'[t], m) => InFlight(toI[t], m) \/ InFlight(<<n>>, m)
          BY <1>0, <4>1, ToInitiatorOK
        <4> QED
          BY <4>2, Sent
      <3>2. CASE ToInitiator(t, <<"Close">>)
        <4>2. /\ toI' \in [Tx -> Seq(Message)] /\ \A x \in Tx \ {t} : toI'[x] = toI[x]
              /\ \A m : InFlight(toI'[t], m) => InFlight(toI[t], m) \/ InFlight(<<"Close">>, m)
          BY <1>0, <3>2, ToInitiatorOK
        <4> QED
          BY <4>2, Sent
      <3>3. CASE UNCHANGED toI
        BY <1>0, <3>3
      <3> QED
        BY <1>2, <3>1, <3>2, <3>3
    <2>3. /\ TrustTypeOK' /\ Publish(Host, state, t) /\ consent' = consent
          /\ \A u, st, x : Published(u, st, x) => Published(u, st, x)'
          /\ Published(Host, state, t)'
          /\ \A u, x : Untouched(u, x) /\ ~(u = Host /\ x = t) => Untouched(u, x)'
          /\ \A u \in Store \ {Host} : peer'[u] = peer[u]
      BY <1>0, <1>2, PublishOK
    <2>5. TypeOK'
      BY <1>0, <1>a, <2>1, <2>2, <2>3 DEF TypeOK
    <2>6. OneInitiator'
      BY <1>a DEF IInv, OneInitiator
    <2>7. ASSUME NEW x \in Tx PROVE MessagesVouch(x)'
      <3>1. MessagesVouch(x) /\ Owner[x]' = Owner[x]
        BY DEF IInv
      <3>2. \A m : /\ InFlight(toR[x], m)' <=> InFlight(toR[x], m)
                   /\ InFlight(toI[x], m)' <=> InFlight(toI'[x], m)
        BY <1>a DEF InFlight
      <3>3. InFlight(toI[x], "Committed")' =>
               InFlight(toI[x], "Committed") \/ (x = t /\ state = "Committing")
        BY <2>2, <3>2
      <3>4. InFlight(toI[x], "Confirmed")' => InFlight(toI[x], "Confirmed")
        BY <2>2, <3>2
      <3> QED
        BY <2>3, <3>1, <3>2, <3>3, <3>4 DEF MessagesVouch
    <2>8. ASSUME NEW x \in Tx PROVE ResponderMayBe(x, rpc[x])'
      <3>1. CASE x = t
        BY <2>1, <3>1 DEF ResponderMayBe
      <3>2. CASE x # t
        <4>1. ResponderMayBe(x, rpc[x]) /\ rpc'[x] = rpc[x]
          BY <2>1, <3>2 DEF IInv
        <4> QED
          BY <2>3, <3>2, <4>1 DEF ResponderMayBe
      <3> QED
        BY <3>1, <3>2
    <2>9. ASSUME NEW x \in Tx PROVE InitiatorMayBe(x, ipc[x])'
      <3>1. /\ InitiatorMayBe(x, ipc[x]) /\ ipc'[x] = ipc[x]
            /\ peer'[Owner[x]] = peer[Owner[x]] /\ Owner[x] # Host
        BY <1>0, <1>a, <2>3 DEF IInv
      <3> QED
        BY <2>3, <3>1 DEF InitiatorMayBe, DeviceRecordMatches
    <2> QED
      BY <2>3, <2>5, <2>6, <2>7, <2>8, <2>9 DEF IInv
  <1> QED
    BY <1>1, <1>2 DEF ResponderStore

\* A publication of the initiator, however it ends, preserves the invariant.
LEMMA InitiatorStoreStep ==
    ASSUME IInv, NEW t \in Tx, NEW pc, NEW state \in Binding, NEW message \in Message,
           NEW next \in InitiatorPc, InitiatorStore(t, pc, state, message, next),
           \/ pc = "setPending" /\ state = "Pending" /\ message = "Prepared" /\ next = "awaitPrepared"
           \/ pc = "setCommitting" /\ state = "Committing" /\ message = "Committed" /\ next = "awaitComplete"
           \/ pc = "setPaired" /\ state = "Paired" /\ message = "Hello" /\ next = "awaitAck"
    PROVE  /\ IInv'
           /\ \/ UNCHANGED durable
              \/ /\ Owner[t] \in Hosted =>
                      ValidPeerTransition(peer[Owner[t]], [state |-> state, tx |-> t])
                 /\ Publish(Owner[t], state, t)
  <1>0. /\ TypeOK /\ "done" \in InitiatorPc /\ <<message>> \in Seq(Message)
        /\ <<"Close">> \in Seq(Message) /\ <<>> \in Seq(Message)
        /\ toI \in [Tx -> Seq(Message)] /\ toR \in [Tx -> Seq(Message)]
        /\ ipc \in [Tx -> InitiatorPc] /\ Owner[t] \in Store
        /\ \A x \in Tx : Owner[x] \in Store \ {Host}
    BY HostAssumption, OwnerAssumption, NoTxAssumption
    DEF IInv, TypeOK, InitiatorPc, Message, Store
  <1>f. Farewell(t) \in Seq(Message) /\ \A m : InFlight(Farewell(t), m) => m = "Close"
    <2>1. Farewell(t) = <<"Close">> \/ Farewell(t) = <<>>
      BY DEF Farewell
    <2>2. CASE Farewell(t) = <<"Close">>
      BY <1>0, <2>2, Sent
    <2>3. CASE Farewell(t) = <<>>
      BY <1>0, <2>3, Sent
    <2> QED
      BY <2>1, <2>2, <2>3
  <1>a. UNCHANGED <<rpc, toI>> /\ ipc[t] = pc /\ Running(ipc[t])
    BY DEF InitiatorStore, Running
  <1>d. InitiatorMayBe(t, "done") /\ ~Running("done")
    BY DEF InitiatorMayBe, DeviceRecordMatches, Running
  <1>1. CASE UNCHANGED durable /\ ToResponder(t, Farewell(t)) /\ InitiatorAt(t, "done")
    <2>1. /\ ipc' \in [Tx -> InitiatorPc] /\ ipc'[t] = "done"
          /\ \A x \in Tx \ {t} : ipc'[x] = ipc[x]
      BY <1>0, <1>1, InitiatorAtOK
    <2>2. /\ toR' \in [Tx -> Seq(Message)] /\ \A x \in Tx \ {t} : toR'[x] = toR[x]
          /\ \A m : InFlight(toR'[t], m) => InFlight(toR[t], m) \/ InFlight(Farewell(t), m)
      BY <1>0, <1>f, <1>1, ToResponderOK
    <2>3. \A m : InFlight(toR'[t], m) => InFlight(toR[t], m) \/ Harmless(m)
      BY <1>f, <2>2 DEF Harmless
    <2> QED
      BY <1>0, <1>1, <1>a, <1>d, <2>1, <2>2, <2>3, InitiatorLocal
  <1>2. ASSUME Publish(Owner[t], state, t),
               \/ ToResponder(t, <<message>>) /\ InitiatorAt(t, next)
               \/ ToResponder(t, Farewell(t)) /\ InitiatorAt(t, "done")
               \/ UNCHANGED toR /\ InitiatorAt(t, "done")
        PROVE  IInv' /\ Publish(Owner[t], state, t)
    <2>1. /\ ipc' \in [Tx -> InitiatorPc] /\ ipc'[t] \in {next, "done"}
          /\ \A x \in Tx \ {t} : ipc'[x] = ipc[x]
      BY <1>0, <1>2, InitiatorAtOK
    <2>2. /\ toR' \in [Tx -> Seq(Message)] /\ \A x \in Tx \ {t} : toR'[x] = toR[x]
          /\ \A m : InFlight(toR'[t], m) => InFlight(toR[t], m) \/ m \in {message, "Close"}
      <3>1. CASE ToResponder(t, <<message>>)
        <4>1. /\ toR' \in [Tx -> Seq(Message)] /\ \A x \in Tx \ {t} : toR'[x] = toR[x]
              /\ \A m : InFlight(toR'[t], m) => InFlight(toR[t], m) \/ InFlight(<<message>>, m)
          BY <1>0, <3>1, ToResponderOK
        <4> QED
          BY <4>1, Sent
      <3>2. CASE ToResponder(t, Farewell(t))
        <4>1. /\ toR' \in [Tx -> Seq(Message)] /\ \A x \in Tx \ {t} : toR'[x] = toR[x]
              /\ \A m : InFlight(toR'[t], m) => InFlight(toR[t], m) \/ InFlight(Farewell(t), m)
          BY <1>0, <1>f, <3>2, ToResponderOK
        <4> QED
          BY <1>f, <4>1
      <3>3. CASE UNCHANGED toR
        BY <1>0, <3>3
      <3> QED
        BY <1>2, <3>1, <3>2, <3>3
    <2>3. /\ TrustTypeOK' /\ Publish(Owner[t], state, t) /\ consent' = consent
          /\ \A u, st, x : Published(u, st, x) => Published(u, st, x)'
          /\ Published(Owner[t], state, t)'
          /\ \A u, x : Untouched(u, x) /\ ~(u = Owner[t] /\ x = t) => Untouched(u, x)'
          /\ peer'[Owner[t]] = [state |-> state, tx |-> t]
          /\ \A u \in Store \ {Owner[t]} : peer'[u] = peer[u]
      BY <1>0, <1>2, PublishOK
    <2>5. TypeOK'
      BY <1>0, <1>a, <2>1, <2>2, <2>3 DEF TypeOK, IInv
    <2>6. OneInitiator'
      BY <1>a, <2>1 DEF IInv, OneInitiator, Running
    <2>7. ASSUME NEW x \in Tx PROVE MessagesVouch(x)'
      <3>1. MessagesVouch(x) /\ Owner[x]' = Owner[x]
        BY DEF IInv
      <3>2. \A m : /\ InFlight(toR[x], m)' <=> InFlight(toR'[x], m)
                   /\ InFlight(toI[x], m)' <=> InFlight(toI[x], m)
        BY <1>a DEF InFlight
      <3>3. /\ InFlight(toR[x], "Confirmed")' => InFlight(toR[x], "Confirmed")
            /\ InFlight(toR[x], "Prepared")' =>
                  InFlight(toR[x], "Prepared") \/ (x = t /\ state = "Pending")
            /\ InFlight(toR[x], "Hello")' =>
                  InFlight(toR[x], "Hello") \/ (x = t /\ state = "Paired")
        BY <2>2, <3>2
      <3> QED
        BY <2>3, <3>1, <3>2, <3>3 DEF MessagesVouch
    <2>8. ASSUME NEW x \in Tx PROVE ResponderMayBe(x, rpc[x])'
      <3>1. ResponderMayBe(x, rpc[x]) /\ rpc'[x] = rpc[x] /\ Host # Owner[t]
        BY <1>0, <1>a DEF IInv
      <3> QED
        BY <2>3, <3>1 DEF ResponderMayBe
    <2>9. ASSUME NEW x \in Tx PROVE InitiatorMayBe(x, ipc[x])'
      <3>1. CASE x = t
        BY <2>1, <2>3, <3>1 DEF InitiatorMayBe, DeviceRecordMatches
      <3>2. CASE x # t
        <4>1. InitiatorMayBe(x, ipc[x]) /\ ipc'[x] = ipc[x]
          BY <2>1, <3>2 DEF IInv
        <4>2. CASE Owner[x] # Owner[t]
          <5>1. peer'[Owner[x]] = peer[Owner[x]]
            BY <1>0, <2>3, <4>2
          <5> QED
            BY <2>3, <3>2, <4>1, <5>1 DEF InitiatorMayBe, DeviceRecordMatches
        <4>3. CASE Owner[x] = Owner[t] /\ Owner[t] \notin Hosted
          <5>1. ipc[x] \in {"idle", "done"}
            BY <1>a, <3>2, <4>3 DEF IInv, OneInitiator, Running
          <5> QED
            BY <2>3, <3>2, <4>1, <5>1 DEF InitiatorMayBe, DeviceRecordMatches
        <4>4. CASE Owner[x] = Owner[t] /\ Owner[t] \in Hosted
          BY <2>3, <3>2, <4>1, <4>4 DEF InitiatorMayBe
        <4> QED
          BY <4>2, <4>3, <4>4
      <3> QED
        BY <3>1, <3>2
    <2> QED
      BY <2>3, <2>5, <2>6, <2>7, <2>8, <2>9 DEF IInv
  <1> DEFINE record == [state |-> state, tx |-> t]
  <1>3. \/ UNCHANGED durable /\ ToResponder(t, Farewell(t)) /\ InitiatorAt(t, "done")
        \/ /\ Owner[t] \in Hosted => ValidPeerTransition(peer[Owner[t]], record)
           /\ Publish(Owner[t], state, t)
           /\ \/ ToResponder(t, <<message>>) /\ InitiatorAt(t, next)
              \/ ToResponder(t, Farewell(t)) /\ InitiatorAt(t, "done")
              \/ UNCHANGED toR /\ InitiatorAt(t, "done")
    BY Zenon DEF InitiatorStore
  <1> QED
    BY <1>1, <1>2, <1>3

-----------------------------------------------------------------------------
(* Each publication is the step of PairingTrust its rung stands for.       *)

LEMMA ResponderPublishes ==
    ASSUME IInv, NEW t \in Tx,
           \/ ResponderSetPending(t) \/ ResponderSetCommitting(t) \/ ResponderSetPaired(t)
    PROVE  IInv' /\ (UNCHANGED durable \/ TrustNext)
  <1>0. /\ TypeOK /\ Host \in Store /\ Host \in Party(t) /\ Host # Owner[t]
        /\ {"Pending", "Committing", "Paired"} \subseteq Binding
        /\ {"awaitCommit", "awaitCommitted", "done"} \subseteq ResponderPc
        /\ {"Prepared"} \in SUBSET Message /\ {"Committed"} \in SUBSET Message
        /\ {"HelloAck", "HelloReject"} \in SUBSET Message
        /\ ResponderMayBe(t, rpc[t])
    BY HostAssumption, OwnerAssumption, NoTxAssumption
    DEF IInv, Store, Party, Binding, ResponderPc, ResponderExpects, Message, Unpaired
  <1>1. CASE ResponderSetPending(t)
    <2>1. /\ IInv'
          /\ \/ UNCHANGED durable
             \/ /\ ValidPeerTransition(peer[Host], [state |-> "Pending", tx |-> t])
                /\ Publish(Host, "Pending", t)
      BY <1>0, <1>1, ResponderStoreStep DEF ResponderSetPending
    <2>2. rpc[t] = "setPending"
      BY <1>1 DEF ResponderSetPending, ResponderStore
    <2>3. ASSUME ValidPeerTransition(peer[Host], [state |-> "Pending", tx |-> t]),
                 Publish(Host, "Pending", t)
          PROVE  TrustNext
      <3>1. peer[Host] = Unpaired
        BY <1>0, <2>3, ValidRung
      <3>2. Prepare(Host, t)
        BY <1>0, <2>2, <2>3, <3>1 DEF Prepare, ResponderMayBe, Untouched
      <3> QED
        BY <1>0, <3>2 DEF TrustNext
    <2> QED
      BY <2>1, <2>3
  <1>2. CASE ResponderSetCommitting(t)
    <2>1. /\ IInv'
          /\ \/ UNCHANGED durable
             \/ /\ ValidPeerTransition(peer[Host], [state |-> "Committing", tx |-> t])
                /\ Publish(Host, "Committing", t)
      BY <1>0, <1>2, ResponderStoreStep DEF ResponderSetCommitting
    <2>3. ASSUME ValidPeerTransition(peer[Host], [state |-> "Committing", tx |-> t]),
                 Publish(Host, "Committing", t)
          PROVE  TrustNext
      <3>1. peer[Host] = [state |-> "Pending", tx |-> t]
        BY <1>0, <2>3, ValidRung
      <3>2. Commit(Host, t)
        BY <1>0, <2>3, <3>1 DEF Commit
      <3> QED
        BY <1>0, <3>2 DEF TrustNext
    <2> QED
      BY <2>1, <2>3
  <1>3. CASE ResponderSetPaired(t)
    <2>1. /\ IInv'
          /\ \/ UNCHANGED durable
             \/ /\ ValidPeerTransition(peer[Host], [state |-> "Paired", tx |-> t])
                /\ Publish(Host, "Paired", t)
      BY <1>0, <1>3, ResponderStoreStep DEF ResponderSetPaired
    <2>2. rpc[t] = "setPaired"
      BY <1>3 DEF ResponderSetPaired, ResponderStore
    <2>3. ASSUME ValidPeerTransition(peer[Host], [state |-> "Paired", tx |-> t]),
                 Publish(Host, "Paired", t)
          PROVE  TrustNext
      <3>1. peer[Host] = [state |-> "Committing", tx |-> t]
        BY <1>0, <2>3, ValidRung
      <3>2. Trust(Host, t)
        BY <1>0, <2>2, <2>3, <3>1 DEF Trust, ResponderMayBe
      <3> QED
        BY <1>0, <3>2 DEF TrustNext
    <2> QED
      BY <2>1, <2>3
  <1> QED
    BY <1>1, <1>2, <1>3

\* Each publication of the initiator is a step PairingTrust allows.
LEMMA InitiatorPublishes ==
    ASSUME IInv, NEW t \in Tx,
           \/ InitiatorSetPending(t) \/ InitiatorSetCommitting(t) \/ InitiatorSetPaired(t)
    PROVE  IInv' /\ (UNCHANGED durable \/ TrustNext)
  <1> DEFINE d == Owner[t]
             Valid(state) == d \in Hosted =>
                 ValidPeerTransition(peer[d], [state |-> state, tx |-> t])
  <1>0. /\ TypeOK /\ d \in Store /\ d \in Party(t) /\ Host # d
        /\ {"Pending", "Committing", "Paired"} \subseteq Binding
        /\ {"awaitPrepared", "awaitComplete", "awaitAck"} \subseteq InitiatorPc
        /\ {"Prepared", "Committed", "Hello"} \subseteq Message
        /\ InitiatorMayBe(t, ipc[t])
    BY HostAssumption, OwnerAssumption, NoTxAssumption
    DEF IInv, Store, Party, Binding, InitiatorPc, InitiatorExpects, Message, Unpaired
  <1>1. CASE InitiatorSetPending(t)
    <2>1. /\ IInv'
          /\ UNCHANGED durable \/ (Valid("Pending") /\ Publish(d, "Pending", t))
      BY <1>0, <1>1, InitiatorStoreStep DEF InitiatorSetPending
    <2>2. ipc[t] = "setPending"
      BY <1>1 DEF InitiatorSetPending, InitiatorStore
    <2>3. ASSUME Valid("Pending"), Publish(d, "Pending", t)
          PROVE  TrustNext
      <3>1. peer[d] = Unpaired
        <4>1. CASE d \in Hosted
          BY <1>0, <2>3, <4>1, ValidRung
        <4>2. CASE d \notin Hosted
          BY <1>0, <2>2, <4>2 DEF InitiatorMayBe, DeviceRecordMatches
        <4> QED
          BY <4>1, <4>2
      <3>2. Prepare(d, t)
        BY <1>0, <2>2, <2>3, <3>1 DEF Prepare, InitiatorMayBe, Untouched
      <3> QED
        BY <1>0, <3>2 DEF TrustNext
    <2> QED
      BY <2>1, <2>3
  <1>2. CASE InitiatorSetCommitting(t)
    <2>1. /\ IInv'
          /\ UNCHANGED durable \/ (Valid("Committing") /\ Publish(d, "Committing", t))
      BY <1>0, <1>2, InitiatorStoreStep DEF InitiatorSetCommitting
    <2>2. ipc[t] = "setCommitting"
      BY <1>2 DEF InitiatorSetCommitting, InitiatorStore
    <2>3. ASSUME Valid("Committing"), Publish(d, "Committing", t)
          PROVE  TrustNext
      <3>1. peer[d] = [state |-> "Pending", tx |-> t]
        BY <1>0, <2>2, <2>3, ValidRung DEF InitiatorMayBe, DeviceRecordMatches
      <3>2. Commit(d, t)
        BY <1>0, <2>2, <2>3, <3>1 DEF Commit, InitiatorMayBe
      <3> QED
        BY <1>0, <3>2 DEF TrustNext
    <2> QED
      BY <2>1, <2>3
  <1>3. CASE InitiatorSetPaired(t)
    <2>1. /\ IInv'
          /\ UNCHANGED durable \/ (Valid("Paired") /\ Publish(d, "Paired", t))
      BY <1>0, <1>3, InitiatorStoreStep DEF InitiatorSetPaired
    <2>2. ipc[t] = "setPaired"
      BY <1>3 DEF InitiatorSetPaired, InitiatorStore
    <2>3. ASSUME Valid("Paired"), Publish(d, "Paired", t)
          PROVE  TrustNext
      <3>1. peer[d] = [state |-> "Committing", tx |-> t]
        BY <1>0, <2>2, <2>3, ValidRung DEF InitiatorMayBe, DeviceRecordMatches
      <3>2. Trust(d, t)
        BY <1>0, <2>3, <3>1 DEF Trust
      <3> QED
        BY <1>0, <3>2 DEF TrustNext
    <2> QED
      BY <2>1, <2>3
  <1> QED
    BY <1>1, <1>2, <1>3

-----------------------------------------------------------------------------
(* Unpairing.                                                              *)

LEMMA UnpairStep ==
    ASSUME IInv, NEW s \in Store, NEW remote \in Store,
           BeginUnpair(s, remote) \/ FinishUnpair(s, remote)
    PROVE  IInv' /\ TrustNext
  <1>0. /\ TypeOK /\ peer \in [Store -> PeerRecord]
        /\ gen \in [Store -> 0..MaxGeneration] /\ ipc \in [Tx -> InitiatorPc]
        /\ \A x \in Tx : Owner[x] \in Store
        /\ Unpaired \in PeerRecord /\ "done" \in InitiatorPc
    BY OwnerAssumption, NoTxAssumption
    DEF IInv, TypeOK, TrustTypeOK, Store, Unpaired, Binding, PeerRecord, InitiatorPc
  <1>1. CASE BeginUnpair(s, remote)
    <2>1. /\ UNCHANGED <<consent, log, rpc, toR, toI>>
          /\ gen' = [gen EXCEPT ![s] = @ + 1] /\ gen[s] < MaxGeneration
          /\ peer' = [peer EXCEPT ![s] = [state |-> "Revoking", tx |-> @.tx]]
          /\ peer[s].state \in Binding
          /\ ipc' = [t \in Tx |->
                       IF Owner[t] = s /\ s \notin Hosted /\ Running(ipc[t])
                       THEN "done" ELSE ipc[t]]
      BY <1>1 DEF BeginUnpair
    <2>2. Revoke(s)
      BY <1>0, <2>1 DEF Revoke
    <2>3. [state |-> "Revoking", tx |-> peer[s].tx] \in PeerRecord
      BY <1>0, <2>1 DEF PeerRecord, PeerState, Unpaired, Binding
    <2>4. TypeOK'
      <3>1. /\ peer' \in [Store -> PeerRecord]
            /\ gen' \in [Store -> 0..MaxGeneration]
        BY <1>0, <2>1, <2>3, GenerationAssumption
      <3>2. ipc' \in [Tx -> InitiatorPc]
        BY <1>0, <2>1
      <3> QED
        BY <1>0, <2>1, <3>1, <3>2 DEF TypeOK, TrustTypeOK
    <2>5. OneInitiator'
      BY <1>0, <2>1 DEF IInv, OneInitiator, Running
    <2>6. ASSUME NEW x \in Tx PROVE MessagesVouch(x)' /\ ResponderMayBe(x, rpc[x])'
      <3>1. MessagesVouch(x) /\ ResponderMayBe(x, rpc[x])
        BY DEF IInv
      <3>2. MessagesVouch(x)'
        BY <2>1, <3>1 DEF MessagesVouch, Published, InFlight
      <3>3. ResponderMayBe(x, rpc[x])'
        BY <2>1, <3>1 DEF ResponderMayBe, Published, Untouched
      <3> QED
        BY <3>2, <3>3
    <2>7. ASSUME NEW x \in Tx PROVE InitiatorMayBe(x, ipc[x])'
      <3>1. InitiatorMayBe(x, ipc[x])
        BY DEF IInv
      <3>2. CASE Owner[x] = s /\ s \notin Hosted /\ Running(ipc[x])
        BY <2>1, <3>2 DEF InitiatorMayBe, DeviceRecordMatches
      <3>3. CASE Owner[x] = s /\ s \notin Hosted /\ ~Running(ipc[x])
        <4>1. ipc'[x] = ipc[x] /\ ipc[x] \in {"idle", "done"}
          BY <2>1, <3>3 DEF Running
        <4> QED
          BY <2>1, <3>1, <4>1
          DEF InitiatorMayBe, DeviceRecordMatches, Untouched, Published
      <3>4. CASE Owner[x] # s \/ s \in Hosted
        <4>1. /\ ipc'[x] = ipc[x]
              /\ Owner[x] \notin Hosted => peer'[Owner[x]] = peer[Owner[x]]
          BY <1>0, <2>1, <3>4
        <4> QED
          BY <2>1, <3>1, <4>1
          DEF InitiatorMayBe, DeviceRecordMatches, Untouched, Published
      <3> QED
        BY <3>2, <3>3, <3>4
    <2> QED
      BY <1>0, <2>2, <2>4, <2>5, <2>6, <2>7 DEF IInv, TrustNext
  <1>2. CASE FinishUnpair(s, remote)
    <2>1. /\ UNCHANGED <<gen, consent, log, rpc, ipc, toR, toI>>
          /\ peer' = [peer EXCEPT ![s] = Unpaired]
          /\ peer[s].state = "Revoking"
      BY <1>2 DEF FinishUnpair
    <2>2. Forget(s)
      BY <1>0, <2>1 DEF Forget
    <2>4. TypeOK'
      <3>1. peer' \in [Store -> PeerRecord]
        BY <1>0, <2>1
      <3> QED
        BY <1>0, <2>1, <3>1 DEF TypeOK, TrustTypeOK
    <2>5. OneInitiator'
      BY <1>0, <2>1 DEF IInv, OneInitiator, Running
    <2>6. ASSUME NEW x \in Tx PROVE MessagesVouch(x)' /\ ResponderMayBe(x, rpc[x])'
      <3>1. MessagesVouch(x) /\ ResponderMayBe(x, rpc[x])
        BY DEF IInv
      <3>2. MessagesVouch(x)'
        BY <2>1, <3>1 DEF MessagesVouch, Published, InFlight
      <3>3. ResponderMayBe(x, rpc[x])'
        BY <2>1, <3>1 DEF ResponderMayBe, Published, Untouched
      <3> QED
        BY <3>2, <3>3
    <2>7. ASSUME NEW x \in Tx PROVE InitiatorMayBe(x, ipc[x])'
      <3>1. InitiatorMayBe(x, ipc[x]) /\ ipc'[x] = ipc[x]
        BY <2>1 DEF IInv
      <3>2. CASE Owner[x] = s
        <4>1. /\ Owner[x] \notin Hosted => ipc[x] \in {"idle", "done"}
          BY <1>0, <2>1, <3>1, <3>2
          DEF InitiatorMayBe, DeviceRecordMatches, Unpaired, InitiatorPc, InitiatorExpects
        <4> QED
          BY <2>1, <3>1, <4>1
          DEF InitiatorMayBe, DeviceRecordMatches, Untouched, Published
      <3>3. CASE Owner[x] # s
        <4>1. peer'[Owner[x]] = peer[Owner[x]]
          BY <1>0, <2>1, <3>3
        <4> QED
          BY <2>1, <3>1, <4>1
          DEF InitiatorMayBe, DeviceRecordMatches, Untouched, Published
      <3> QED
        BY <3>2, <3>3
    <2> QED
      BY <1>0, <2>2, <2>4, <2>5, <2>6, <2>7 DEF IInv, TrustNext
  <1> QED
    BY <1>1, <1>2

-----------------------------------------------------------------------------
\* The initial states are those of PairingTrust.
LEMMA InitOK == Init => IInv /\ TrustInit
  <1> SUFFICES ASSUME Init PROVE IInv /\ TrustInit
    OBVIOUS
  <1>1. TrustInit
    BY DEF Init
  <1>2. TypeOK
    <2>1. TrustTypeOK
      BY <1>1, GenerationAssumption DEF TrustInit, TrustTypeOK, PeerRecord, Role
    <2> QED
      BY <2>1 DEF Init, TypeOK, ResponderPc, InitiatorPc
  <1>3. OneInitiator
    BY DEF Init, OneInitiator, Running
  <1>4. ASSUME NEW t \in Tx
        PROVE  MessagesVouch(t) /\ ResponderMayBe(t, rpc[t]) /\ InitiatorMayBe(t, ipc[t])
    <2>1. rpc[t] = "idle" /\ ipc[t] = "idle" /\ toR[t] = <<>> /\ toI[t] = <<>> /\ log = {}
      BY DEF Init, TrustInit
    <2>2. MessagesVouch(t)
      BY <2>1, Sent DEF MessagesVouch
    <2> QED
      BY <2>1, <2>2 DEF ResponderMayBe, InitiatorMayBe, DeviceRecordMatches, Untouched
  <1> QED
    BY <1>1, <1>2, <1>3, <1>4 DEF IInv

\* Every step keeps the invariant and is allowed by PairingTrust.
LEMMA StepOK == IInv /\ [Next]_vars => IInv' /\ [TrustNext]_durable
  <1> SUFFICES ASSUME IInv, [Next]_vars PROVE IInv' /\ [TrustNext]_durable
    OBVIOUS
  <1>1. CASE UNCHANGED vars
    <2>1. UNCHANGED <<peer, gen, consent, log, rpc, ipc, toR, toI>>
      BY <1>1 DEF vars
    <2>2. TypeOK' /\ OneInitiator'
      BY <2>1 DEF IInv, TypeOK, TrustTypeOK, OneInitiator
    <2>3. ASSUME NEW x \in Tx
          PROVE  MessagesVouch(x)' /\ ResponderMayBe(x, rpc[x])' /\ InitiatorMayBe(x, ipc[x])'
      <3>1. MessagesVouch(x) /\ ResponderMayBe(x, rpc[x]) /\ InitiatorMayBe(x, ipc[x])
        BY DEF IInv
      <3>2. MessagesVouch(x)'
        BY <2>1, <3>1 DEF MessagesVouch, Published, InFlight
      <3>3. ResponderMayBe(x, rpc[x])'
        BY <2>1, <3>1 DEF ResponderMayBe, Published, Untouched
      <3>4. InitiatorMayBe(x, ipc[x])'
        BY <2>1, <3>1 DEF InitiatorMayBe, DeviceRecordMatches, Published, Untouched
      <3> QED
        BY <3>2, <3>3, <3>4
    <2>4. IInv'
      BY <2>2, <2>3 DEF IInv
    <2> QED
      BY <2>1, <2>4 DEF durable
  <1>2. ASSUME NEW t \in Tx, ResponderNext(t) \/ InitiatorNext(t)
        PROVE  IInv' /\ (UNCHANGED durable \/ TrustNext)
    <2>1. Consent("responder", t) \/ Consent("initiator", t) => TrustNext
      BY DEF TrustNext, Role
    <2>2. CASE ResponderNext(t)
      BY <2>1, <2>2, ResponderReadStep, ResponderConfirmStep, ResponderPublishes
      DEF ResponderNext, ResponderGoesOn
    <2>3. CASE InitiatorNext(t)
      BY <2>1, <2>3, InitiatorReadStep, InitiatorConfirmStep, InitiatorPublishes
      DEF InitiatorNext, InitiatorGoesOn
    <2> QED
      BY <1>2, <2>2, <2>3
  <1>3. ASSUME OwnerNext PROVE IInv' /\ TrustNext
    BY <1>3, UnpairStep DEF OwnerNext
  <1>4. CASE Next
    <2>1. IInv' /\ (UNCHANGED durable \/ TrustNext)
      BY <1>2, <1>3, <1>4 DEF Next
    <2>2. UNCHANGED durable => UNCHANGED durable
      BY DEF durable
    <2> QED
      BY <2>1, <2>2
  <1> QED
    BY <1>1, <1>4

\* What messages in flight and thread positions vouch for is always true, for
\* every set of devices and transactions and every choice of faults.
THEOREM Invariance == Spec => []IInv
  BY InitOK, StepOK, PTL DEF Spec

\* The device's unguarded publications always build on the record it holds.
THEOREM DeviceNeedsNoGuard == Spec => []DeviceRecordMatchesThread
  <1>1. IInv => DeviceRecordMatchesThread
    BY DEF IInv, InitiatorMayBe, DeviceRecordMatchesThread
  <1> QED
    BY <1>1, Invariance, PTL

\* The protocol implements its message-free promise.
THEOREM Refinement == Spec => KeepsTrust
  BY InitOK, StepOK, PTL DEF Spec, KeepsTrust, TrustSpec

(* So what PairingTrust guarantees holds of the protocol.                  *)

\* Host and device never trust one-sidedly, whatever fails and when.
THEOREM PairingAgrees == Spec => []Agreement
  BY Refinement, TrustIsMutual, PTL DEF KeepsTrust, Agreement

\* Every record is consented to, every generation stands for one transaction.
THEOREM PairingIsPinned == Spec => []ConsentAndGeneration
  BY Refinement, TrustIsPinned, PTL DEF KeepsTrust, ConsentAndGeneration
=============================================================================
