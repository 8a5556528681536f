---------------------------- MODULE DeviceProofs ----------------------------
(***************************************************************************)
(* Proofs about the device: the control path and the contact with the host *)
(* of its service, the renderer's exchange with the display, and the start *)
(* of the two processors.                                                  *)
(***************************************************************************)
EXTENDS DeviceControl, DeviceSession, FrameBands, DeviceBoot, TLAPS

-----------------------------------------------------------------------------
(* The control path: frames, queues, completions and the worker.           *)

Place == {"idle", "handle", "act", "connect", "session", "prompt", "poll", "finish"}
Holding == {"handle", "poll", "finish"}
Completion == [frame : Frame \cup {NoFrame}, status : {"Success", "Invalid", "Busy"}]

ControlTypeOK ==
    /\ sent \subseteq Frame
    /\ reader \in {Reading} \cup [at : {"wait"}, frame : sent]
    /\ queue \in [application : Seq(Frame), reserved : Seq(Frame)]
    /\ completions \in Seq(Completion)
    /\ answer \in [Frame -> {"none", "error", "Success", "Invalid", "Busy"}]
    /\ service \in [at : Place, frame : sent \cup {NoFrame}, from : Place]
    /\ service.at \in Holding => service.frame \in sent
    /\ service.at = "poll" => service.from \in {"session", "prompt"}
    /\ enabled \in [running : BOOLEAN, started : BOOLEAN, paired : BOOLEAN]
    /\ told \in BOOLEAN

Queued == queue.application # <<>> \/ queue.reserved # <<>>
Held == service.at \in Holding
One(b) == IF b THEN 1 ELSE 0

\* Only the frame the control thread waits for can be in a queue, and in its own.
QueuedIsAwaited == \A q \in {"application", "reserved"} :
    queue[q] # <<>> =>
        reader.at = "wait" /\ q = QueueOf(reader.frame) /\ queue[q] = <<reader.frame>>

\* The worker has at most one frame that the control thread has given up on.
FewOutstanding ==
    Len(completions) + One(Held) + One(Queued) <= IF reader.at = "wait" THEN 2 ELSE 1

CompletesAwaited == \E i \in DOMAIN completions : completions[i].frame = reader.frame

\* The frame waited for is in one place, and behind the one given up on.
AwaitedIsLast == reader.at = "wait" =>
    /\ CompletesAwaited => ~Held /\ ~Queued
    /\ Held /\ service.frame = reader.frame => ~Queued
    /\ \A i \in DOMAIN completions : completions[i].frame = reader.frame => i = Len(completions)

\* A completion names a frame that was sent; a success was carried out.
CompletionsAreTrue == \A i \in DOMAIN completions :
    LET c == completions[i]
    IN  c.frame # NoFrame => c.frame \in sent /\ (c.status = "Success" => c.frame \in handled)

\* A shutdown that was reported is in UI_ACTION or has stopped the adapter, and
\* the worker is in no contact.
StoppedOrStopping == told =>
    /\ service.at \notin {"connect", "prompt", "session", "poll"}
    /\ action = "shutdown" \/ (~enabled.started /\ action \notin {"run", "pair"})

\* A frame's way through the queues and the worker and back.
WayIsKept ==
    QueuedIsAwaited /\ FewOutstanding /\ AwaitedIsLast /\ CompletionsAreTrue /\ SuccessIsOwn

CommandInv == ControlTypeOK /\ WayIsKept /\ StoppedOrStopping

\* Nothing was sent, nothing is queued.
LEMMA CommandStarts == ControlInit => CommandInv
<1> SUFFICES ASSUME ControlInit PROVE CommandInv
    OBVIOUS
<1>1. queue.application = <<>> /\ queue.reserved = <<>> /\ completions = <<>> /\ reader.at = "read"
      /\ service.at = "idle" /\ told = FALSE
    BY DEF ControlInit, Reading, Idle, At
<1>2. ControlTypeOK
  <2>1. sent \subseteq Frame /\ reader \in {Reading} \cup [at : {"wait"}, frame : sent]
        /\ told \in BOOLEAN
      BY DEF ControlInit
  <2>2. queue \in [application : Seq(Frame), reserved : Seq(Frame)] /\ completions \in Seq(Completion)
        /\ answer \in [Frame -> {"none", "error", "Success", "Invalid", "Busy"}]
      BY DEF ControlInit
  <2>3. service \in [at : Place, frame : sent \cup {NoFrame}, from : Place]
      BY DEF ControlInit, Idle, At, Place
  <2>4. enabled \in [running : BOOLEAN, started : BOOLEAN, paired : BOOLEAN]
      BY DEF ControlInit
  <2> QED BY <1>1, <2>1, <2>2, <2>3, <2>4 DEF ControlTypeOK, Holding
<1>3. QueuedIsAwaited
    BY <1>1 DEF QueuedIsAwaited
<1>4. FewOutstanding
  <2>1. Len(completions) = 0 /\ ~Held /\ ~Queued
      BY <1>1 DEF Held, Holding, Queued
  <2> QED BY <1>1, <2>1 DEF FewOutstanding, One
<1>5. AwaitedIsLast /\ CompletionsAreTrue /\ StoppedOrStopping
    BY <1>1 DEF AwaitedIsLast, CompletionsAreTrue, StoppedOrStopping
<1>6. SuccessIsOwn
    BY DEF ControlInit, SuccessIsOwn
<1> QED BY <1>2, <1>3, <1>4, <1>5, <1>6 DEF CommandInv, WayIsKept

\* A step of the worker that takes no frame and completes none.
LEMMA WorkerMoves ==
    ASSUME CommandInv, UNCHANGED <<sent, reader, queue, completions, answer, handled>>,
           Held' <=> Held, Held => service'.frame = service.frame
    PROVE  WayIsKept'
<1>1. QueuedIsAwaited' /\ SuccessIsOwn' /\ CompletionsAreTrue'
    BY DEF CommandInv, WayIsKept, QueuedIsAwaited, QueueOf, Kind, SuccessIsOwn, CompletionsAreTrue
<1>2. One(Held)' = One(Held) /\ One(Queued)' = One(Queued) /\ (Queued' <=> Queued)
    BY DEF One, Queued
<1>3. FewOutstanding'
    BY <1>2 DEF CommandInv, WayIsKept, FewOutstanding
<1>4. AwaitedIsLast'
    BY <1>2 DEF CommandInv, WayIsKept, AwaitedIsLast, CompletesAwaited
<1> QED BY <1>1, <1>3, <1>4 DEF WayIsKept

\* The numbers the queues allow.
LEMMA Room ==
    ASSUME CommandInv
    PROVE  /\ Len(completions) \in Nat
           /\ Held => Len(completions) <= 1 /\ Len(completions) < CompletionMax
           /\ Held /\ (Queued \/ reader.at # "wait") => Len(completions) = 0
           /\ Queued => Len(completions) <= 1
<1>1. Len(completions) \in Nat
    BY DEF CommandInv, ControlTypeOK
<1>2. Len(completions) + One(Held) + One(Queued) <= IF reader.at = "wait" THEN 2 ELSE 1
    BY DEF CommandInv, WayIsKept, FewOutstanding
<1>3. Held => One(Held) = 1
    BY DEF One
<1>4. Queued => One(Queued) = 1
    BY DEF One
<1>5. One(Held) \in {0, 1} /\ One(Queued) \in {0, 1}
    BY DEF One
<1> QED BY <1>1, <1>2, <1>3, <1>4, <1>5, CompletionAssumption

\* publish_completion by the worker that has the frame: there is room, and the
\* completion is the last.
LEMMA PublishKeeps ==
    ASSUME CommandInv, Held, ~Held', NEW status \in {"Success", "Invalid", "Busy"},
           publish_completion(service.frame, status), handled \subseteq handled',
           status = "Success" => service.frame \in handled',
           UNCHANGED <<sent, reader, queue, answer>>
    PROVE  completions' \in Seq(Completion) /\ WayIsKept'
<1> DEFINE f == service.frame
           c == [frame |-> IF Kind(f) = "invalid" THEN NoFrame ELSE f, status |-> status]
           n == Len(completions)
<1>1. f \in sent /\ f \in Frame
    BY DEF CommandInv, ControlTypeOK, Held
<1>2. n \in Nat /\ n <= 1 /\ n < CompletionMax /\ (Queued \/ reader.at # "wait" => n = 0)
    BY Room
<1>3. completions' = Append(completions, c)
    BY <1>2 DEF publish_completion
<1>4. c \in Completion /\ c.frame \in {f, NoFrame} /\ c.status = status
    BY <1>1 DEF Completion
<1>5. completions \in Seq(Completion)
    BY DEF CommandInv, ControlTypeOK
<1> HIDE DEF c, f, n
<1>6. completions' \in Seq(Completion) /\ Len(completions') = n + 1
      /\ completions'[n + 1] = c
      /\ \A i \in DOMAIN completions' : i # n + 1 =>
             i \in DOMAIN completions /\ completions'[i] = completions[i]
    BY <1>3, <1>4, <1>5 DEF n
<1>7. QueuedIsAwaited' /\ SuccessIsOwn'
    BY DEF CommandInv, WayIsKept, QueuedIsAwaited, SuccessIsOwn, QueueOf, Kind
<1>8. (Queued' <=> Queued) /\ One(Held)' = 0 /\ One(Held) = 1 /\ One(Queued)' = One(Queued)
    BY DEF Queued, One
<1>9. FewOutstanding'
  <2>1. n + One(Held) + One(Queued) <= IF reader.at = "wait" THEN 2 ELSE 1
      BY DEF CommandInv, WayIsKept, FewOutstanding, n
  <2>2. One(Queued) \in {0, 1}
      BY DEF One
  <2>3. \A m \in Nat, k \in {0, 1}, l \in {1, 2} : m + 1 + k <= l => (m + 1) + 0 + k <= l
      OBVIOUS
  <2>4. (n + 1) + 0 + One(Queued) <= IF reader.at = "wait" THEN 2 ELSE 1
    <3>1. n \in Nat /\ One(Held) = 1
        BY <1>2, <1>8
    <3> QED BY <2>1, <2>2, <2>3, <3>1
  <2> QED BY <1>6, <1>8, <2>4 DEF FewOutstanding
<1>10. AwaitedIsLast'
  <2> SUFFICES ASSUME reader.at = "wait"
               PROVE  /\ CompletesAwaited' => ~Queued
                      /\ \A i \in DOMAIN completions' :
                             completions'[i].frame = reader.frame => i = Len(completions')
      BY <1>8 DEF AwaitedIsLast
  <2>1. \A i \in DOMAIN completions : completions[i].frame # reader.frame
      BY DEF CommandInv, WayIsKept, AwaitedIsLast, CompletesAwaited
  <2>2. \A i \in DOMAIN completions' : completions'[i].frame = reader.frame => i = n + 1
      BY <1>6, <2>1
  <2>3. reader.frame # NoFrame
      BY FrameAssumption DEF CommandInv, ControlTypeOK, NoFrame, Reading
  <2>4. CompletesAwaited' => c.frame = reader.frame
      BY <1>6, <2>2 DEF CompletesAwaited
  <2>5. CompletesAwaited' => service.frame = reader.frame
      BY <1>4, <2>3, <2>4 DEF f
  <2>6. CompletesAwaited' => ~Queued
      BY <2>5 DEF CommandInv, WayIsKept, AwaitedIsLast
  <2> QED BY <1>6, <2>2, <2>6
<1>11. CompletionsAreTrue'
  <2> SUFFICES ASSUME NEW i \in DOMAIN completions', completions'[i].frame # NoFrame
               PROVE  /\ completions'[i].frame \in sent
                      /\ completions'[i].status = "Success" => completions'[i].frame \in handled'
      BY DEF CompletionsAreTrue
  <2>1. CASE i = n + 1
      BY <1>1, <1>4, <1>6, <2>1 DEF f
  <2>2. CASE i # n + 1
      BY <1>6, <2>2 DEF CommandInv, WayIsKept, CompletionsAreTrue
  <2> QED BY <2>1, <2>2
<1> QED BY <1>6, <1>7, <1>9, <1>10, <1>11 DEF WayIsKept

\* deskkin_service_take_command: what is queued is the frame waited for.
LEMMA TakeKeeps ==
    ASSUME CommandInv, ~Held, NEW next \in {"handle", "poll"}, take_command(next),
           UNCHANGED <<sent, reader, completions, answer, handled>>
    PROVE  /\ queue' \in [application : Seq(Frame), reserved : Seq(Frame)]
           /\ service' = [at |-> next, frame |-> reader.frame, from |-> service.at]
           /\ reader.frame \in sent /\ WayIsKept'
<1> DEFINE q == IF queue.reserved # <<>> THEN "reserved" ELSE "application"
<1>1. q \in {"application", "reserved"} /\ queue[q] # <<>>
      /\ queue' = [queue EXCEPT ![q] = Tail(@)]
      /\ service' = [at |-> next, frame |-> Head(queue[q]), from |-> service.at]
    BY DEF take_command
<1> HIDE DEF q
<1>2. reader.at = "wait" /\ q = QueueOf(reader.frame) /\ queue[q] = <<reader.frame>>
    BY <1>1 DEF CommandInv, WayIsKept, QueuedIsAwaited
<1>3. \A p \in {"application", "reserved"} : p # q => queue[p] = <<>>
    BY <1>2 DEF CommandInv, WayIsKept, QueuedIsAwaited
<1>4. queue \in [application : Seq(Frame), reserved : Seq(Frame)]
    BY DEF CommandInv, ControlTypeOK
<1>5. queue' = [application |-> <<>>, reserved |-> <<>>]
  <2>1. Tail(queue[q]) = <<>>
      BY <1>2
  <2>2. CASE q = "application"
      BY <1>1, <1>3, <1>4, <2>1, <2>2
  <2>3. CASE q = "reserved"
      BY <1>1, <1>3, <1>4, <2>1, <2>3
  <2> QED BY <1>1, <2>2, <2>3
<1>6. queue' \in [application : Seq(Frame), reserved : Seq(Frame)]
    BY <1>5
<1>7. service' = [at |-> next, frame |-> reader.frame, from |-> service.at]
    BY <1>1, <1>2
<1>8. reader.frame \in sent
    BY <1>2 DEF CommandInv, ControlTypeOK, Reading
<1>9. Queued /\ ~Queued' /\ Held'
    BY <1>1, <1>5, <1>7 DEF Queued, Held, Holding
<1>10. FewOutstanding'
  <2>1. Len(completions) + One(Held) + One(Queued) <= 2 /\ Len(completions) \in Nat
      BY <1>2 DEF CommandInv, WayIsKept, FewOutstanding, ControlTypeOK
  <2>2. One(Held) = 0 /\ One(Queued) = 1 /\ One(Held)' = 1 /\ One(Queued)' = 0
      BY <1>9 DEF One
  <2> QED BY <1>2, <2>1, <2>2 DEF FewOutstanding
<1>11. AwaitedIsLast'
  <2>1. ~CompletesAwaited
      BY <1>2, <1>9 DEF CommandInv, WayIsKept, AwaitedIsLast
  <2> QED BY <1>9, <2>1 DEF AwaitedIsLast, CompletesAwaited
<1>12. QueuedIsAwaited' /\ CompletionsAreTrue' /\ SuccessIsOwn'
    BY <1>5 DEF CommandInv, WayIsKept, QueuedIsAwaited, CompletionsAreTrue, SuccessIsOwn, Kind
<1> QED BY <1>6, <1>7, <1>8, <1>10, <1>11, <1>12 DEF WayIsKept


\* The worker's half of the invariant, in a step of the control thread.
LEMMA ReaderSpares ==
    ASSUME CommandInv, UNCHANGED workerVars, sent \subseteq sent', sent' \subseteq Frame,
           reader' \in {Reading} \cup [at : {"wait"}, frame : sent'],
           queue' \in [application : Seq(Frame), reserved : Seq(Frame)],
           completions' \in Seq(Completion),
           answer' \in [Frame -> {"none", "error", "Success", "Invalid", "Busy"}]
    PROVE  ControlTypeOK' /\ StoppedOrStopping' /\ (Held' <=> Held) /\ One(Held)' = One(Held)
<1>1. UNCHANGED <<service, action, enabled, told>>
    BY DEF workerVars
<1>2. service' \in [at : Place, frame : sent' \cup {NoFrame}, from : Place]
      /\ (service'.at \in Holding => service'.frame \in sent')
    BY <1>1 DEF CommandInv, ControlTypeOK
<1>3. ControlTypeOK'
    BY <1>1, <1>2 DEF CommandInv, ControlTypeOK
<1>4. StoppedOrStopping'
    BY <1>1 DEF CommandInv, StoppedOrStopping
<1> QED BY <1>1, <1>3, <1>4 DEF Held, One

\* While the control thread reads, the queues are empty.
LEMMA ReadsAlone ==
    ASSUME CommandInv, reader.at # "wait"
    PROVE  ~Queued /\ queue = [application |-> <<>>, reserved |-> <<>>]
<1>1. queue.application = <<>> /\ queue.reserved = <<>>
    BY DEF CommandInv, WayIsKept, QueuedIsAwaited
<1>2. queue \in [application : Seq(Frame), reserved : Seq(Frame)]
    BY DEF CommandInv, ControlTypeOK
<1> QED BY <1>1, <1>2 DEF Queued

\* A status command, or a frame that finds its queue full, is answered at once.
LEMMA AnsweredAtOnce ==
    ASSUME CommandInv, NEW f \in Frame, reader = Reading, sent' = sent \cup {f},
           NEW status \in {"Success", "error"}, status = "Success" => Kind(f) = "status",
           Written(f, status), UNCHANGED <<queue, completions, workerVars>>
    PROVE  CommandInv'
<1>1. reader' = Reading /\ answer' = [answer EXCEPT ![f] = status]
    BY DEF Written
<1>2. answer \in [Frame -> {"none", "error", "Success", "Invalid", "Busy"}] /\ sent' \subseteq Frame
      /\ queue \in [application : Seq(Frame), reserved : Seq(Frame)]
      /\ completions \in Seq(Completion)
    BY DEF CommandInv, ControlTypeOK
<1>3. answer' \in [Frame -> {"none", "error", "Success", "Invalid", "Busy"}]
    BY <1>1, <1>2
<1>4. ControlTypeOK' /\ StoppedOrStopping' /\ (Held' <=> Held) /\ One(Held)' = One(Held)
    BY <1>1, <1>2, <1>3, ReaderSpares
<1>5. QueuedIsAwaited' /\ AwaitedIsLast'
    BY <1>1 DEF CommandInv, WayIsKept, QueuedIsAwaited, AwaitedIsLast, Reading
<1>6. FewOutstanding'
  <2>1. One(Queued)' = One(Queued)
      BY DEF Queued, One
  <2> QED BY <1>1, <1>4, <2>1 DEF CommandInv, WayIsKept, FewOutstanding
<1>7. CompletionsAreTrue' /\ SuccessIsOwn'
  <2>1. handled' = handled
      BY DEF workerVars
  <2> QED BY <1>1, <1>2, <2>1 DEF CommandInv, WayIsKept, CompletionsAreTrue, SuccessIsOwn, Kind
<1> QED BY <1>4, <1>5, <1>6, <1>7 DEF CommandInv, WayIsKept

\* control_submit: the frame is queued behind nothing, or refused.
LEMMA SubmitKeeps == \A f \in Frame : CommandInv /\ control_submit(f) => CommandInv'
<1> SUFFICES ASSUME NEW f \in Frame, CommandInv, control_submit(f) PROVE CommandInv'
    OBVIOUS
<1>1. reader = Reading /\ f \notin sent /\ sent' = sent \cup {f}
      /\ UNCHANGED <<completions, workerVars>>
    BY DEF control_submit
<1>2. CASE Written(f, "error") /\ UNCHANGED queue
    BY <1>1, <1>2, AnsweredAtOnce
<1>3. CASE /\ queue' = [queue EXCEPT ![QueueOf(f)] = Append(@, f)]
           /\ reader' = [at |-> "wait", frame |-> f] /\ UNCHANGED answer
  <2>1. ~Queued /\ queue = [application |-> <<>>, reserved |-> <<>>]
      BY <1>1, ReadsAlone DEF Reading
  <2>2. QueueOf(f) \in {"application", "reserved"}
      BY DEF QueueOf
  <2>3. queue' = [queue EXCEPT ![QueueOf(f)] = <<f>>]
    <3>1. Append(<<>>, f) = <<f>>
        OBVIOUS
    <3>2. queue[QueueOf(f)] = <<>>
        BY <2>1, <2>2
    <3> QED BY <1>3, <3>1, <3>2
  <2>4. queue' \in [application : Seq(Frame), reserved : Seq(Frame)]
        /\ queue'[QueueOf(f)] = <<f>>
        /\ \A q \in {"application", "reserved"} : q # QueueOf(f) => queue'[q] = <<>>
    <3>1. <<f>> \in Seq(Frame) /\ <<>> \in Seq(Frame)
        OBVIOUS
    <3>2. CASE QueueOf(f) = "application"
      <4>1. queue' = [application |-> <<f>>, reserved |-> <<>>]
          BY <2>1, <2>3, <3>2
      <4> QED BY <3>1, <3>2, <4>1
    <3>3. CASE QueueOf(f) = "reserved"
      <4>1. queue' = [application |-> <<>>, reserved |-> <<f>>]
          BY <2>1, <2>3, <3>3
      <4> QED BY <3>1, <3>3, <4>1
    <3> QED BY <2>2, <3>2, <3>3
  <2>5. reader' \in {Reading} \cup [at : {"wait"}, frame : sent'] /\ sent' \subseteq Frame
        /\ completions' \in Seq(Completion)
        /\ answer' \in [Frame -> {"none", "error", "Success", "Invalid", "Busy"}]
      BY <1>1, <1>3 DEF CommandInv, ControlTypeOK
  <2>6. ControlTypeOK' /\ StoppedOrStopping' /\ (Held' <=> Held) /\ One(Held)' = One(Held)
      BY <1>1, <2>4, <2>5, ReaderSpares
  <2>7. QueuedIsAwaited'
      BY <1>3, <2>4 DEF QueuedIsAwaited, QueueOf, Kind
  <2>8. FewOutstanding'
    <3>1. Len(completions) + One(Held) + 0 <= 1 /\ Len(completions) \in Nat
        BY <1>1, <2>1 DEF CommandInv, WayIsKept, FewOutstanding, Reading, One, ControlTypeOK
    <3>2. One(Held) \in {0, 1} /\ One(Queued)' \in {0, 1}
        BY DEF One
    <3>3. \A m \in Nat, h, k \in {0, 1} : m + h + 0 <= 1 => m + h + k <= 2
        OBVIOUS
    <3>4. Len(completions) + One(Held) + One(Queued)' <= 2
        BY <3>1, <3>2, <3>3
    <3> QED BY <1>1, <1>3, <2>6, <3>4 DEF FewOutstanding
  <2>9. AwaitedIsLast'
    <3>1. \A i \in DOMAIN completions : completions[i].frame # f
        BY <1>1, FrameAssumption DEF CommandInv, WayIsKept, CompletionsAreTrue, NoFrame
    <3>2. Held => service.frame # f
        BY <1>1 DEF CommandInv, ControlTypeOK, Held
    <3> QED BY <1>1, <1>3, <2>6, <3>1, <3>2 DEF AwaitedIsLast, CompletesAwaited, workerVars
  <2>10. CompletionsAreTrue' /\ SuccessIsOwn'
    <3>1. handled' = handled
        BY <1>1 DEF workerVars
    <3> QED BY <1>1, <1>3, <3>1
            DEF CommandInv, WayIsKept, CompletionsAreTrue, SuccessIsOwn, Kind
  <2> QED BY <2>6, <2>7, <2>8, <2>9, <2>10 DEF CommandInv, WayIsKept
<1> QED BY <1>2, <1>3 DEF control_submit

\* take_matching_completion: the answer is the frame's own, and nothing is left
\* behind it.
LEMMA MatchingKeeps == CommandInv /\ take_matching_completion => CommandInv'
<1> SUFFICES ASSUME CommandInv, take_matching_completion PROVE CommandInv'
    OBVIOUS
<1> DEFINE h == Head(completions)
           f == reader.frame
<1>1. reader.at = "wait" /\ completions # <<>> /\ completions' = Tail(completions)
      /\ UNCHANGED <<sent, queue, workerVars>>
    BY DEF take_matching_completion
<1>2. completions \in Seq(Completion) /\ f \in sent /\ f \in Frame
      /\ queue \in [application : Seq(Frame), reserved : Seq(Frame)] /\ sent \subseteq Frame
      /\ answer \in [Frame -> {"none", "error", "Success", "Invalid", "Busy"}]
      /\ reader \in {Reading} \cup [at : {"wait"}, frame : sent]
    BY <1>1 DEF CommandInv, ControlTypeOK, Reading
<1>3. completions' \in Seq(Completion) /\ Len(completions) \in Nat
      /\ Len(completions) = Len(completions') + 1 /\ Len(completions') \in Nat
      /\ h = completions[1] /\ 1 \in DOMAIN completions /\ h \in Completion
      /\ \A i \in DOMAIN completions' :
             i + 1 \in DOMAIN completions /\ completions'[i] = completions[i + 1] /\ i \in Nat
    BY <1>1, <1>2
<1>4. h.frame # NoFrame => (h.status = "Success" => h.frame \in handled)
    BY <1>3 DEF CommandInv, WayIsKept, CompletionsAreTrue
<1>5. f # NoFrame /\ h.status \in {"none", "error", "Success", "Invalid", "Busy"}
    BY <1>2, <1>3, FrameAssumption DEF NoFrame, Completion
<1>6. \/ h.frame = f /\ reader' = Reading /\ answer' = [answer EXCEPT ![f] = h.status]
      \/ h.frame # f /\ UNCHANGED <<reader, answer>>
    BY DEF take_matching_completion, Written
<1> HIDE DEF h, f
<1>7. reader' \in {Reading} \cup [at : {"wait"}, frame : sent']
      /\ answer' \in [Frame -> {"none", "error", "Success", "Invalid", "Busy"}]
  <2>1. reader' \in {Reading} \cup [at : {"wait"}, frame : sent']
      BY <1>1, <1>2, <1>6
  <2>2. answer' \in [Frame -> {"none", "error", "Success", "Invalid", "Busy"}]
      BY <1>2, <1>5, <1>6
  <2> QED BY <2>1, <2>2
<1>8. ControlTypeOK' /\ StoppedOrStopping' /\ (Held' <=> Held) /\ One(Held)' = One(Held)
    BY <1>1, <1>2, <1>3, <1>7, ReaderSpares
<1>9. (Queued' <=> Queued) /\ One(Queued)' = One(Queued)
    BY <1>1 DEF Queued, One
<1>10. CompletionsAreTrue' /\ SuccessIsOwn'
  <2>1. handled' = handled
      BY <1>1 DEF workerVars
  <2>2. CompletionsAreTrue'
      BY <1>1, <1>3, <2>1 DEF CommandInv, WayIsKept, CompletionsAreTrue
  <2>3. SuccessIsOwn'
      BY <1>2, <1>4, <1>5, <1>6, <2>1 DEF CommandInv, WayIsKept, SuccessIsOwn, Kind
  <2> QED BY <2>2, <2>3
<1>11. Len(completions) + One(Held) + One(Queued) <= 2
    BY <1>1 DEF CommandInv, WayIsKept, FewOutstanding
<1>12. One(Held) \in {0, 1} /\ One(Queued) \in {0, 1}
    BY DEF One
<1>13. CASE h.frame = f
  <2>1. 1 = Len(completions) /\ ~Held /\ ~Queued
      BY <1>1, <1>3, <1>13 DEF CommandInv, WayIsKept, AwaitedIsLast, CompletesAwaited, f
  <2>2. reader'.at = "read"
      BY <1>6, <1>13 DEF Reading
  <2>3. FewOutstanding'
    <3>1. Len(completions') = 0 /\ One(Held)' = 0 /\ One(Queued)' = 0
        BY <1>3, <1>8, <1>9, <2>1 DEF One
    <3> QED BY <2>2, <3>1 DEF FewOutstanding
  <2>4. QueuedIsAwaited' /\ AwaitedIsLast'
      BY <1>1, <2>1, <2>2 DEF QueuedIsAwaited, AwaitedIsLast, Queued
  <2> QED BY <1>8, <1>10, <2>3, <2>4 DEF CommandInv, WayIsKept
<1>14. CASE h.frame # f
  <2>1. reader' = reader
      BY <1>6, <1>14
  <2>2. FewOutstanding'
    <3>1. \A m, n \in Nat, i, j \in {0, 1} : n = m + 1 /\ n + i + j <= 2 => m + i + j <= 2
        OBVIOUS
    <3>2. Len(completions') + One(Held) + One(Queued) <= 2
        BY <1>3, <1>11, <1>12, <3>1
    <3> QED BY <1>1, <1>8, <1>9, <2>1, <3>2 DEF FewOutstanding
  <2>3. QueuedIsAwaited'
      BY <1>1, <2>1 DEF CommandInv, WayIsKept, QueuedIsAwaited, QueueOf, Kind
  <2>4. AwaitedIsLast'
    <3>1. CompletesAwaited' => CompletesAwaited
        BY <1>3, <2>1 DEF CompletesAwaited
    <3>2. \A i \in DOMAIN completions' : completions'[i].frame = reader'.frame => i = Len(completions')
      <4> SUFFICES ASSUME NEW i \in DOMAIN completions', completions'[i].frame = reader'.frame
                   PROVE  i = Len(completions')
          OBVIOUS
      <4>1. i + 1 = Len(completions)
          BY <1>1, <1>3, <2>1 DEF CommandInv, WayIsKept, AwaitedIsLast
      <4> QED BY <1>3, <4>1
    <3>3. service' = service
        BY <1>1 DEF workerVars
    <3> QED BY <1>1, <1>8, <1>9, <2>1, <3>1, <3>2, <3>3 DEF CommandInv, WayIsKept, AwaitedIsLast
  <2> QED BY <1>8, <1>10, <2>2, <2>3, <2>4 DEF CommandInv, WayIsKept
<1> QED BY <1>13, <1>14

\* After five seconds the frame is purged from its queue; the worker may have it.
LEMMA TimeoutKeeps == CommandInv /\ CompletionTimeout => CommandInv'
<1> SUFFICES ASSUME CommandInv, CompletionTimeout PROVE CommandInv'
    OBVIOUS
<1> DEFINE f == reader.frame
<1>1. reader.at = "wait" /\ completions = <<>> /\ reader' = Reading
      /\ answer' = [answer EXCEPT ![f] = "error"]
      /\ queue' = [queue EXCEPT ![QueueOf(f)] = <<>>]
      /\ UNCHANGED <<sent, completions, workerVars>>
    BY DEF CompletionTimeout, Written
<1>2. queue \in [application : Seq(Frame), reserved : Seq(Frame)] /\ sent \subseteq Frame
      /\ answer \in [Frame -> {"none", "error", "Success", "Invalid", "Busy"}]
      /\ completions \in Seq(Completion)
    BY DEF CommandInv, ControlTypeOK
<1>3. \A q \in {"application", "reserved"} : q # QueueOf(f) => queue[q] = <<>>
    BY DEF CommandInv, WayIsKept, QueuedIsAwaited
<1>4. queue' = [application |-> <<>>, reserved |-> <<>>]
  <2>1. CASE QueueOf(f) = "application"
      BY <1>1, <1>2, <1>3, <2>1
  <2>2. CASE QueueOf(f) = "reserved"
      BY <1>1, <1>2, <1>3, <2>2
  <2> QED BY <2>1, <2>2 DEF QueueOf
<1> HIDE DEF f
<1>5. ControlTypeOK' /\ StoppedOrStopping' /\ (Held' <=> Held) /\ One(Held)' = One(Held)
  <2>1. answer' \in [Frame -> {"none", "error", "Success", "Invalid", "Busy"}]
      BY <1>1, <1>2
  <2>2. queue' \in [application : Seq(Frame), reserved : Seq(Frame)]
      BY <1>4
  <2> QED BY <1>1, <1>2, <2>1, <2>2, ReaderSpares
<1>6. QueuedIsAwaited' /\ AwaitedIsLast'
    BY <1>1, <1>4 DEF QueuedIsAwaited, AwaitedIsLast, Reading
<1>7. FewOutstanding'
  <2>1. Len(completions') = 0 /\ One(Queued)' = 0 /\ One(Held)' \in {0, 1}
      BY <1>1, <1>4 DEF Queued, One
  <2>2. reader'.at # "wait"
      BY <1>1 DEF Reading
  <2>3. \A k \in {0, 1} : 0 + k + 0 <= 1
      OBVIOUS
  <2> QED BY <2>1, <2>2, <2>3 DEF FewOutstanding
<1>8. CompletionsAreTrue' /\ SuccessIsOwn'
  <2>1. handled' = handled
      BY <1>1 DEF workerVars
  <2> QED BY <1>1, <1>2, <2>1 DEF CommandInv, WayIsKept, CompletionsAreTrue, SuccessIsOwn, Kind
<1> QED BY <1>5, <1>6, <1>7, <1>8 DEF CommandInv, WayIsKept


\* The worker's places between frames.
LEMMA AtPlace ==
    ASSUME NEW place \in Place \ Holding
    PROVE  /\ At(place) \in [at : Place, frame : sent \cup {NoFrame}, from : Place]
           /\ At(place).at = place
BY DEF At

\* A worker's step that goes to a place without a frame, from such a place.
LEMMA RoamKeeps ==
    ASSUME CommandInv, ~Held, NEW place \in Place \ Holding, service' = At(place),
           enabled' \in [running : BOOLEAN, started : BOOLEAN, paired : BOOLEAN],
           UNCHANGED <<sent, reader, queue, completions, answer, handled, told>>
    PROVE  ControlTypeOK' /\ WayIsKept' /\ service'.at = place
<1>1. service' \in [at : Place, frame : sent \cup {NoFrame}, from : Place] /\ service'.at = place
    BY AtPlace
<1>2. ~Held'
    BY <1>1 DEF Held
<1>3. WayIsKept'
    BY <1>2, WorkerMoves
<1>4. ControlTypeOK'
    BY <1>1 DEF CommandInv, ControlTypeOK, Holding
<1> QED BY <1>1, <1>3, <1>4

\* A worker's step that takes a frame: at rest, or in a contact.
LEMMA TakesKeep ==
    ASSUME CommandInv, \/ service.at = "idle" /\ take_command("handle")
                       \/ service.at \in {"session", "prompt"} /\ take_command("poll"),
           UNCHANGED <<sent, reader, completions, answer, action, enabled, touches, handled, told>>
    PROVE  CommandInv'
<1>1. PICK next \in {"handle", "poll"} : /\ take_command(next)
                                         /\ next = "handle" => service.at = "idle"
                                         /\ next = "poll" => service.at \in {"session", "prompt"}
    OBVIOUS
<1>2. ~Held
    BY <1>1 DEF Held, Holding
<1>3. /\ queue' \in [application : Seq(Frame), reserved : Seq(Frame)]
      /\ service' = [at |-> next, frame |-> reader.frame, from |-> service.at]
      /\ reader.frame \in sent /\ WayIsKept'
    BY <1>1, <1>2, TakeKeeps
<1>4. service.at \in Place
    BY DEF CommandInv, ControlTypeOK
<1>5. service' \in [at : Place, frame : sent \cup {NoFrame}, from : Place]
      /\ service'.at = next /\ service'.frame \in sent /\ service'.from = service.at
    BY <1>3, <1>4 DEF Place
<1>6. ControlTypeOK'
    BY <1>1, <1>3, <1>5 DEF CommandInv, ControlTypeOK
<1>7. StoppedOrStopping'
    BY <1>1, <1>5 DEF CommandInv, StoppedOrStopping
<1> QED BY <1>3, <1>6, <1>7 DEF CommandInv

\* handle_control, outside a contact.
LEMMA HandleKeeps == CommandInv /\ handle_control => CommandInv'
<1> SUFFICES ASSUME CommandInv, handle_control PROVE CommandInv'
    OBVIOUS
<1> DEFINE f == service.frame
<1>1. service.at = "handle" /\ service' = At("act") /\ UNCHANGED <<sent, reader, queue, answer>>
    BY DEF handle_control
<1>2. Held /\ f \in sent /\ f \in Frame
    BY <1>1 DEF CommandInv, ControlTypeOK, Held, Holding
<1>3. service' \in [at : Place, frame : sent \cup {NoFrame}, from : Place] /\ service'.at = "act"
    BY <1>1, AtPlace DEF Place, Holding
<1>4. ~Held'
    BY <1>3 DEF Held, Holding
<1>5. completions' \in Seq(Completion) /\ WayIsKept'
  <2>1. CASE Kind(f) = "invalid"
      BY <1>1, <1>2, <1>4, <2>1, PublishKeeps DEF handle_control
  <2>2. CASE Kind(f) # "invalid"
      BY <1>1, <1>2, <1>4, <2>2, PublishKeeps DEF handle_control
  <2> QED BY <2>1, <2>2
<1>6. enabled' \in [running : BOOLEAN, started : BOOLEAN, paired : BOOLEAN]
      /\ enabled'.started = enabled.started
  <2>1. enabled \in [running : BOOLEAN, started : BOOLEAN, paired : BOOLEAN]
      BY DEF CommandInv, ControlTypeOK
  <2>2. CASE Kind(f) = "invalid"
      BY <2>1, <2>2 DEF handle_control
  <2>3. CASE Kind(f) # "invalid"
    <3>1. enabled' = [enabled EXCEPT !.paired = enabled.paired /\ Kind(f) # "unpair"]
        BY <2>3 DEF handle_control
    <3> QED BY <2>1, <3>1
  <2> QED BY <2>2, <2>3
<1>7. \/ UNCHANGED <<action, told>>
      \/ action' = "run" /\ told' = FALSE
      \/ action' = "shutdown" /\ told' = TRUE
  <2>1. CASE Kind(f) = "invalid"
      BY <2>1 DEF handle_control
  <2>2. CASE Kind(f) = "run"
      BY <2>2 DEF handle_control
  <2>3. CASE Kind(f) = "shutdown"
      BY <2>3 DEF handle_control
  <2>4. CASE Kind(f) \notin {"invalid", "run", "shutdown"}
      BY <2>4 DEF handle_control
  <2> QED BY <2>1, <2>2, <2>3, <2>4
<1>8. ControlTypeOK'
  <2>1. told' \in BOOLEAN
      BY <1>7 DEF CommandInv, ControlTypeOK
  <2> QED BY <1>1, <1>3, <1>5, <1>6, <2>1 DEF CommandInv, ControlTypeOK, Holding
<1>9. StoppedOrStopping'
    BY <1>3, <1>6, <1>7 DEF CommandInv, StoppedOrStopping
<1> QED BY <1>5, <1>8, <1>9 DEF CommandInv

\* The worker looks at UI_ACTION; after a shutdown it opens no contact.
LEMMA ActionKeeps == CommandInv /\ TakeAction => CommandInv'
<1> SUFFICES ASSUME CommandInv, TakeAction PROVE CommandInv'
    OBVIOUS
<1> DEFINE next == CASE action = "shutdown" -> [enabled EXCEPT !.running = FALSE, !.started = FALSE]
                     [] action = "run" -> [enabled EXCEPT !.running = TRUE, !.started = TRUE]
                     [] action = "pair" -> [enabled EXCEPT !.started = TRUE]
                     [] OTHER -> enabled
<1>1. service.at \in {"idle", "act"} /\ action' = "none" /\ enabled' = next
      /\ UNCHANGED <<sent, reader, queue, completions, answer, touches, handled, told>>
    BY DEF TakeAction
<1>2. (service' = At("connect") /\ next.started) \/ service' = At("idle")
    BY DEF TakeAction, Idle
<1>3. enabled \in [running : BOOLEAN, started : BOOLEAN, paired : BOOLEAN]
    BY DEF CommandInv, ControlTypeOK
<1>4. next \in [running : BOOLEAN, started : BOOLEAN, paired : BOOLEAN]
      /\ (action = "shutdown" => next.started = FALSE)
      /\ (action \notin {"shutdown", "run", "pair"} => next = enabled)
    BY <1>3
<1> HIDE DEF next
<1>5. PICK place \in {"connect", "idle"} : /\ service' = At(place)
                                           /\ place = "connect" => next.started
    BY <1>2
<1>6. ~Held /\ place \in Place \ Holding
    BY <1>1 DEF Held, Holding, Place
<1>7. ControlTypeOK' /\ WayIsKept' /\ service'.at = place
    BY <1>1, <1>4, <1>5, <1>6, RoamKeeps
<1>8. told => ~next.started
  <2>1. told => action = "shutdown" \/ (~enabled.started /\ action \notin {"run", "pair"})
      BY DEF CommandInv, StoppedOrStopping
  <2> QED BY <1>4, <2>1
<1>9. StoppedOrStopping'
    BY <1>1, <1>5, <1>7, <1>8 DEF StoppedOrStopping
<1> QED BY <1>7, <1>9 DEF CommandInv

\* Connecting, the pairing prompt and the failures of a contact: no shutdown is
\* in force.
LEMMA ContactKeeps ==
    ASSUME CommandInv, Connects \/ PromptDecided \/ ContactFails PROVE CommandInv'
<1>1. service.at \in {"connect", "prompt", "session"}
      /\ UNCHANGED <<sent, reader, queue, completions, answer, handled, told>>
    BY DEF Connects, PromptDecided, ContactFails
<1>2. ~told /\ ~Held
    BY <1>1 DEF CommandInv, StoppedOrStopping, Held, Holding
<1>3. enabled' \in [running : BOOLEAN, started : BOOLEAN, paired : BOOLEAN]
  <2>1. enabled \in [running : BOOLEAN, started : BOOLEAN, paired : BOOLEAN]
      BY DEF CommandInv, ControlTypeOK
  <2>2. \/ enabled' = enabled \/ enabled' = [enabled EXCEPT !.paired = TRUE]
        \/ enabled' = [enabled EXCEPT !.started = FALSE]
      BY DEF Connects, PromptDecided, ContactFails
  <2> QED BY <2>1, <2>2
<1>4. service' \in {At("session"), At("prompt"), At("idle"), service}
    BY DEF Connects, PromptDecided, ContactFails, Idle
<1>5. StoppedOrStopping'
    BY <1>1, <1>2 DEF StoppedOrStopping
<1>6. CASE service' = service
  <2>1. WayIsKept'
      BY <1>1, <1>2, <1>6, WorkerMoves DEF Held
  <2>2. ControlTypeOK'
      BY <1>1, <1>3, <1>6 DEF CommandInv, ControlTypeOK
  <2> QED BY <1>5, <2>1, <2>2 DEF CommandInv
<1>7. CASE service' # service
  <2>1. PICK place \in {"session", "prompt", "idle"} : service' = At(place)
      BY <1>4, <1>7
  <2>2. place \in Place \ Holding
      BY DEF Place, Holding
  <2> QED BY <1>1, <1>2, <1>3, <1>5, <2>1, <2>2, RoamKeeps DEF CommandInv
<1> QED BY <1>6, <1>7

\* poll_active_control: a shutdown or an unpair is kept for the end of the
\* contact, anything else is Busy.
LEMMA PollKeeps == CommandInv /\ poll_active_control => CommandInv'
<1> SUFFICES ASSUME CommandInv, poll_active_control PROVE CommandInv'
    OBVIOUS
<1> DEFINE f == service.frame
<1>1. service.at = "poll" /\ UNCHANGED <<sent, reader, queue, answer, enabled, handled>>
    BY DEF poll_active_control
<1>2. Held /\ ~told /\ service.from \in {"session", "prompt"} /\ f \in sent
      /\ service \in [at : Place, frame : sent \cup {NoFrame}, from : Place]
    BY <1>1 DEF CommandInv, ControlTypeOK, Held, Holding, StoppedOrStopping
<1>3. CASE Kind(f) \in {"shutdown", "unpair"}
  <2>1. service' = [service EXCEPT !.at = "finish"] /\ EndsContact(f) /\ UNCHANGED completions
      BY <1>3 DEF poll_active_control
  <2>2. service' \in [at : Place, frame : sent \cup {NoFrame}, from : Place]
        /\ service'.at = "finish" /\ service'.frame = f
      BY <1>2, <2>1 DEF Place
  <2>3. WayIsKept'
    <3>1. Held'
        BY <2>2 DEF Held, Holding
    <3> QED BY <1>1, <1>2, <2>1, <2>2, <3>1, WorkerMoves
  <2>4. \/ action' = "shutdown" /\ told' = TRUE
        \/ told' = FALSE
      BY <1>2, <2>1 DEF EndsContact
  <2>5. ControlTypeOK'
      BY <1>1, <1>2, <2>1, <2>2, <2>4 DEF CommandInv, ControlTypeOK
  <2>6. StoppedOrStopping'
      BY <2>2, <2>4 DEF StoppedOrStopping
  <2> QED BY <2>3, <2>5, <2>6 DEF CommandInv
<1>4. CASE Kind(f) \notin {"shutdown", "unpair"}
  <2>1. service' = At(service.from) /\ publish_completion(f, "Busy") /\ UNCHANGED <<action, told>>
      BY <1>4 DEF poll_active_control
  <2>2. service' \in [at : Place, frame : sent \cup {NoFrame}, from : Place]
        /\ service'.at \in {"session", "prompt"}
    <3>1. service.from \in Place \ Holding
        BY <1>2 DEF Place, Holding
    <3> QED BY <1>2, <2>1, <3>1, AtPlace
  <2>3. ~Held'
      BY <2>2 DEF Held, Holding
  <2>4. completions' \in Seq(Completion) /\ WayIsKept'
      BY <1>1, <1>2, <2>1, <2>3, PublishKeeps
  <2>5. ControlTypeOK'
      BY <1>1, <2>1, <2>2, <2>4 DEF CommandInv, ControlTypeOK, Holding
  <2>6. StoppedOrStopping'
      BY <1>2, <2>1 DEF StoppedOrStopping
  <2> QED BY <2>4, <2>5, <2>6 DEF CommandInv
<1> QED BY <1>3, <1>4

\* finish_active_control: carried out, reported, and the worker is idle.
LEMMA FinishKeeps == CommandInv /\ finish_active_control => CommandInv'
<1> SUFFICES ASSUME CommandInv, finish_active_control PROVE CommandInv'
    OBVIOUS
<1> DEFINE f == service.frame
<1>1. service.at = "finish" /\ service' = At("idle") /\ handled' = handled \cup {f}
      /\ publish_completion(f, "Success")
      /\ enabled' = [enabled EXCEPT !.paired = @ /\ Kind(f) # "unpair"]
      /\ UNCHANGED <<sent, reader, queue, answer, action, touches, told>>
    BY DEF finish_active_control, Idle
<1>2. Held
    BY <1>1 DEF Held, Holding
<1>3. service' \in [at : Place, frame : sent \cup {NoFrame}, from : Place] /\ service'.at = "idle"
    BY <1>1, AtPlace DEF Place, Holding
<1>4. ~Held'
    BY <1>3 DEF Held, Holding
<1>5. completions' \in Seq(Completion) /\ WayIsKept'
    BY <1>1, <1>2, <1>4, PublishKeeps
<1>6. enabled' \in [running : BOOLEAN, started : BOOLEAN, paired : BOOLEAN]
      /\ enabled'.started = enabled.started
  <2>1. enabled \in [running : BOOLEAN, started : BOOLEAN, paired : BOOLEAN]
      BY DEF CommandInv, ControlTypeOK
  <2> QED BY <1>1, <2>1
<1>7. ControlTypeOK'
    BY <1>1, <1>3, <1>5, <1>6 DEF CommandInv, ControlTypeOK, Holding
<1>8. StoppedOrStopping'
    BY <1>1, <1>3, <1>6 DEF CommandInv, StoppedOrStopping
<1> QED BY <1>5, <1>7, <1>8 DEF CommandInv

\* A touch overwrites UI_ACTION: pair starts the adapter again, and a shutdown
\* that was not looked at yet is lost.
LEMMA TouchKeeps ==
    \A a \in {"pair", "confirm", "reject"} : CommandInv /\ Touch(a) => CommandInv'
<1> SUFFICES ASSUME NEW a \in {"pair", "confirm", "reject"}, CommandInv, Touch(a)
             PROVE  CommandInv'
    OBVIOUS
<1>1. action' = a /\ told' = (told /\ a # "pair" /\ action # "shutdown")
      /\ UNCHANGED <<sent, reader, queue, completions, answer, service, enabled, handled>>
    BY DEF Touch
<1>2. WayIsKept'
    BY <1>1, WorkerMoves DEF Held
<1>3. ControlTypeOK'
    BY <1>1 DEF CommandInv, ControlTypeOK
<1>4. StoppedOrStopping'
    BY <1>1 DEF CommandInv, StoppedOrStopping
<1> QED BY <1>2, <1>3, <1>4 DEF CommandInv

\* The control thread, its queues and the worker stay in step.
THEOREM CommandInvariance == ControlSpec => []CommandInv
<1>1. CommandInv /\ [ControlNext]_controlVars => CommandInv'
  <2> SUFFICES ASSUME CommandInv, [ControlNext]_controlVars PROVE CommandInv'
      OBVIOUS
  <2>1. ASSUME NEW f \in Frame, control_snapshot(f) \/ control_submit(f) PROVE CommandInv'
    <3>1. CASE control_snapshot(f)
        BY <3>1, AnsweredAtOnce DEF control_snapshot
    <3> QED BY <2>1, <3>1, SubmitKeeps
  <2>2. CASE ReaderNext
      BY <2>2, MatchingKeeps, TimeoutKeeps DEF ReaderNext
  <2>3. CASE ServiceNext
    <3>1. CASE ServiceTakes \/ ServicePolls
        BY <3>1, TakesKeep DEF ServiceTakes, ServicePolls
    <3>2. CASE Connects \/ PromptDecided \/ ContactFails
        BY <3>2, ContactKeeps
    <3> QED BY <2>3, <3>1, <3>2, HandleKeeps, ActionKeeps, PollKeeps, FinishKeeps DEF ServiceNext
  <2>4. ASSUME NEW a \in {"pair", "confirm", "reject"}, Touch(a) PROVE CommandInv'
      BY <2>4, TouchKeeps
  <2>5. CASE UNCHANGED controlVars
    <3>1. UNCHANGED <<sent, reader, queue, completions, answer, service, action, enabled, handled,
                      told>>
        BY <2>5 DEF controlVars
    <3>2. WayIsKept'
        BY <3>1, WorkerMoves DEF Held
    <3> QED BY <3>1, <3>2 DEF CommandInv, ControlTypeOK, StoppedOrStopping
  <2> QED BY <2>1, <2>2, <2>3, <2>4, <2>5 DEF ControlNext
<1> QED BY <1>1, CommandStarts, PTL DEF ControlSpec

\* What the owner is told of a command is true, for any frames in any order and
\* any queue: a success is the command's own, a command that timed out is gone
\* from the queues, no completion is lost for want of room, and a reported
\* shutdown lasts.
THEOREM OwnerIsToldTheTruth == ControlSpec => []AnswersAreTrue
<1>1. CommandInv => AnswersAreTrue
  <2> SUFFICES ASSUME CommandInv PROVE AnswersAreTrue
      OBVIOUS
  <2>1. reader.at = "read" => queue.application = <<>> /\ queue.reserved = <<>>
      BY DEF CommandInv, WayIsKept, QueuedIsAwaited
  <2>2. service.at \in {"handle", "poll", "finish"} => Len(completions) < CompletionMax
      BY Room DEF Held, Holding
  <2> QED BY <2>1, <2>2 DEF AnswersAreTrue, TimedOutIsDropped, ShutdownHolds, CommandInv,
                            WayIsKept, StoppedOrStopping
<1> QED BY <1>1, CommandInvariance, PTL


-----------------------------------------------------------------------------
(* The contact with the host: one read at a time, and what it shows.       *)

Value == HostValue \cup {"Unknown", NoAnswer}
Message(types) == [type : types, id : Nat, value : Value]
ToHostMessage == Message({"ReadAvailability", "Pong"})
FromHostMessage == Message({"AvailabilityResult", "Ping"})

ContactTypeOK ==
    /\ contact \in {"out"} \cup InContact /\ reading \in Nat
    /\ core \in [state : {"Stopped", "Reading", "ArmingRefresh", "Waiting"}, effect : Nat,
                 surface : Value]
    /\ attempt \in [run : Nat, result : Nat] /\ valid \in BOOLEAN
    /\ toHost \in Seq(ToHostMessage) /\ fromHost \in Seq(FromHostMessage)

Requests == {i \in DOMAIN toHost : toHost[i].type = "ReadAvailability"}
Answers == {i \in DOMAIN fromHost : fromHost[i].type = "AvailabilityResult"}

\* The loop asks, waits and rests in step with the availability feature.
FeatureInStep ==
    /\ contact \in {"ask", "await"} => core.state = "Reading"
    /\ contact = "rest" => core.state = "Waiting"

\* One read is on its way, as a request or as its answer, and the loop waits for it.
OneRead ==
    /\ \A i, j \in Requests : i = j
    /\ \A i, j \in Answers : i = j
    /\ Requests = {} \/ Answers = {}
    /\ contact # "await" => Requests = {} /\ Answers = {}
    /\ \A i \in Requests : toHost[i].id = reading
    /\ \A i \in Answers : fromHost[i].id = reading /\ fromHost[i].value = answered

ContactInv == ContactTypeOK /\ FeatureInStep /\ OneRead /\ ViewIsLive


\* A stopped feature is a state of the feature.
LEMMA StoppedIsCore ==
    AvailabilityStopped \in [state : {"Stopped", "Reading", "ArmingRefresh", "Waiting"},
                             effect : Nat, surface : Value]
BY DEF AvailabilityStopped, NoEffect, Value

\* The worker starts outside a contact.
LEMMA ContactStarts == ContactInit => ContactInv
<1> SUFFICES ASSUME ContactInit PROVE ContactInv
    OBVIOUS
<1>1. Requests = {} /\ Answers = {}
    BY DEF ContactInit, Requests, Answers
<1>2. ContactTypeOK
  <2>1. core \in [state : {"Stopped", "Reading", "ArmingRefresh", "Waiting"}, effect : Nat,
                  surface : Value]
      BY StoppedIsCore DEF ContactInit
  <2>2. attempt \in [run : Nat, result : Nat]
      BY DEF ContactInit
  <2>3. toHost \in Seq(ToHostMessage) /\ fromHost \in Seq(FromHostMessage)
      BY DEF ContactInit
  <2>4. contact \in {"out"} \cup InContact /\ reading \in Nat /\ valid \in BOOLEAN
      BY DEF ContactInit
  <2> QED BY <2>1, <2>2, <2>3, <2>4 DEF ContactTypeOK
<1>3. FeatureInStep /\ OneRead /\ ViewIsLive
    BY <1>1 DEF ContactInit, FeatureInStep, OneRead, ViewIsLive
<1> QED BY <1>2, <1>3 DEF ContactInv

\* Every way out of a contact leaves no message, no value and no result.
LEMMA EndKeeps ==
    ASSUME ContactInv, EndsSession, attempt' = attempt PROVE ContactInv'
<1>1. contact' = "out" /\ toHost' = <<>> /\ fromHost' = <<>> /\ view' = "Unknown"
      /\ valid' = FALSE /\ core' = AvailabilityStopped /\ reading' = reading
    BY DEF EndsSession
<1>2. Requests' = {} /\ Answers' = {}
    BY <1>1 DEF Requests, Answers
<1>3. ContactTypeOK'
  <2>1. core' \in [state : {"Stopped", "Reading", "ArmingRefresh", "Waiting"}, effect : Nat,
                   surface : Value]
      BY <1>1, StoppedIsCore
  <2>2. toHost' \in Seq(ToHostMessage) /\ fromHost' \in Seq(FromHostMessage)
      BY <1>1
  <2> QED BY <1>1, <2>1, <2>2 DEF ContactInv, ContactTypeOK
<1>4. FeatureInStep' /\ OneRead' /\ ViewIsLive'
    BY <1>1, <1>2 DEF FeatureInStep, OneRead, ViewIsLive
<1> QED BY <1>3, <1>4 DEF ContactInv

\* Steps that leave the messages alone, while no read is on its way.
LEMMA QuietKeeps ==
    ASSUME ContactInv, contact # "await", UNCHANGED <<toHost, fromHost>> PROVE OneRead'
<1>1. Requests = {} /\ Answers = {}
    BY DEF ContactInv, OneRead
<1>2. Requests' = {} /\ Answers' = {}
    BY <1>1 DEF Requests, Answers
<1> QED BY <1>2 DEF OneRead

\* connect_once clears what an earlier contact left.
LEMMA ContactBeginsKeeps == ContactInv /\ ContactBegins => ContactInv'
<1> SUFFICES ASSUME ContactInv, ContactBegins PROVE ContactInv'
    OBVIOUS
<1>1. contact = "out" /\ contact' = "hello" /\ view' = "Unknown" /\ valid' = FALSE
      /\ UNCHANGED <<reading, core, attempt, toHost, fromHost, waiting>>
    BY DEF ContactBegins
<1>2. OneRead'
    BY <1>1, QuietKeeps
<1>3. ContactTypeOK'
    BY <1>1 DEF ContactInv, ContactTypeOK, InContact
<1>4. FeatureInStep' /\ ViewIsLive'
    BY <1>1 DEF FeatureInStep, ViewIsLive
<1> QED BY <1>2, <1>3, <1>4 DEF ContactInv

\* Every session has an application of its own.
LEMMA HelloKeeps == ContactInv /\ HelloAcked => ContactInv'
<1> SUFFICES ASSUME ContactInv, HelloAcked PROVE ContactInv'
    OBVIOUS
<1>1. contact = "hello" /\ contact' = "ask" /\ reading' = 0 /\ core' = AvailabilityStart(1)
      /\ UNCHANGED <<view, valid, attempt, toHost, fromHost, waiting, answered>>
    BY DEF HelloAcked
<1>2. OneRead'
    BY <1>1, QuietKeeps
<1>3. core' \in [state : {"Stopped", "Reading", "ArmingRefresh", "Waiting"}, effect : Nat,
                 surface : Value] /\ core'.state = "Reading"
    BY <1>1 DEF AvailabilityStart, Value
<1>4. ContactTypeOK'
    BY <1>1, <1>3 DEF ContactInv, ContactTypeOK, InContact
<1>5. FeatureInStep' /\ ViewIsLive'
    BY <1>1, <1>3 DEF ContactInv, FeatureInStep, ViewIsLive
<1> QED BY <1>2, <1>4, <1>5 DEF ContactInv

\* The identity after a natural number is one.
LEMMA FollowingIsNat == \A n \in Nat : Following(n) \in Nat
<1>1. \A n \in Nat : n % 3 \in Nat
    OBVIOUS
<1> QED BY <1>1 DEF Following

\* begin_read: the only request on the wire.
LEMMA AsksKeeps == ContactInv /\ Asks => ContactInv'
<1> SUFFICES ASSUME ContactInv, Asks PROVE ContactInv'
    OBVIOUS
<1> DEFINE r == Following(reading)
           m == ReadAvailability(r)
           n == Len(toHost)
<1>1. contact = "ask" /\ contact' = "await" /\ reading' = r /\ toHost' = Append(toHost, m)
      /\ UNCHANGED <<core, view, valid, attempt, fromHost, waiting, answered>>
    BY DEF Asks
<1>2. toHost \in Seq(ToHostMessage) /\ reading \in Nat /\ r \in Nat
    BY FollowingIsNat DEF ContactInv, ContactTypeOK
<1>3. m \in ToHostMessage /\ m.type = "ReadAvailability" /\ m.id = r
    BY <1>2 DEF ReadAvailability, ToHostMessage, Message, Value
<1>4. Requests = {} /\ Answers = {}
    BY <1>1 DEF ContactInv, OneRead
<1> HIDE DEF r, m, n
<1>5. toHost' \in Seq(ToHostMessage) /\ n \in Nat
      /\ toHost'[n + 1] = m /\ n + 1 \in DOMAIN toHost'
      /\ \A i \in DOMAIN toHost' : i # n + 1 => i \in DOMAIN toHost /\ toHost'[i] = toHost[i]
    BY <1>1, <1>2, <1>3 DEF n
<1>6. Requests' = {n + 1}
    BY <1>3, <1>4, <1>5 DEF Requests
<1>7. Answers' = {}
    BY <1>1, <1>4 DEF Answers
<1>8. OneRead'
    BY <1>1, <1>3, <1>5, <1>6, <1>7 DEF OneRead
<1>9. ContactTypeOK'
    BY <1>1, <1>2, <1>5 DEF ContactInv, ContactTypeOK, InContact
<1>10. FeatureInStep' /\ ViewIsLive'
    BY <1>1 DEF ContactInv, FeatureInStep, ViewIsLive
<1> QED BY <1>8, <1>9, <1>10 DEF ContactInv

\* The first message taken from a stream.
LEMMA TailOf ==
    ASSUME NEW S, NEW s \in Seq(S), s # <<>>
    PROVE  /\ Tail(s) \in Seq(S) /\ Head(s) = s[1] /\ 1 \in DOMAIN s /\ Head(s) \in S
           /\ \A i \in DOMAIN Tail(s) : i \in Nat /\ i + 1 \in DOMAIN s /\ Tail(s)[i] = s[i + 1]
                                        /\ i + 1 # 1
OBVIOUS

\* The result of the read in progress: the application shows it and the timer is
\* armed.
LEMMA ResultKeeps ==
    ASSUME ContactInv, contact = "await", fromHost # <<>>,
           Head(fromHost).type = "AvailabilityResult", Shows(Head(fromHost)),
           contact' = "rest", fromHost' = Tail(fromHost),
           UNCHANGED <<reading, toHost, waiting, answered>>
    PROVE  ContactInv'
<1> DEFINE m == Head(fromHost)
           v == IF m.value = "ReadFailed" THEN "Unknown" ELSE m.value
           e == Following(core.effect)
<1>1. fromHost \in Seq(FromHostMessage)
      /\ core \in [state : {"Stopped", "Reading", "ArmingRefresh", "Waiting"}, effect : Nat,
                   surface : Value] /\ core.state = "Reading"
      /\ attempt \in [run : Nat, result : Nat]
    BY DEF ContactInv, ContactTypeOK, FeatureInStep
<1>2. fromHost' \in Seq(FromHostMessage) /\ m = fromHost[1] /\ 1 \in DOMAIN fromHost
      /\ m \in FromHostMessage
      /\ \A i \in DOMAIN fromHost' : i + 1 \in DOMAIN fromHost /\ fromHost'[i] = fromHost[i + 1]
                                     /\ i + 1 # 1
    BY <1>1, TailOf
<1>3. 1 \in Answers
    BY <1>2 DEF Answers
<1>4. Requests' = {} /\ Answers' = {}
  <2>1. Requests = {} /\ \A i \in Answers : i = 1
      BY <1>3 DEF ContactInv, OneRead
  <2>2. Requests' = Requests
      BY DEF Requests
  <2>3. ASSUME NEW i \in Answers' PROVE FALSE
    <3>1. i \in DOMAIN fromHost' /\ fromHost'[i].type = "AvailabilityResult"
        BY <2>3 DEF Answers
    <3>2. i + 1 \in Answers /\ i + 1 # 1
        BY <1>2, <3>1 DEF Answers
    <3> QED BY <2>1, <3>2
  <2> QED BY <2>1, <2>2, <2>3
<1>5. m.value = answered /\ v \in Value /\ e \in Nat
  <2>1. m.value = answered
      BY <1>2, <1>3 DEF ContactInv, OneRead
  <2>2. m.value \in Value
      BY <1>2 DEF FromHostMessage, Message
  <2> QED BY <1>1, <2>1, <2>2, FollowingIsNat DEF Value
<1>6. ReadCompleted(core, core.effect, v, e) =
          [state |-> "ArmingRefresh", effect |-> e, surface |-> v]
    BY <1>1 DEF ReadCompleted, Expects
<1>7. core' = [state |-> "Waiting", effect |-> e, surface |-> v] /\ view' = v /\ valid' = TRUE
      /\ attempt' = [attempt EXCEPT !.result = attempt.run]
    BY <1>6 DEF Shows, TimerArmCompleted, Expects
<1>8. v = answered \/ v = "Unknown"
    BY <1>5
<1> HIDE DEF m, v, e
<1>9. attempt' \in [run : Nat, result : Nat] /\ attempt'.result = attempt'.run
    BY <1>1, <1>7
<1>10. core' \in [state : {"Stopped", "Reading", "ArmingRefresh", "Waiting"}, effect : Nat,
                  surface : Value] /\ core'.state = "Waiting"
    BY <1>5, <1>7
<1>11. ContactTypeOK'
    BY <1>2, <1>7, <1>9, <1>10 DEF ContactInv, ContactTypeOK, InContact
<1>12. FeatureInStep' /\ OneRead'
    BY <1>4, <1>10 DEF FeatureInStep, OneRead
<1>13. ViewIsLive'
    BY <1>7, <1>8, <1>9 DEF ViewIsLive
<1> QED BY <1>11, <1>12, <1>13 DEF ContactInv

\* A ping is answered in turn and changes nothing else.
LEMMA PingKeeps ==
    ASSUME ContactInv, contact = "await", fromHost # <<>>, Head(fromHost).type = "Ping",
           toHost' = Append(toHost, Plain("Pong")), fromHost' = Tail(fromHost),
           UNCHANGED <<contact, reading, core, view, valid, attempt, waiting, answered>>
    PROVE  ContactInv'
<1> DEFINE p == Plain("Pong")
           n == Len(toHost)
<1>1. fromHost \in Seq(FromHostMessage) /\ toHost \in Seq(ToHostMessage)
    BY DEF ContactInv, ContactTypeOK
<1>2. p \in ToHostMessage /\ p.type = "Pong"
    BY DEF Plain, ToHostMessage, Message, Value
<1> HIDE DEF p, n
<1>3. fromHost' \in Seq(FromHostMessage)
      /\ \A i \in DOMAIN fromHost' : i \in Nat /\ i + 1 \in DOMAIN fromHost
                                     /\ fromHost'[i] = fromHost[i + 1]
    BY <1>1, TailOf
<1>4. toHost' \in Seq(ToHostMessage) /\ n \in Nat /\ toHost'[n + 1] = p
      /\ \A i \in DOMAIN toHost' : i # n + 1 => i \in DOMAIN toHost /\ toHost'[i] = toHost[i]
    BY <1>1, <1>2 DEF n, p
<1>5. \A i \in Requests' : i \in Requests /\ toHost'[i] = toHost[i]
    BY <1>2, <1>4 DEF Requests
<1>6. \A i \in Answers' : i \in Nat /\ i + 1 \in Answers /\ fromHost'[i] = fromHost[i + 1]
    BY <1>3 DEF Answers
<1>7. OneRead'
  <2>1. \A i, j \in Answers' : i = j
      BY <1>6 DEF ContactInv, OneRead
  <2>2. Requests' = {} \/ Answers' = {}
      BY <1>5, <1>6 DEF ContactInv, OneRead
  <2>3. \A i, j \in Requests' : i = j
      BY <1>5 DEF ContactInv, OneRead
  <2>4. \A i \in Requests' : toHost'[i].id = reading'
      BY <1>5 DEF ContactInv, OneRead
  <2>5. \A i \in Answers' : fromHost'[i].id = reading' /\ fromHost'[i].value = answered'
      BY <1>6 DEF ContactInv, OneRead
  <2> QED BY <2>1, <2>2, <2>3, <2>4, <2>5 DEF OneRead
<1>8. ContactTypeOK'
    BY <1>3, <1>4 DEF ContactInv, ContactTypeOK
<1>9. FeatureInStep' /\ ViewIsLive'
    BY DEF ContactInv, FeatureInStep, ViewIsLive
<1> QED BY <1>7, <1>8, <1>9 DEF ContactInv

\* A message from the host is the result, a ping, or the end.
LEMMA TakesKeeps == ContactInv /\ Takes => ContactInv'
<1> SUFFICES ASSUME ContactInv, Takes PROVE ContactInv'
    OBVIOUS
<1>1. contact = "await" /\ fromHost # <<>> /\ UNCHANGED <<waiting, answered>>
    BY DEF Takes
<1>2. CASE EndsSession /\ UNCHANGED attempt
    BY <1>2, EndKeeps
<1>3. CASE /\ Head(fromHost).type = "AvailabilityResult" /\ Shows(Head(fromHost))
           /\ contact' = "rest" /\ fromHost' = Tail(fromHost) /\ UNCHANGED <<reading, toHost>>
    BY <1>1, <1>3, ResultKeeps
<1>4. CASE /\ Head(fromHost).type = "Ping" /\ toHost' = Append(toHost, Plain("Pong"))
           /\ fromHost' = Tail(fromHost)
           /\ UNCHANGED <<contact, reading, core, view, valid, attempt>>
    BY <1>1, <1>4, PingKeeps
<1> QED BY <1>2, <1>3, <1>4 DEF Takes


\* The rest is over: the feature reads again.
LEMMA RestKeeps == ContactInv /\ RestEnds => ContactInv'
<1> SUFFICES ASSUME ContactInv, RestEnds PROVE ContactInv'
    OBVIOUS
<1> DEFINE e == Following(core.effect)
<1>1. contact = "rest" /\ contact' = "ask" /\ core' = RefreshDue(core, core.effect, e)
      /\ UNCHANGED <<reading, view, valid, attempt, toHost, fromHost, waiting, answered>>
    BY DEF RestEnds
<1>2. core \in [state : {"Stopped", "Reading", "ArmingRefresh", "Waiting"}, effect : Nat,
                surface : Value] /\ core.state = "Waiting"
    BY <1>1 DEF ContactInv, ContactTypeOK, FeatureInStep
<1>3. e \in Nat
    BY <1>2, FollowingIsNat
<1> HIDE DEF e
<1>4. core' \in [state : {"Stopped", "Reading", "ArmingRefresh", "Waiting"}, effect : Nat,
                 surface : Value] /\ core'.state = "Reading"
  <2>1. core' = [core EXCEPT !.state = "Reading", !.effect = e]
      BY <1>1, <1>2 DEF RefreshDue, Expects
  <2> QED BY <1>2, <1>3, <2>1
<1>5. OneRead'
    BY <1>1, QuietKeeps
<1>6. ContactTypeOK'
    BY <1>1, <1>4 DEF ContactInv, ContactTypeOK, InContact
<1>7. FeatureInStep' /\ ViewIsLive'
    BY <1>1, <1>4 DEF ContactInv, FeatureInStep, ViewIsLive
<1> QED BY <1>5, <1>6, <1>7 DEF ContactInv

\* Steps that change neither the contact nor its messages.
LEMMA AsideKeeps ==
    ASSUME ContactInv,
           UNCHANGED <<contact, reading, core, view, valid, attempt, toHost, fromHost, answered>>
    PROVE  ContactInv'
<1>1. ContactTypeOK' /\ FeatureInStep' /\ ViewIsLive'
    BY DEF ContactInv, ContactTypeOK, FeatureInStep, ViewIsLive
<1>2. Requests' = Requests /\ Answers' = Answers
    BY DEF Requests, Answers
<1>3. OneRead'
    BY <1>2 DEF ContactInv, OneRead
<1> QED BY <1>1, <1>3 DEF ContactInv

\* A command in a contact ends it or is refused.
LEMMA PollsKeeps == ContactInv /\ Polls => ContactInv'
BY EndKeeps, AsideKeeps DEF Polls

\* A command outside a contact: a new run attempt has no result yet.
LEMMA HandlesKeeps == ContactInv /\ HandlesControl => ContactInv'
<1> SUFFICES ASSUME ContactInv, HandlesControl PROVE ContactInv'
    OBVIOUS
<1>1. contact = "out" /\ UNCHANGED <<contact, reading, core, toHost, fromHost, answered>>
      /\ attempt' = (IF waiting = "run" THEN [run |-> attempt.run + 1, result |-> 0] ELSE attempt)
      /\ view' = (IF waiting = "run" THEN view ELSE "Unknown")
      /\ valid' = (valid /\ waiting = "unpair")
    BY DEF HandlesControl
<1>2. ~valid /\ view = "Unknown"
    BY <1>1 DEF ContactInv, ViewIsLive
<1>3. OneRead'
    BY <1>1, QuietKeeps
<1>4. attempt' \in [run : Nat, result : Nat]
  <2>1. attempt \in [run : Nat, result : Nat] /\ attempt.run \in Nat
      BY DEF ContactInv, ContactTypeOK
  <2> QED BY <1>1, <2>1
<1>5. ContactTypeOK'
    BY <1>1, <1>2, <1>4 DEF ContactInv, ContactTypeOK
<1>6. FeatureInStep' /\ ViewIsLive'
    BY <1>1, <1>2 DEF FeatureInStep, ViewIsLive
<1> QED BY <1>3, <1>5, <1>6 DEF ContactInv

\* The host takes a pong, or answers the request with the value it has.
LEMMA HostAnswersKeeps == ContactInv /\ HostAnswers => ContactInv'
<1> SUFFICES ASSUME ContactInv, HostAnswers PROVE ContactInv'
    OBVIOUS
<1> DEFINE m == Head(toHost)
           n == Len(fromHost)
<1>1. toHost # <<>> /\ toHost' = Tail(toHost)
      /\ UNCHANGED <<contact, reading, core, view, valid, attempt, waiting>>
    BY DEF HostAnswers
<1>2. toHost \in Seq(ToHostMessage) /\ fromHost \in Seq(FromHostMessage) /\ reading \in Nat
    BY DEF ContactInv, ContactTypeOK
<1>3. toHost' \in Seq(ToHostMessage) /\ m = toHost[1] /\ 1 \in DOMAIN toHost
      /\ m \in ToHostMessage
      /\ \A i \in DOMAIN toHost' : i \in Nat /\ i + 1 \in DOMAIN toHost
                                   /\ toHost'[i] = toHost[i + 1] /\ i + 1 # 1
    BY <1>1, <1>2, TailOf
<1>4. \A i \in Requests' : i \in Nat /\ i + 1 \in Requests /\ toHost'[i] = toHost[i + 1]
                           /\ i + 1 # 1
    BY <1>3 DEF Requests
<1>5. CASE m.type = "Pong"
  <2>1. UNCHANGED <<fromHost, answered>>
      BY <1>5 DEF HostAnswers
  <2>2. Answers' = Answers
      BY <2>1 DEF Answers
  <2>3. OneRead'
    <3>1. \A i, j \in Requests' : i = j
        BY <1>4 DEF ContactInv, OneRead
    <3>2. \A i \in Requests' : toHost'[i].id = reading'
        BY <1>1, <1>4 DEF ContactInv, OneRead
    <3>3. (Requests' = {} \/ Answers' = {}) /\ (contact' # "await" => Requests' = {} /\ Answers' = {})
        BY <1>1, <1>4, <2>2 DEF ContactInv, OneRead
    <3> QED BY <1>1, <2>1, <2>2, <3>1, <3>2, <3>3 DEF ContactInv, OneRead
  <2>4. ContactTypeOK'
      BY <1>1, <1>3, <2>1 DEF ContactInv, ContactTypeOK
  <2>5. FeatureInStep' /\ ViewIsLive'
      BY <1>1, <2>1 DEF ContactInv, FeatureInStep, ViewIsLive
  <2> QED BY <2>3, <2>4, <2>5 DEF ContactInv
<1>6. CASE m.type # "Pong"
  <2>1. PICK value \in HostValue :
            fromHost' = Append(fromHost, AvailabilityResult(m.id, value)) /\ answered' = value
      BY <1>6 DEF HostAnswers
  <2> DEFINE a == AvailabilityResult(m.id, value)
  <2>2. m.type = "ReadAvailability" /\ m.id \in Nat
      BY <1>3, <1>6 DEF ToHostMessage, Message
  <2>3. 1 \in Requests
      BY <1>3, <2>2 DEF Requests
  <2>4. contact = "await" /\ Answers = {} /\ m.id = reading /\ \A i \in Requests : i = 1
      BY <1>3, <2>3 DEF ContactInv, OneRead
  <2>5. a \in FromHostMessage /\ a.type = "AvailabilityResult" /\ a.id = reading /\ a.value = value
      BY <1>2, <2>4 DEF AvailabilityResult, FromHostMessage, Message, Value
  <2>6. fromHost' = Append(fromHost, a)
      BY <2>1
  <2> HIDE DEF a, m, n
  <2>7. fromHost' \in Seq(FromHostMessage) /\ n \in Nat /\ fromHost'[n + 1] = a
        /\ n + 1 \in DOMAIN fromHost'
        /\ \A i \in DOMAIN fromHost' : i # n + 1 => i \in DOMAIN fromHost /\ fromHost'[i] = fromHost[i]
      BY <1>2, <2>5, <2>6 DEF n
  <2>8. Answers' = {n + 1}
      BY <2>4, <2>5, <2>7 DEF Answers
  <2>9. Requests' = {}
      BY <1>4, <2>4
  <2>10. OneRead'
      BY <1>1, <2>1, <2>4, <2>5, <2>7, <2>8, <2>9 DEF OneRead
  <2>11. ContactTypeOK'
      BY <1>1, <1>3, <2>7 DEF ContactInv, ContactTypeOK
  <2>12. FeatureInStep' /\ ViewIsLive'
      BY <1>1, <2>4 DEF ContactInv, FeatureInStep, ViewIsLive
  <2> QED BY <2>10, <2>11, <2>12 DEF ContactInv
<1> QED BY <1>5, <1>6

\* A ping is not an answer.
LEMMA HostPingsKeeps == ContactInv /\ HostPings => ContactInv'
<1> SUFFICES ASSUME ContactInv, HostPings PROVE ContactInv'
    OBVIOUS
<1> DEFINE p == Plain("Ping")
           n == Len(fromHost)
<1>1. fromHost' = Append(fromHost, p)
      /\ UNCHANGED <<contact, reading, core, view, valid, attempt, toHost, waiting, answered>>
    BY DEF HostPings
<1>2. fromHost \in Seq(FromHostMessage)
    BY DEF ContactInv, ContactTypeOK
<1>3. p \in FromHostMessage /\ p.type = "Ping"
    BY DEF Plain, FromHostMessage, Message, Value
<1> HIDE DEF p, n
<1>4. fromHost' \in Seq(FromHostMessage) /\ n \in Nat /\ fromHost'[n + 1] = p
      /\ DOMAIN fromHost' = DOMAIN fromHost \cup {n + 1}
      /\ \A i \in DOMAIN fromHost' : i # n + 1 => i \in DOMAIN fromHost /\ fromHost'[i] = fromHost[i]
    BY <1>1, <1>2, <1>3 DEF n
<1>5. \A i \in Answers' : i \in Answers /\ fromHost'[i] = fromHost[i]
    BY <1>3, <1>4 DEF Answers
<1>6. Requests' = Requests
    BY <1>1 DEF Requests
<1>7. OneRead'
    BY <1>1, <1>5, <1>6 DEF ContactInv, OneRead
<1>8. ContactTypeOK'
    BY <1>1, <1>4 DEF ContactInv, ContactTypeOK
<1>9. FeatureInStep' /\ ViewIsLive'
    BY <1>1 DEF ContactInv, FeatureInStep, ViewIsLive
<1> QED BY <1>7, <1>8, <1>9 DEF ContactInv

\* The loop, the feature and the messages on the wire stay in step.
THEOREM ContactInvariance == ContactSpec => []ContactInv
<1>1. ContactInv /\ [ContactNext]_contactVars => ContactInv'
  <2> SUFFICES ASSUME ContactInv, [ContactNext]_contactVars PROVE ContactInv'
      OBVIOUS
  <2>1. CASE ReadTimesOut \/ ContactIsLost
      BY <2>1, EndKeeps DEF ReadTimesOut, ContactIsLost
  <2>2. CASE \E command \in {"shutdown", "unpair", "run"} : Submits(command)
      BY <2>2, AsideKeeps DEF Submits
  <2>3. CASE UNCHANGED contactVars
      BY <2>3, AsideKeeps DEF contactVars
  <2>4. CASE \/ ContactBegins \/ HelloAcked \/ Asks \/ Takes \/ RestEnds \/ Polls
             \/ HandlesControl \/ HostAnswers \/ HostPings
      BY <2>4, ContactBeginsKeeps, HelloKeeps, AsksKeeps, TakesKeeps, RestKeeps, PollsKeeps,
         HandlesKeeps, HostAnswersKeeps, HostPingsKeeps
  <2> QED BY <2>1, <2>2, <2>3, <2>4 DEF ContactNext
<1> QED BY <1>1, ContactStarts, PTL DEF ContactSpec

\* The device goes by live answers only: what it shows was answered in the open
\* session, a result counts for the run attempt in force, and an answer on the
\* wire is that of the read in progress, however long the streams and whatever
\* the host answers.
THEOREM DeviceShowsLiveAnswers == ContactSpec => []AnswersAreLive
<1>1. ContactInv => AnswersAreLive
  <2> SUFFICES ASSUME ContactInv PROVE AnswersItsRead
      BY DEF ContactInv, AnswersAreLive
  <2> QED BY DEF ContactInv, OneRead, Answers, AnswersItsRead
<1> QED BY <1>1, ContactInvariance, PTL

-----------------------------------------------------------------------------
(* The renderer and the display: two buffers, and the bands in them.       *)


\* The frame after and the frame before, of the three names; the band and the frame
\* that go before band k of frame f.
After(f) == IF f = 2 THEN 0 ELSE f + 1
Before(f) == IF f = 0 THEN 2 ELSE f - 1
PriorBand(k) == IF k = 1 THEN BandMax ELSE k - 1
PriorFrame(f, k) == IF k = 1 THEN Before(f) ELSE f

\* The band and the frame the renderer submits next.
NextBand == IF renderer.at \in {"band", "raster"} THEN renderer.band ELSE 1
NextFrame == IF renderer.at = "paced" THEN After(renderer.frame) ELSE renderer.frame

\* The next band and the two submitted before it: their place in the frame,
\* their frame and their buffer.
BandBack ==
    [j \in 0..2 |-> IF j = 0 THEN NextBand
                    ELSE IF j = 1 THEN PriorBand(NextBand)
                    ELSE PriorBand(PriorBand(NextBand))]
FrameBack ==
    [j \in 0..2 |-> IF j = 0 THEN NextFrame
                    ELSE IF j = 1 THEN PriorFrame(NextFrame, NextBand)
                    ELSE PriorFrame(PriorFrame(NextFrame, NextBand), PriorBand(NextBand))]
BufferBack == [j \in 0..2 |-> IF j = 1 THEN 1 - renderer.back ELSE renderer.back]

\* How many bands are not written to the panel yet, and how many buffers the
\* renderer has not got back.
Unwritten == Len(transfers) + (IF display.at = "transfer" THEN 1 ELSE 0)
Lent == Len(returned) + (IF display.at = "waiting" THEN 0 ELSE 1) + Len(transfers)

\* What the variables range over; of the faults, the ones that can be reported.
Request == [buffer : Buffer, band : Band]
RendererPlace == {"loop", "frame", "band", "raster", "paced", "failed"}
RendererFault == {"None", "SharedSnapshot", "RenderSkipped", "Completion", "DisplayEnable"}

\* The type invariant; Ownership and Submit are not among the faults.
BandsTypeOK ==
    /\ renderer \in [at : RendererPlace, shows : {"shell", "world"}, frame : Picture,
                     band : 1..BandMax + 1, back : Buffer, enabled : BOOLEAN]
    /\ renderer.at \in {"band", "raster"} => renderer.band \in Band
    /\ ownership \in [rendering : Buffer \cup {None}, inflight : [Buffer -> BOOLEAN]]
    /\ pending \in [Buffer -> [final : BOOLEAN, frame : Picture]]
    /\ pixels \in [Buffer -> (Picture \X Band) \cup {Scribble}]
    /\ transfers \in Seq(Request)
    /\ returned \in Seq([buffer : Buffer, ok : BOOLEAN])
    /\ display \in [at : {"waiting", "transfer", "completion"},
                    request : Request \cup {NoTransfer}, expected : Band, failed : BOOLEAN]
    /\ display.at # "waiting" => display.request \in Request
    /\ panel \in [Band -> 0..3]
    /\ observed \in [stage : {"Rendering", "Presented", "Failed"}, fault : RendererFault,
                     frame : Picture]

\* The buffer of a request holds exactly the band it names and is not drawn into.
Whole(r) ==
    /\ ownership.rendering # r.buffer
    /\ pixels[r.buffer] \in Picture \X Band
    /\ pixels[r.buffer][2] = r.band

\* Every request on its way to the panel is whole, also after the renderer stopped.
RequestsAreWhole ==
    /\ \A i \in 1..Len(transfers) : Whole(transfers[i])
    /\ display.at # "waiting" => Whole(display.request)

\* The buffers in flight are the last submitted ones that are not back, and the
\* buffer being drawn is not one of them.
Lending ==
    /\ Lent <= 2
    /\ ownership.inflight[BufferBack[1]] <=> Lent >= 1
    /\ ownership.inflight[BufferBack[2]] <=> Lent = 2
    /\ ownership.rendering = IF renderer.at = "raster" THEN renderer.back ELSE None
    /\ renderer.at = "raster" => Lent <= 1

\* The completions, the request in transfer and the queued requests are the last
\* submitted bands, oldest first, and the display expects the first unwritten one.
Ordered ==
    /\ \A i \in 1..Len(transfers) :
          /\ transfers[i].buffer = BufferBack[Len(transfers) + 1 - i]
          /\ transfers[i].band = BandBack[Len(transfers) + 1 - i]
    /\ display.at # "waiting" =>
          /\ display.request.buffer = BufferBack[Len(transfers) + 1]
          /\ display.request.band = BandBack[Len(transfers) + 1]
    /\ \A i \in 1..Len(returned) : returned[i].buffer = BufferBack[Lent + 1 - i]
    /\ display.expected = BandBack[Unwritten]

\* A buffer in flight holds its band, and its PendingFrame names that band's frame.
Labelled ==
    \A j \in 1..2 : j <= Lent =>
          /\ pixels[BufferBack[j]] = <<FrameBack[j], BandBack[j]>>
          /\ pending[BufferBack[j]].final <=> BandBack[j] = BandMax
          /\ pending[BufferBack[j]].frame = FrameBack[j]

\* The panel shows frame f, partly replaced by the next one.
Shown(f) == \A b \in Band : panel[b] \in {f, After(f)}

\* What a transfer without failure leaves on the panel: the bands written so far are
\* of the frame in transfer, its last band completes it, and until that completion is
\* taken only the next frame's bands can replace it.
Painted ==
    /\ ~display.failed => \A b \in Band : b < display.expected => panel[b] = FrameBack[Unwritten]
    /\ (display.at = "completion" /\ ~display.failed /\ display.request.band = BandMax)
          => \A b \in Band : panel[b] = FrameBack[Len(transfers) + 1]
    /\ \A i \in 1..Len(returned) :
          (returned[i].ok /\ BandBack[Lent + 1 - i] = BandMax) => Shown(FrameBack[Lent + 1 - i])

\* After Presented(f) only bands of frame f + 1 are written, until the renderer begins
\* a later frame and withdraws the report.
Reported ==
    observed.stage = "Presented" =>
      /\ Shown(observed.frame)
      /\ \A j \in 1..2 : j <= Unwritten => FrameBack[j] = After(observed.frame)
      /\ \/ FrameBack[0] = After(observed.frame)
         \/ /\ renderer.at \in {"paced", "loop", "frame"}
            /\ FrameBack[0] = After(After(observed.frame))

\* The part that holds while the renderer runs.
Running == Lending /\ Ordered /\ Labelled /\ Painted /\ Reported

\* The inductive invariant of the exchange.
BandsInv ==
    /\ BandsTypeOK
    /\ RequestsAreWhole
    /\ renderer.at = "failed" => observed.stage = "Failed"
    /\ renderer.at # "failed" => Running

\* The frame counter modulo 3 steps to the frame after.
LEMMA PictureAfter == \A f \in Picture : (f + 1) % 3 = After(f) /\ After(f) \in Picture
<1>1. \A f \in Picture : f = 0 \/ f = 1 \/ f = 2
  BY DEF Picture
<1>2. 1 % 3 = 1 /\ 2 % 3 = 2 /\ 3 % 3 = 0
  BY SMT
<1> QED
  BY <1>1, <1>2 DEF After, Picture

\* The last three bands follow each other in the frame and use the buffers in turn.
LEMMA BackFacts ==
    ASSUME BandsTypeOK, renderer.at # "failed"
    PROVE  /\ BandBack \in [0..2 -> Band]
           /\ FrameBack \in [0..2 -> Picture]
           /\ BufferBack \in [0..2 -> Buffer]
           /\ BufferBack[1] # BufferBack[2] /\ BufferBack[0] = BufferBack[2]
           /\ BufferBack[2] = renderer.back /\ BandBack[0] = NextBand
           /\ \A b \in Buffer : b = BufferBack[1] \/ b = BufferBack[2]
           /\ \A j \in 1..2 :
                /\ BandBack[j - 1] = IF BandBack[j] = BandMax THEN 1 ELSE BandBack[j] + 1
                /\ FrameBack[j - 1] = IF BandBack[j] = BandMax THEN After(FrameBack[j])
                                      ELSE FrameBack[j]
<1>1. /\ NextBand \in Band /\ NextFrame \in Picture
      /\ renderer.back \in {0, 1}
  BY BandAssumption DEF BandsTypeOK, NextBand, NextFrame, Band, Picture, After, Buffer
<1>2. \A k \in Band : /\ PriorBand(k) \in Band
                      /\ k = IF PriorBand(k) = BandMax THEN 1 ELSE PriorBand(k) + 1
  BY BandAssumption DEF PriorBand, Band
<1>3. \A f \in Picture : Before(f) \in Picture /\ f = After(Before(f))
  BY DEF Before, After, Picture
<1>4. \A k \in Band, f \in Picture :
        /\ PriorFrame(f, k) \in Picture
        /\ f = IF PriorBand(k) = BandMax THEN After(PriorFrame(f, k)) ELSE PriorFrame(f, k)
  BY <1>3, BandAssumption DEF PriorFrame, PriorBand, Band
<1>5. /\ BandBack \in [0..2 -> Band] /\ FrameBack \in [0..2 -> Picture]
  BY <1>1, <1>2, <1>4 DEF BandBack, FrameBack
<1>6. /\ BufferBack \in [0..2 -> Buffer]
      /\ BufferBack[1] # BufferBack[2] /\ BufferBack[0] = BufferBack[2]
      /\ BufferBack[2] = renderer.back
      /\ \A b \in Buffer : b = BufferBack[1] \/ b = BufferBack[2]
  BY <1>1 DEF BufferBack, Buffer
<1>7. /\ BandBack[0] = NextBand /\ BandBack[1] = PriorBand(NextBand)
      /\ BandBack[2] = PriorBand(PriorBand(NextBand))
      /\ FrameBack[0] = NextFrame /\ FrameBack[1] = PriorFrame(NextFrame, NextBand)
      /\ FrameBack[2] = PriorFrame(PriorFrame(NextFrame, NextBand), PriorBand(NextBand))
  BY DEF BandBack, FrameBack
<1>8. ASSUME NEW j \in 1..2
      PROVE  /\ BandBack[j - 1] = IF BandBack[j] = BandMax THEN 1 ELSE BandBack[j] + 1
             /\ FrameBack[j - 1] = IF BandBack[j] = BandMax THEN After(FrameBack[j])
                                   ELSE FrameBack[j]
  <2>1. CASE j = 1
    BY <2>1, <1>1, <1>2, <1>4, <1>7
  <2>2. CASE j = 2
    BY <2>2, <1>1, <1>2, <1>4, <1>7
  <2> QED
    BY <2>1, <2>2
<1> QED
  BY <1>5, <1>6, <1>7, <1>8

\* A step that leaves the next band and the buffer alone leaves the last bands alone.
LEMMA BackKept ==
    ASSUME NextBand' = NextBand, NextFrame' = NextFrame, renderer'.back = renderer.back
    PROVE  BandBack' = BandBack /\ FrameBack' = FrameBack /\ BufferBack' = BufferBack
BY DEF BandBack, FrameBack, BufferBack

\* Submitting the next band makes it the last submitted one.
LEMMA BackMoves ==
    ASSUME BandsTypeOK, submit_band, renderer'.at # "failed"
    PROVE  \A j \in 0..1 : /\ BandBack'[j + 1] = BandBack[j]
                           /\ FrameBack'[j + 1] = FrameBack[j]
                           /\ BufferBack'[j + 1] = BufferBack[j]
<1>1. /\ renderer.at = "raster" /\ renderer.band \in Band /\ renderer.frame \in Picture
      /\ renderer.back \in {0, 1}
      /\ renderer' = [renderer EXCEPT !.at = IF renderer.band = BandMax THEN "paced" ELSE "band",
                                      !.back = 1 - renderer.back, !.band = renderer.band + 1]
  BY DEF BandsTypeOK, submit_band, RendererFails, Buffer
<1>2. NextBand = renderer.band /\ NextFrame = renderer.frame
  BY <1>1 DEF NextBand, NextFrame
<1>3. /\ renderer'.at = IF renderer.band = BandMax THEN "paced" ELSE "band"
      /\ renderer'.back = 1 - renderer.back /\ renderer'.band = renderer.band + 1
      /\ renderer'.frame = renderer.frame
  BY <1>1 DEF BandsTypeOK
<1>4. /\ NextBand' = IF renderer.band = BandMax THEN 1 ELSE renderer.band + 1
      /\ NextFrame' = IF renderer.band = BandMax THEN After(renderer.frame) ELSE renderer.frame
  BY <1>3 DEF NextBand, NextFrame
<1>5. PriorBand(NextBand') = NextBand /\ PriorFrame(NextFrame', NextBand') = NextFrame
  BY <1>1, <1>2, <1>4, BandAssumption
     DEF PriorBand, PriorFrame, After, Before, Band, Picture
<1>6. /\ BandBack'[1] = BandBack[0] /\ FrameBack'[1] = FrameBack[0]
  BY <1>5 DEF BandBack, FrameBack
<1>7. /\ BandBack'[2] = BandBack[1] /\ FrameBack'[2] = FrameBack[1]
  BY <1>5 DEF BandBack, FrameBack
<1>8. /\ BufferBack'[1] = BufferBack[0] /\ BufferBack'[2] = BufferBack[1]
  BY <1>1, <1>3 DEF BufferBack
<1> QED
  BY <1>6, <1>7, <1>8

\* A reported fault ends the renderer and leaves the requests whole.
LEMMA RendererStops ==
    ASSUME BandsInv, BandsTypeOK', UNCHANGED <<ownership, pixels, transfers, display>>,
           renderer'.at = "failed", observed'.stage = "Failed"
    PROVE  BandsInv'
<1>1. RequestsAreWhole'
  BY DEF BandsInv, RequestsAreWhole, Whole
<1> QED
  BY <1>1 DEF BandsInv

\* A step of the renderer between two bands changes neither buffers nor panel, and
\* keeps the report or withdraws it.
LEMMA QuietStep ==
    ASSUME BandsInv, BandsTypeOK',
           UNCHANGED <<ownership, pending, pixels, transfers, returned, display, panel>>,
           renderer.at \notin {"failed", "raster"}, renderer'.at \notin {"failed", "raster"},
           NextBand' = NextBand, NextFrame' = NextFrame, renderer'.back = renderer.back,
           \/ observed'.stage = "Rendering"
           \/ observed' = observed /\ renderer'.at \in {"paced", "loop", "frame"}
    PROVE  BandsInv'
<1>1. BandBack' = BandBack /\ FrameBack' = FrameBack /\ BufferBack' = BufferBack
  BY BackKept
<1>2. Unwritten' = Unwritten /\ Lent' = Lent
  BY DEF Unwritten, Lent
<1>3. RequestsAreWhole'
  BY DEF BandsInv, RequestsAreWhole, Whole
<1> USE DEF BandsInv, Running
<1>4. Lending' /\ Labelled'
  BY <1>1, <1>2 DEF Lending, Labelled
<1>5. Ordered' /\ Painted'
  BY <1>1, <1>2 DEF Ordered, Painted, Shown
<1>6. Reported'
  <2>1. CASE observed'.stage = "Rendering"
    BY <2>1 DEF Reported
  <2>2. CASE observed' = observed /\ renderer'.at \in {"paced", "loop", "frame"}
    BY <2>2, <1>1, <1>2 DEF Reported, Shown
  <2> QED
    BY <2>1, <2>2
<1> QED
  BY <1>3, <1>4, <1>5, <1>6

\* The top of the loop.
LEMMA LoopKeeps == BandsInv /\ LoopBegins => BandsInv'
<1> SUFFICES ASSUME BandsInv, LoopBegins PROVE BandsInv'
  OBVIOUS
<1>1. BandsTypeOK'
  BY DEF BandsInv, BandsTypeOK, LoopBegins, RendererFails, RendererPlace, RendererFault
<1>2. CASE \E fault \in {"SharedSnapshot", "RenderSkipped"} : RendererFails(fault)
  BY <1>1, <1>2, RendererStops DEF BandsInv, BandsTypeOK, LoopBegins, RendererFails
<1>3. CASE \E shows \in {"shell", "world"} :
             /\ renderer' = [renderer EXCEPT !.at = "frame", !.shows = shows]
             /\ UNCHANGED observed
  <2>1. /\ renderer.at = "loop" /\ renderer'.at = "frame" /\ renderer'.back = renderer.back
        /\ renderer'.frame = renderer.frame
    BY <1>3 DEF BandsInv, BandsTypeOK, LoopBegins
  <2>2. NextBand' = NextBand /\ NextFrame' = NextFrame
    BY <2>1 DEF NextBand, NextFrame
  <2> QED
    BY <1>1, <1>3, <2>1, <2>2, QuietStep DEF LoopBegins
<1> QED
  BY <1>2, <1>3 DEF LoopBegins

\* The first band of a frame is next, and the report is withdrawn.
LEMMA BeginFrameKeeps == BandsInv /\ begin_frame => BandsInv'
<1> SUFFICES ASSUME BandsInv, begin_frame PROVE BandsInv'
  OBVIOUS
<1>1. BandsTypeOK'
  <2>1. 1 \in Band /\ 1 \in 1..BandMax + 1
    BY BandAssumption DEF Band
  <2>2. renderer' \in [at : RendererPlace, shows : {"shell", "world"}, frame : Picture,
                       band : 1..BandMax + 1, back : Buffer, enabled : BOOLEAN]
    BY <2>1 DEF BandsInv, BandsTypeOK, begin_frame, RendererPlace
  <2> QED
    BY <2>1, <2>2 DEF BandsInv, BandsTypeOK, begin_frame
<1>2. /\ renderer.at = "frame" /\ renderer'.at = "band" /\ renderer'.back = renderer.back
      /\ renderer'.frame = renderer.frame /\ renderer'.band = 1
      /\ observed'.stage = "Rendering"
  BY DEF BandsInv, BandsTypeOK, begin_frame
<1>3. NextBand' = NextBand /\ NextFrame' = NextFrame
  BY <1>2 DEF NextBand, NextFrame
<1> QED
  BY <1>1, <1>2, <1>3, QuietStep DEF begin_frame

\* The panel is switched on after the first frame, or that fails.
LEMMA EnableKeeps == BandsInv /\ display_enable => BandsInv'
<1> SUFFICES ASSUME BandsInv, display_enable PROVE BandsInv'
  OBVIOUS
<1>1. BandsTypeOK'
  BY DEF BandsInv, BandsTypeOK, display_enable, RendererFails, RendererPlace, RendererFault
<1>2. CASE RendererFails("DisplayEnable")
  BY <1>1, <1>2, RendererStops DEF BandsInv, BandsTypeOK, display_enable, RendererFails
<1>3. CASE renderer' = [renderer EXCEPT !.enabled = TRUE] /\ UNCHANGED observed
  <2>1. /\ renderer.at = "paced" /\ renderer'.at = "paced" /\ renderer'.back = renderer.back
        /\ renderer'.frame = renderer.frame
    BY <1>3 DEF BandsInv, BandsTypeOK, display_enable
  <2>2. NextBand' = NextBand /\ NextFrame' = NextFrame
    BY <2>1 DEF NextBand, NextFrame
  <2> QED
    BY <1>1, <1>3, <2>1, <2>2, QuietStep DEF display_enable
<1> QED
  BY <1>2, <1>3 DEF display_enable

\* The next frame is due.
LEMMA LoopPacedKeeps == BandsInv /\ LoopPaced => BandsInv'
<1> SUFFICES ASSUME BandsInv, LoopPaced PROVE BandsInv'
  OBVIOUS
<1>1. /\ renderer.at = "paced" /\ renderer'.at = "loop" /\ renderer'.back = renderer.back
      /\ renderer'.frame = After(renderer.frame) /\ renderer'.frame \in Picture
      /\ renderer' = [renderer EXCEPT !.at = "loop", !.frame = After(renderer.frame)]
  BY PictureAfter DEF BandsInv, BandsTypeOK, LoopPaced
<1>2. BandsTypeOK'
  BY <1>1 DEF BandsInv, BandsTypeOK, LoopPaced, RendererPlace
<1>3. NextBand' = NextBand /\ NextFrame' = NextFrame
  BY <1>1 DEF NextBand, NextFrame
<1> QED
  BY <1>1, <1>2, <1>3, QuietStep DEF LoopPaced

\* A skipped line and a completion that does not come stop the renderer.
LEMMA SkipKeeps == BandsInv /\ (RenderSkips \/ WaitTimesOut) => BandsInv'
<1> SUFFICES ASSUME BandsInv, RenderSkips \/ WaitTimesOut PROVE BandsInv'
  OBVIOUS
<1>1. BandsTypeOK'
  BY DEF BandsInv, BandsTypeOK, RenderSkips, WaitTimesOut, RendererFails, RendererPlace,
         RendererFault
<1> QED
  BY <1>1, RendererStops DEF BandsInv, BandsTypeOK, RenderSkips, WaitTimesOut, RendererFails

\* Taking the first element of a queue.
LEMMA HeadAndTail ==
    ASSUME NEW S, NEW q \in Seq(S), q # <<>>
    PROVE  /\ Len(q) \in Nat /\ Len(q) >= 1 /\ Head(q) = q[1] /\ Head(q) \in S
           /\ Tail(q) \in Seq(S) /\ Len(Tail(q)) = Len(q) - 1
           /\ \A i \in 1..Len(Tail(q)) : Tail(q)[i] = q[i + 1]
<1>1. Len(q) \in Nat /\ Len(q) >= 1 /\ Head(q) = q[1]
  OBVIOUS
<1>2. Head(q) \in S
  BY <1>1
<1>3. Tail(q) \in Seq(S) /\ Len(Tail(q)) = Len(q) - 1
  OBVIOUS
<1>4. \A i \in 1..Len(Tail(q)) : Tail(q)[i] = q[i + 1]
  OBVIOUS
<1> QED
  BY <1>1, <1>2, <1>3, <1>4

\* How many bands are lent and how many are unwritten, by where the display is.
LEMMA Counts ==
    ASSUME BandsTypeOK
    PROVE  /\ Len(returned) \in Nat /\ Len(transfers) \in Nat
           /\ display.at \in {"waiting", "transfer", "completion"}
           /\ Lent = Len(returned) + (IF display.at = "waiting" THEN 0 ELSE 1) + Len(transfers)
           /\ Unwritten = Len(transfers) + (IF display.at = "transfer" THEN 1 ELSE 0)
           /\ Lent \in Nat /\ Unwritten \in Nat
<1>1. Len(returned) \in Nat /\ Len(transfers) \in Nat
  BY DEF BandsTypeOK
<1>2. display.at \in {"waiting", "transfer", "completion"}
  BY DEF BandsTypeOK
<1> QED
  BY <1>1, <1>2 DEF Lent, Unwritten

\* The oldest completion is taken: its buffer is back, and the last band of a frame
\* reports the frame, which is whole on the panel.
LEMMA CompletionIsTaken == BandsInv /\ (publish_completions \/ AwaitsBuffer) => BandsInv'
<1> SUFFICES ASSUME BandsInv, take_completion, renderer.at \in {"frame", "paced", "band"},
                    renderer.at = "band" => ownership.inflight[renderer.back]
             PROVE  BandsInv'
  BY DEF publish_completions, AwaitsBuffer
<1> DEFINE done == Head(returned)
<1>1. /\ Len(returned) \in Nat /\ Len(returned) >= 1 /\ done = returned[1]
      /\ done.buffer \in Buffer /\ done.ok \in BOOLEAN
      /\ returned' \in Seq([buffer : Buffer, ok : BOOLEAN])
      /\ Len(returned') = Len(returned) - 1
      /\ \A i \in 1..Len(returned') : returned'[i] = returned[i + 1]
  <2>1. returned \in Seq([buffer : Buffer, ok : BOOLEAN]) /\ returned # <<>>
        /\ returned' = Tail(returned)
    BY DEF BandsInv, BandsTypeOK, take_completion
  <2>2. done \in [buffer : Buffer, ok : BOOLEAN]
    BY <2>1, HeadAndTail
  <2>3. done.buffer \in Buffer /\ done.ok \in BOOLEAN
    BY <2>2
  <2> QED
    BY <2>1, <2>3, HeadAndTail
<1>2. CASE ~done.ok \/ ~ownership.inflight[done.buffer]
  <2>1. RendererFails("Completion") /\ UNCHANGED <<ownership, pending, pixels, transfers, display, panel>>
    BY <1>2 DEF take_completion
  <2>2. BandsTypeOK'
    BY <1>1, <2>1 DEF BandsInv, BandsTypeOK, RendererFails, RendererPlace, RendererFault
  <2> QED
    BY <2>1, <2>2, RendererStops DEF BandsInv, BandsTypeOK, RendererFails
<1>3. CASE done.ok /\ ownership.inflight[done.buffer]
  <2>1. /\ ownership' = [ownership EXCEPT !.inflight[done.buffer] = FALSE]
        /\ observed' = IF pending[done.buffer].final
                       THEN [stage |-> "Presented", fault |-> "None",
                             frame |-> pending[done.buffer].frame]
                       ELSE observed
        /\ UNCHANGED <<renderer, pending, pixels, transfers, display, panel>>
    BY <1>3 DEF take_completion
  <2>2. BandsTypeOK'
    BY <1>1, <2>1 DEF BandsInv, BandsTypeOK, RendererFault
  <2>3. RequestsAreWhole'
    BY <2>1 DEF BandsInv, BandsTypeOK, RequestsAreWhole, Whole
  <2>4. BandBack' = BandBack /\ FrameBack' = FrameBack /\ BufferBack' = BufferBack
    BY <2>1, BackKept DEF NextBand, NextFrame
  <2>5. /\ Unwritten' = Unwritten /\ Lent' = Lent - 1 /\ Lent \in 1..2 /\ Unwritten \in 0..1
        /\ Unwritten < Lent
    <3>1. Unwritten' = Unwritten /\ Lent' = Len(returned') + (IF display.at = "waiting" THEN 0 ELSE 1) + Len(transfers)
      BY <2>1 DEF Unwritten, Lent
    <3> QED
      BY <1>1, <3>1, Counts DEF BandsInv, Running, Lending
  <2>6. done.buffer = BufferBack[Lent]
    BY <1>1, <2>5 DEF BandsInv, Running, Ordered
  <2> USE DEF BandsInv, Running
  <2>7. Lending'
    <3>1. \A b \in Buffer : ownership'.inflight[b] <=> ownership.inflight[b] /\ b # done.buffer
      BY <1>1, <2>1 DEF BandsTypeOK
    <3>2. ownership'.rendering = ownership.rendering
      BY <2>1 DEF BandsTypeOK
    <3>3. /\ BufferBack[1] \in Buffer /\ BufferBack[2] \in Buffer /\ BufferBack[1] # BufferBack[2]
      BY BackFacts
    <3>4. Lent = 1 \/ Lent = 2
      BY <2>5
    <3> QED
      BY <2>1, <2>4, <2>5, <2>6, <3>1, <3>2, <3>3, <3>4 DEF Lending
  <2>8. Ordered'
    <3>1. \A i \in 1..Len(returned') :
            i + 1 \in 1..Len(returned) /\ Lent' + 1 - i = Lent + 1 - (i + 1)
      BY <1>1, <2>5
    <3> QED
      BY <1>1, <2>1, <2>4, <2>5, <3>1 DEF Ordered
  <2>9. Labelled'
    BY <2>1, <2>4, <2>5 DEF Labelled
  <2>10. Painted'
    <3>1. \A i \in 1..Len(returned') : i + 1 \in 1..Len(returned) /\ Lent' + 1 - i = Lent + 1 - (i + 1)
      BY <1>1, <2>5
    <3> QED
      BY <1>1, <2>1, <2>4, <2>5, <3>1 DEF Painted, Shown
  <2>11. Reported'
    <3>1. CASE ~pending[done.buffer].final
      BY <3>1, <2>1, <2>4, <2>5 DEF Reported, Shown
    <3>2. CASE pending[done.buffer].final
      <4>1. /\ BandBack[Lent] = BandMax
            /\ observed' = [stage |-> "Presented", fault |-> "None", frame |-> FrameBack[Lent]]
        BY <3>2, <2>1, <2>5, <2>6 DEF Labelled
      <4>2. Shown(FrameBack[Lent])
        BY <1>1, <1>3, <2>5, <4>1 DEF Painted
      <4>3. FrameBack[Lent - 1] = After(FrameBack[Lent]) /\ BandBack[Lent - 1] = 1
        BY <2>5, <4>1, BackFacts
      <4>4. CASE Lent = 1
        BY <4>1, <4>2, <4>3, <4>4, <2>1, <2>4, <2>5 DEF Reported, Shown
      <4>5. CASE Lent = 2
        <5>1. FrameBack[0] = FrameBack[1]
          BY <4>3, <4>5, BackFacts, BandAssumption
        <5> QED
          BY <4>1, <4>2, <4>3, <4>5, <5>1, <2>1, <2>4, <2>5 DEF Reported, Shown
      <4> QED
        BY <4>4, <4>5, <2>5
    <3> QED
      BY <3>1, <3>2
  <2> QED
    BY <2>1, <2>2, <2>3, <2>7, <2>8, <2>9, <2>10, <2>11
<1> QED
  BY <1>1, <1>2, <1>3

\* The buffer drawn over is not lent, so no request loses its pixels.
LEMMA BeginBandKeeps == BandsInv /\ begin_band => BandsInv'
<1> SUFFICES ASSUME BandsInv, begin_band PROVE BandsInv'
  OBVIOUS
<1> USE DEF BandsInv, Running
<1>1. /\ renderer.at = "band" /\ ownership.rendering = None
      /\ ~ownership.inflight[renderer.back]
  BY DEF begin_band, BufferIsBack, Lending
<1>2. /\ ownership' = [ownership EXCEPT !.rendering = renderer.back]
      /\ pixels' = [pixels EXCEPT ![renderer.back] = Scribble]
      /\ renderer' = [renderer EXCEPT !.at = "raster"]
      /\ UNCHANGED <<pending, transfers, returned, display, panel, observed>>
  BY <1>1 DEF begin_band
<1>3. BandsTypeOK'
  BY <1>1, <1>2 DEF BandsTypeOK, RendererPlace
<1>4. /\ renderer'.at = "raster" /\ renderer'.back = renderer.back
      /\ NextBand' = NextBand /\ NextFrame' = NextFrame
  BY <1>1, <1>2 DEF BandsTypeOK, NextBand, NextFrame
<1>5. BandBack' = BandBack /\ FrameBack' = FrameBack /\ BufferBack' = BufferBack
  BY <1>4, BackKept
<1>6. /\ Unwritten' = Unwritten /\ Lent' = Lent /\ Lent \in 0..1 /\ Len(transfers) \in 0..1
      /\ display.at # "waiting" => Len(transfers) = 0
      /\ ownership'.inflight = ownership.inflight /\ ownership'.rendering = renderer.back
  <2>1. Unwritten' = Unwritten /\ Lent' = Lent
    BY <1>2 DEF Unwritten, Lent
  <2>2. Lent # 2 /\ Lent <= 2
    BY <1>1, BackFacts DEF Lending
  <2>3. ownership'.inflight = ownership.inflight /\ ownership'.rendering = renderer.back
    BY <1>2 DEF BandsTypeOK
  <2>4. Lent \in 0..1
    BY <2>2, Counts
  <2>5. Len(transfers) \in 0..1 /\ (display.at # "waiting" => Len(transfers) = 0)
    <3>1. CASE display.at = "waiting"
      BY <2>4, <3>1, Counts
    <3>2. CASE display.at # "waiting"
      BY <2>4, <3>2, Counts
    <3> QED
      BY <3>1, <3>2
  <2> QED
    BY <2>1, <2>2, <2>3, <2>4, <2>5
<1>7. /\ BufferBack[2] = renderer.back /\ BufferBack[1] # renderer.back
      /\ BufferBack[1] \in Buffer
  BY <1>1, BackFacts
<1>8. RequestsAreWhole'
  <2>1. /\ \A i \in 1..Len(transfers) : transfers[i].buffer = BufferBack[1]
        /\ display.at # "waiting" => display.request.buffer = BufferBack[1]
    BY <1>1, <1>6 DEF Ordered
  <2>2. pixels'[BufferBack[1]] = pixels[BufferBack[1]]
    BY <1>2, <1>7 DEF BandsTypeOK
  <2> QED
    BY <2>1, <2>2, <1>2, <1>6, <1>7 DEF RequestsAreWhole, Whole
<1>9. Lending'
  BY <1>1, <1>4, <1>5, <1>6 DEF Lending
<1>10. Ordered' /\ Painted'
  BY <1>1, <1>2, <1>5, <1>6 DEF Ordered, Painted, Shown
<1>11. Labelled'
  BY <1>1, <1>2, <1>5, <1>6, <1>7 DEF Labelled, BandsTypeOK
<1>12. Reported'
  BY <1>1, <1>2, <1>4, <1>5, <1>6 DEF Reported, Shown
<1> QED
  BY <1>3, <1>4, <1>8, <1>9, <1>10, <1>11, <1>12

\* At most one band is lent when the next is submitted: the queue has room, and the
\* band comes after the lent one.
LEMMA BandIsSubmitted == BandsInv /\ submit_band => BandsInv'
<1> SUFFICES ASSUME BandsInv, submit_band PROVE BandsInv'
  OBVIOUS
<1> USE DEF BandsInv, Running
<1> DEFINE request == [buffer |-> renderer.back, band |-> renderer.band]
<1>1. /\ renderer.at = "raster" /\ renderer.band \in Band /\ renderer.frame \in Picture
      /\ renderer.back \in Buffer /\ request \in Request
      /\ ownership.rendering = renderer.back /\ Lent <= 1
  BY DEF submit_band, BandsTypeOK, Lending, Request
<1>2. /\ Len(transfers) \in Nat /\ Len(transfers) <= 1 /\ Lent \in 0..1
      /\ display.at # "waiting" => Len(transfers) = 0
  <2>1. CASE display.at = "waiting"
    BY <1>1, <2>1, Counts
  <2>2. CASE display.at # "waiting"
    BY <1>1, <2>2, Counts
  <2> QED
    BY <2>1, <2>2
<1>3. /\ pixels' = [pixels EXCEPT ![renderer.back] = <<renderer.frame, renderer.band>>]
      /\ pending' = [pending EXCEPT ![renderer.back] =
                       [final |-> renderer.band = BandMax, frame |-> renderer.frame]]
      /\ ownership' = [rendering |-> None,
                       inflight |-> [ownership.inflight EXCEPT ![renderer.back] = TRUE]]
      /\ transfers' = Append(transfers, request)
      /\ renderer' = [renderer EXCEPT !.at = IF renderer.band = BandMax THEN "paced" ELSE "band",
                                      !.back = 1 - renderer.back, !.band = renderer.band + 1]
      /\ UNCHANGED <<observed, returned, display, panel>>
  <2>1. ~(Len(transfers) >= RequestMax)
    BY <1>2, BandAssumption
  <2> QED
    BY <2>1 DEF submit_band, FinalBand
<1>4. /\ transfers' \in Seq(Request) /\ Len(transfers') = Len(transfers) + 1
      /\ \A i \in 1..Len(transfers) : transfers'[i] = transfers[i]
      /\ transfers'[Len(transfers) + 1] = request
  BY <1>1, <1>3 DEF BandsTypeOK
<1>5. BandsTypeOK'
  <2>1. /\ 1 - renderer.back \in Buffer /\ renderer.band + 1 \in 1..BandMax + 1
        /\ renderer.band # BandMax => renderer.band + 1 \in Band
    BY <1>1, BandAssumption DEF Buffer, Band
  <2>2. /\ renderer' \in [at : RendererPlace, shows : {"shell", "world"}, frame : Picture,
                     band : 1..BandMax + 1, back : Buffer, enabled : BOOLEAN]
        /\ renderer'.at \in {"band", "raster"} => renderer'.band \in Band
    BY <2>1, <1>3 DEF BandsTypeOK, RendererPlace
  <2>3. /\ ownership' \in [rendering : Buffer \cup {None}, inflight : [Buffer -> BOOLEAN]]
        /\ pending' \in [Buffer -> [final : BOOLEAN, frame : Picture]]
    BY <1>1, <1>3 DEF BandsTypeOK
  <2>4. pixels' \in [Buffer -> (Picture \X Band) \cup {Scribble}]
    BY <1>1, <1>3 DEF BandsTypeOK
  <2> QED
    BY <2>2, <2>3, <2>4, <1>3, <1>4 DEF BandsTypeOK
<1>6. renderer'.at # "failed" /\ renderer'.at # "raster"
  BY <1>3 DEF BandsTypeOK
<1>7. /\ BandBack'[1] = BandBack[0] /\ FrameBack'[1] = FrameBack[0] /\ BufferBack'[1] = BufferBack[0]
      /\ BandBack'[2] = BandBack[1] /\ FrameBack'[2] = FrameBack[1] /\ BufferBack'[2] = BufferBack[1]
  BY <1>6, BackMoves
<1>8. /\ BandBack[0] = renderer.band /\ FrameBack[0] = renderer.frame
      /\ BufferBack[0] = renderer.back /\ BufferBack[1] # renderer.back
      /\ BufferBack[1] \in Buffer
  BY <1>1, BackFacts DEF NextBand, NextFrame, FrameBack
<1>9. Lent' = Lent + 1 /\ Unwritten' = Unwritten + 1
  <2>1. /\ Lent' = Len(returned) + (IF display.at = "waiting" THEN 0 ELSE 1) + (Len(transfers) + 1)
        /\ Unwritten' = (Len(transfers) + 1) + (IF display.at = "transfer" THEN 1 ELSE 0)
    BY <1>3, <1>4 DEF Lent, Unwritten
  <2>2. CASE display.at = "waiting"
    BY <2>1, <2>2, Counts
  <2>3. CASE display.at = "transfer"
    BY <2>1, <2>3, Counts
  <2>4. CASE display.at = "completion"
    BY <2>1, <2>4, Counts
  <2> QED
    BY <2>2, <2>3, <2>4, Counts
<1>10. RequestsAreWhole'
  <2>1. \A r : Whole(r) /\ r.buffer \in Buffer => Whole(r)'
    BY <1>1, <1>3 DEF Whole, BandsTypeOK, None, Buffer
  <2>2. \A r : r = request => Whole(r)'
    BY <1>1, <1>3 DEF Whole, BandsTypeOK, None, Buffer
  <2>3. ASSUME NEW i \in 1..Len(transfers)
        PROVE  Whole(transfers[i]) /\ transfers[i].buffer \in Buffer
    <3>1. transfers[i] \in Request
      BY DEF BandsTypeOK
    <3> QED
      BY <3>1 DEF RequestsAreWhole, Request
  <2>4. ASSUME NEW i \in 1..Len(transfers') PROVE \A r : r = transfers'[i] => Whole(r)'
    <3>1. CASE i = Len(transfers) + 1
      BY <3>1, <1>4, <2>2
    <3>2. CASE i # Len(transfers) + 1
      <4>1. i \in 1..Len(transfers)
        BY <3>2, <1>2, <1>4
      <4> QED
        BY <4>1, <1>4, <2>1, <2>3
    <3> QED
      BY <3>1, <3>2
  <2>5. ASSUME display.at # "waiting" PROVE \A r : r = display'.request => Whole(r)'
    <3>1. Whole(display.request) /\ display.request.buffer \in Buffer
      BY <2>5 DEF RequestsAreWhole, BandsTypeOK, Request
    <3> QED
      BY <3>1, <2>1, <1>3
  <2> QED
    BY <2>4, <2>5, <1>3 DEF RequestsAreWhole, Whole
<1>11. Lending'
  <2>1. /\ ownership'.inflight[BufferBack'[1]]
        /\ ownership'.inflight[BufferBack'[2]] <=> ownership.inflight[BufferBack[1]]
        /\ ownership'.rendering = None
    BY <1>1, <1>3, <1>7, <1>8 DEF BandsTypeOK
  <2> QED
    BY <2>1, <1>1, <1>2, <1>6, <1>9 DEF Lending
<1>12. Labelled'
  <2>1. /\ pixels'[BufferBack'[1]] = <<FrameBack'[1], BandBack'[1]>>
        /\ pending'[BufferBack'[1]].final <=> BandBack'[1] = BandMax
        /\ pending'[BufferBack'[1]].frame = FrameBack'[1]
    BY <1>1, <1>3, <1>7, <1>8 DEF BandsTypeOK
  <2>2. /\ pixels'[BufferBack'[2]] = pixels[BufferBack[1]]
        /\ pending'[BufferBack'[2]] = pending[BufferBack[1]]
    BY <1>1, <1>3, <1>7, <1>8 DEF BandsTypeOK
  <2>3. 2 <= Lent' => 1 <= Lent
    BY <1>2, <1>9
  <2> QED
    BY <1>1, <1>7, <2>1, <2>2, <2>3 DEF Labelled
<1>13. Ordered'
  <2>1. ASSUME NEW i \in 1..Len(transfers')
        PROVE  /\ transfers'[i].buffer = BufferBack'[Len(transfers') + 1 - i]
               /\ transfers'[i].band = BandBack'[Len(transfers') + 1 - i]
    <3>1. CASE i = Len(transfers) + 1
      BY <3>1, <1>2, <1>4, <1>7, <1>8
    <3>2. CASE i # Len(transfers) + 1
      <4> DEFINE n == Len(transfers)
      <4>1. i = 1 /\ n = 1
        <5>1. i \in Nat /\ i >= 1 /\ i <= n + 1 /\ n \in Nat /\ n <= 1 /\ i # n + 1
          BY <3>2, <1>2, <1>4
        <5> HIDE DEF n
        <5> QED
          BY <5>1
      <4> QED
        BY <4>1, <1>1, <1>4, <1>7 DEF Ordered
    <3> QED
      BY <3>1, <3>2
  <2>2. ASSUME display.at # "waiting"
        PROVE  /\ display.request.buffer = BufferBack'[Len(transfers') + 1]
               /\ display.request.band = BandBack'[Len(transfers') + 1]
    BY <2>2, <1>1, <1>2, <1>4, <1>7 DEF Ordered
  <2>3. ASSUME NEW i \in 1..Len(returned)
        PROVE  returned[i].buffer = BufferBack'[Lent' + 1 - i]
    <3>1. i = 1 /\ Lent = 1
      BY <1>2, Counts
    <3> QED
      BY <3>1, <1>1, <1>7, <1>9 DEF Ordered
  <2>4. BandBack'[Unwritten'] = BandBack[Unwritten]
    BY <1>2, <1>7, <1>9, Counts
  <2> QED
    BY <2>1, <2>2, <2>3, <2>4, <1>1, <1>3 DEF Ordered
<1>14. FrameBack'[Unwritten'] = FrameBack[Unwritten] /\ Unwritten \in 0..1
  BY <1>2, <1>7, <1>9, Counts
<1>15. Painted'
  <2>1. ASSUME display.at # "waiting"
        PROVE  FrameBack'[Len(transfers') + 1] = FrameBack[Len(transfers) + 1]
    BY <2>1, <1>2, <1>4, <1>7
  <2>2. ASSUME NEW i \in 1..Len(returned)
        PROVE  /\ BandBack'[Lent' + 1 - i] = BandBack[Lent + 1 - i]
               /\ FrameBack'[Lent' + 1 - i] = FrameBack[Lent + 1 - i]
    <3>1. i = 1 /\ Lent = 1
      BY <1>2, Counts
    <3> QED
      BY <3>1, <1>7, <1>9
  <2> QED
    BY <2>1, <2>2, <1>1, <1>3, <1>14 DEF Painted, Shown
<1>16. Reported'
  <2> SUFFICES ASSUME observed.stage = "Presented" PROVE Reported'
    BY <1>3 DEF Reported
  <2>1. FrameBack[0] = After(observed.frame)
    BY <1>1 DEF Reported
  <2>2. \A j \in 1..2 : j <= Unwritten' => FrameBack'[j] = After(observed.frame)
    BY <2>1, <1>1, <1>7, <1>9, <1>14 DEF Reported
  <2>3. \/ FrameBack'[0] = After(observed.frame)
        \/ renderer'.at = "paced" /\ FrameBack'[0] = After(After(observed.frame))
    <3>1. renderer'.frame = renderer.frame
          /\ renderer'.at = IF renderer.band = BandMax THEN "paced" ELSE "band"
      BY <1>3 DEF BandsTypeOK
    <3>2. FrameBack'[0] = NextFrame'
      BY DEF FrameBack
    <3> QED
      BY <2>1, <3>1, <3>2, <1>8 DEF NextFrame
  <2> QED
    BY <2>2, <2>3, <1>1, <1>3 DEF Reported, Shown
<1> QED
  BY <1>5, <1>6, <1>10, <1>11, <1>12, <1>13, <1>15, <1>16

\* The display takes the oldest request; a frame's first band clears the failure.
LEMMA RequestIsTaken == BandsInv /\ DisplayTakes => BandsInv'
<1> SUFFICES ASSUME BandsInv, DisplayTakes PROVE BandsInv'
  OBVIOUS
<1>1. /\ transfers \in Seq(Request) /\ transfers # <<>> /\ transfers' = Tail(transfers)
      /\ display.at = "waiting"
      /\ UNCHANGED <<renderer, ownership, pending, pixels, returned, panel, observed>>
  BY DEF BandsInv, BandsTypeOK, DisplayTakes
<1>2. /\ Len(transfers) \in Nat /\ Len(transfers) >= 1 /\ Head(transfers) = transfers[1]
      /\ transfers[1] \in Request /\ transfers' \in Seq(Request)
      /\ Len(transfers') = Len(transfers) - 1
      /\ \A i \in 1..Len(transfers') : transfers'[i] = transfers[i + 1]
  BY <1>1, HeadAndTail
<1>3. /\ display'.at = "transfer" /\ display'.request = transfers[1]
      /\ display'.expected = display.expected /\ display'.failed \in BOOLEAN
      /\ ~display'.failed => ~display.failed \/ display.expected = 1
      /\ display' \in [at : {"waiting", "transfer", "completion"},
                        request : Request \cup {NoTransfer}, expected : Band, failed : BOOLEAN]
  BY <1>2 DEF BandsInv, BandsTypeOK, DisplayTakes
<1>4. BandsTypeOK'
  BY <1>1, <1>2, <1>3 DEF BandsInv, BandsTypeOK
<1>5. RequestsAreWhole'
  BY <1>1, <1>2, <1>3 DEF BandsInv, RequestsAreWhole, Whole
<1>6. ASSUME renderer.at # "failed" PROVE Running'
  <2> USE DEF BandsInv, Running
  <2>1. BandBack' = BandBack /\ FrameBack' = FrameBack /\ BufferBack' = BufferBack
    BY <1>1, BackKept DEF NextBand, NextFrame
  <2>2. Unwritten' = Unwritten /\ Lent' = Lent
    <3>1. /\ Lent' = Len(returned) + 1 + (Len(transfers) - 1)
          /\ Unwritten' = (Len(transfers) - 1) + 1
      BY <1>1, <1>2, <1>3 DEF Lent, Unwritten
    <3> QED
      BY <1>1, <1>2, <3>1, Counts
  <2>3. Lending' /\ Labelled'
    BY <1>1, <1>6, <2>1, <2>2 DEF Lending, Labelled
  <2>4. Ordered'
    <3>1. \A i \in 1..Len(transfers') :
            /\ i + 1 \in 1..Len(transfers)
            /\ Len(transfers') + 1 - i = Len(transfers) + 1 - (i + 1)
      <4>1. Len(transfers) \in Nat /\ Len(transfers') = Len(transfers) - 1
        BY <1>2
      <4> QED
        BY <4>1
    <3>2. Len(transfers') + 1 = Len(transfers) + 1 - 1 /\ 1 \in 1..Len(transfers)
      BY <1>2
    <3>3. ASSUME NEW i \in 1..Len(transfers')
          PROVE  /\ transfers'[i].buffer = BufferBack'[Len(transfers') + 1 - i]
                 /\ transfers'[i].band = BandBack'[Len(transfers') + 1 - i]
      <4>1. transfers'[i] = transfers[i + 1]
        BY <1>2
      <4> QED
        BY <4>1, <3>1, <1>6, <2>1 DEF Ordered
    <3>4. /\ display'.request.buffer = BufferBack'[Len(transfers') + 1]
          /\ display'.request.band = BandBack'[Len(transfers') + 1]
      BY <3>2, <1>3, <1>6, <2>1 DEF Ordered
    <3>5. display'.expected = BandBack'[Unwritten']
      BY <1>3, <1>6, <2>1, <2>2 DEF Ordered
    <3> QED
      BY <3>3, <3>4, <3>5, <1>1, <1>3, <1>6, <2>1, <2>2 DEF Ordered
  <2>5. Painted'
    <3>1. \A b \in Band : b < 1 => FALSE
      BY DEF Band
    <3> QED
      BY <1>1, <1>3, <1>6, <2>1, <2>2, <3>1 DEF Painted, Shown
  <2>6. Reported'
    BY <1>1, <1>6, <2>1, <2>2 DEF Reported, Shown
  <2> QED
    BY <2>3, <2>4, <2>5, <2>6
<1> QED
  BY <1>1, <1>4, <1>5, <1>6 DEF BandsInv

\* The display writes the band it expects, or fails.
LEMMA WritesKeeps == BandsInv /\ DisplayWrites => BandsInv'
<1> SUFFICES ASSUME BandsInv, DisplayWrites PROVE BandsInv'
  OBVIOUS
<1> DEFINE r == display.request
<1>1. PICK ok \in {r.band = display.expected, FALSE} :
        /\ panel' = IF ok THEN [panel EXCEPT ![r.band] = pixels[r.buffer][1]] ELSE panel
        /\ display' = [display EXCEPT !.at = "completion", !.failed = @ \/ ~ok,
                         !.expected = IF r.band = BandMax THEN 1 ELSE r.band + 1]
  BY DEF DisplayWrites
<1>2. /\ display.at = "transfer" /\ r \in Request /\ r.band \in Band /\ r.buffer \in Buffer
      /\ UNCHANGED <<renderer, ownership, pending, pixels, transfers, returned, observed>>
  BY DEF BandsInv, BandsTypeOK, DisplayWrites, Request
<1>3. pixels[r.buffer][1] \in Picture
  BY <1>2 DEF BandsInv, RequestsAreWhole, Whole
<1>4. /\ display'.at = "completion" /\ display'.request = r
      /\ display'.expected = IF r.band = BandMax THEN 1 ELSE r.band + 1
      /\ ~display'.failed => ~display.failed /\ ok
      /\ display'.failed \in BOOLEAN /\ display'.expected \in Band
  <2>1. /\ display'.at = "completion" /\ display'.request = r
        /\ display'.expected = IF r.band = BandMax THEN 1 ELSE r.band + 1
    BY <1>1 DEF BandsInv, BandsTypeOK
  <2>2. display'.expected \in Band
    BY <2>1, <1>2, BandAssumption DEF Band
  <2>3. display'.failed = (display.failed \/ ~ok)
    BY <1>1 DEF BandsInv, BandsTypeOK
  <2> QED
    BY <2>1, <2>2, <2>3, Zenon
<1>5. /\ panel' \in [Band -> 0..3]
      /\ \A b \in Band : panel'[b] = IF ok /\ b = r.band THEN pixels[r.buffer][1] ELSE panel[b]
  BY <1>1, <1>2, <1>3 DEF BandsInv, BandsTypeOK, Picture
<1>6. BandsTypeOK'
  <2>1. display' \in [at : {"waiting", "transfer", "completion"},
                      request : Request \cup {NoTransfer}, expected : Band, failed : BOOLEAN]
    BY <1>1, <1>2, <1>4 DEF BandsInv, BandsTypeOK
  <2> QED
    BY <2>1, <1>2, <1>4, <1>5 DEF BandsInv, BandsTypeOK
<1>7. RequestsAreWhole'
  BY <1>2, <1>4 DEF BandsInv, RequestsAreWhole, Whole
<1>8. ASSUME renderer.at # "failed" PROVE Running'
  <2> USE DEF BandsInv, Running
  <2>1. BandBack' = BandBack /\ FrameBack' = FrameBack /\ BufferBack' = BufferBack
    BY <1>2, BackKept DEF NextBand, NextFrame
  <2>2. /\ Lent' = Lent /\ Unwritten' = Len(transfers) /\ Unwritten = Len(transfers) + 1
        /\ Unwritten \in 1..2 /\ Unwritten <= Lent /\ Lent \in 1..2
        /\ Len(returned) \in Nat /\ Lent = Len(returned) + Unwritten
    <3>1. Lent <= 2
      BY <1>8 DEF Lending
    <3>2. Lent' = Lent /\ Unwritten' = Len(transfers) + 0
      BY <1>2, <1>4 DEF Lent, Unwritten
    <3>3. /\ Lent = Len(returned) + 1 + Len(transfers) /\ Unwritten = Len(transfers) + 1
          /\ Len(returned) \in Nat /\ Len(transfers) \in Nat
      BY <1>2, Counts
    <3> QED
      BY <3>1, <3>2, <3>3
  <2>3. /\ r.band = BandBack[Unwritten] /\ r.buffer = BufferBack[Unwritten]
        /\ display.expected = r.band
    BY <1>2, <1>8, <2>2 DEF Ordered
  <2>4. pixels[r.buffer][1] = FrameBack[Unwritten]
    BY <1>8, <2>2, <2>3 DEF Labelled
  <2>5. /\ BandBack[Unwritten - 1] = IF r.band = BandMax THEN 1 ELSE r.band + 1
        /\ FrameBack[Unwritten - 1] = IF r.band = BandMax THEN After(FrameBack[Unwritten])
                                      ELSE FrameBack[Unwritten]
    BY <1>8, <2>2, <2>3, BackFacts
  <2>6. Unwritten' = Unwritten - 1
    BY <2>2
  <2>7. Lending' /\ Labelled'
    BY <1>2, <1>8, <2>1, <2>2 DEF Lending, Labelled
  <2>8. Ordered'
    BY <1>2, <1>4, <1>8, <2>1, <2>2, <2>5, <2>6 DEF Ordered
  <2>9. ASSUME ~display'.failed, NEW b \in Band, b <= r.band PROVE panel'[b] = FrameBack[Unwritten]
    <3>1. ~display.failed /\ ok
      BY <1>4, <2>9
    <3>2. CASE b = r.band
      BY <3>1, <3>2, <1>5, <2>4
    <3>3. CASE b # r.band
      <4>1. b < display.expected
        BY <3>3, <1>2, <2>3, <2>9 DEF Band
      <4> QED
        BY <4>1, <3>1, <3>3, <1>5, <1>8 DEF Painted
    <3> QED
      BY <3>2, <3>3
  <2>10. Painted'
    <3>1. ASSUME ~display'.failed, NEW b \in Band, b < display'.expected
          PROVE  panel'[b] = FrameBack'[Unwritten']
      <4>1. r.band # BandMax /\ b <= r.band
        BY <3>1, <1>2, <1>4 DEF Band
      <4> QED
        BY <4>1, <3>1, <2>1, <2>5, <2>6, <2>9
    <3>2. ASSUME ~display'.failed, r.band = BandMax, NEW b \in Band
          PROVE  panel'[b] = FrameBack'[Len(transfers') + 1]
      <4>1. b <= r.band
        BY <3>2, BandAssumption DEF Band
      <4> QED
        BY <4>1, <3>2, <1>2, <2>1, <2>2, <2>9
    <3>3. ASSUME NEW i \in 1..Len(returned), returned[i].ok, BandBack[Lent + 1 - i] = BandMax
          PROVE  Shown(FrameBack[Lent + 1 - i])'
      <4>1. Unwritten = 1 /\ Lent + 1 - i = 2
        BY <2>2
      <4>2. FrameBack[1] = After(FrameBack[2])
        BY <4>1, <3>3, <1>8, BackFacts
      <4>3. Shown(FrameBack[2])
        BY <4>1, <3>3, <1>8 DEF Painted
      <4>4. \A b \in Band : panel'[b] \in {FrameBack[2], After(FrameBack[2])}
        BY <4>1, <4>2, <4>3, <1>5, <2>4 DEF Shown
      <4> QED
        BY <4>1, <4>4, <1>2, <2>1, <2>2 DEF Shown
    <3> QED
      BY <3>1, <3>2, <3>3, <1>2, <1>4, <2>1, <2>2 DEF Painted
  <2>11. Reported'
    <3> SUFFICES ASSUME observed.stage = "Presented" PROVE Reported'
      BY <1>2 DEF Reported
    <3>1. FrameBack[Unwritten] = After(observed.frame)
      BY <1>8, <2>2 DEF Reported
    <3>2. \A b \in Band : panel'[b] \in {observed.frame, After(observed.frame)}
      BY <3>1, <1>5, <1>8, <2>4 DEF Reported, Shown
    <3>3. \A j \in 1..2 : j <= Unwritten' => j <= Unwritten
      BY <2>2, <2>6
    <3> QED
      BY <3>2, <3>3, <1>2, <1>8, <2>1 DEF Reported, Shown
  <2> QED
    BY <2>7, <2>8, <2>10, <2>11
<1> QED
  BY <1>2, <1>6, <1>7, <1>8 DEF BandsInv

\* The display gives the buffer back, after the ones already returned.
LEMMA CompletesKeeps == BandsInv /\ DisplayCompletes => BandsInv'
<1> SUFFICES ASSUME BandsInv, DisplayCompletes PROVE BandsInv'
  OBVIOUS
<1> DEFINE done == [buffer |-> display.request.buffer, ok |-> ~display.failed]
<1>1. /\ display.at = "completion" /\ returned' = Append(returned, done)
      /\ done \in [buffer : Buffer, ok : BOOLEAN]
      /\ UNCHANGED <<renderer, ownership, pending, pixels, transfers, panel, observed>>
  BY DEF BandsInv, BandsTypeOK, DisplayCompletes, Request
<1>2. /\ display'.at = "waiting" /\ display'.expected = display.expected
      /\ display'.failed = display.failed
      /\ display' \in [at : {"waiting", "transfer", "completion"},
                        request : Request \cup {NoTransfer}, expected : Band, failed : BOOLEAN]
  BY DEF BandsInv, BandsTypeOK, DisplayCompletes
<1>3. /\ returned' \in Seq([buffer : Buffer, ok : BOOLEAN])
      /\ Len(returned') = Len(returned) + 1
      /\ \A i \in 1..Len(returned) : returned'[i] = returned[i]
      /\ returned'[Len(returned) + 1] = done
  BY <1>1 DEF BandsInv, BandsTypeOK
<1>4. BandsTypeOK'
  BY <1>1, <1>2, <1>3 DEF BandsInv, BandsTypeOK
<1>5. RequestsAreWhole'
  BY <1>1, <1>2 DEF BandsInv, RequestsAreWhole, Whole
<1>6. ASSUME renderer.at # "failed" PROVE Running'
  <2> USE DEF BandsInv, Running
  <2>1. BandBack' = BandBack /\ FrameBack' = FrameBack /\ BufferBack' = BufferBack
    BY <1>1, BackKept DEF NextBand, NextFrame
  <2>2. /\ Lent' = Lent /\ Unwritten' = Unwritten
        /\ Len(returned) \in Nat /\ Len(transfers) \in Nat
        /\ Lent = Len(returned) + 1 + Len(transfers)
    <3>1. Lent' = (Len(returned) + 1) + 0 + Len(transfers) /\ Unwritten' = Len(transfers) + 0
      BY <1>1, <1>2, <1>3 DEF Lent, Unwritten
    <3> QED
      BY <1>1, <3>1, Counts
  <2>3. Lent + 1 - (Len(returned) + 1) = Len(transfers) + 1
    BY <2>2
  <2>4. \A i \in 1..Len(returned') : i \in 1..Len(returned) \/ i = Len(returned) + 1
    BY <1>3, <2>2
  <2>5. Lending' /\ Labelled'
    BY <1>1, <1>6, <2>1, <2>2 DEF Lending, Labelled
  <2>6. Ordered'
    <3>1. ASSUME NEW i \in 1..Len(returned') PROVE returned'[i].buffer = BufferBack[Lent + 1 - i]
      <4>1. CASE i \in 1..Len(returned)
        BY <4>1, <1>3, <1>6 DEF Ordered
      <4>2. CASE i = Len(returned) + 1
        BY <4>2, <1>1, <1>3, <1>6, <2>3 DEF Ordered
      <4> QED
        BY <4>1, <4>2, <2>4
    <3> QED
      BY <3>1, <1>1, <1>2, <1>6, <2>1, <2>2 DEF Ordered
  <2>7. Painted'
    <3>1. ASSUME NEW i \in 1..Len(returned'), returned'[i].ok, BandBack[Lent + 1 - i] = BandMax
          PROVE  Shown(FrameBack[Lent + 1 - i])
      <4>1. CASE i \in 1..Len(returned)
        BY <4>1, <3>1, <1>3, <1>6 DEF Painted
      <4>2. CASE i = Len(returned) + 1
        <5>1. ~display.failed /\ display.request.band = BandMax
          BY <4>2, <3>1, <1>1, <1>3, <1>6, <2>3 DEF Ordered
        <5>2. \A b \in Band : panel[b] = FrameBack[Len(transfers) + 1]
          BY <5>1, <1>1, <1>6 DEF Painted
        <5> QED
          BY <5>2, <4>2, <2>3 DEF Shown
      <4> QED
        BY <4>1, <4>2, <2>4
    <3>2. \A f : Shown(f)' <=> Shown(f)
      BY <1>1 DEF Shown
    <3> QED
      BY <3>1, <3>2, <1>1, <1>2, <1>6, <2>1, <2>2 DEF Painted, Shown
  <2>8. Reported'
    BY <1>1, <1>6, <2>1, <2>2 DEF Reported, Shown
  <2> QED
    BY <2>5, <2>6, <2>7, <2>8
<1> QED
  BY <1>1, <1>4, <1>5, <1>6 DEF BandsInv

\* The renderer and the display keep the exchange of the two buffers in order for
\* every number of bands (BufferOwnership, submit_band, display_entry).
THEOREM BandsInvariance == BandsSpec => []BandsInv
<1>1. BandsInit => BandsInv
  <2> SUFFICES ASSUME BandsInit PROVE BandsInv
    OBVIOUS
  <2>1. BandsTypeOK
    <3>1. 1 \in Band /\ 1 \in 1..BandMax + 1
      BY BandAssumption DEF Band
    <3> QED
      BY <3>1 DEF BandsInit, BandsTypeOK, RendererPlace, RendererFault, Buffer, Picture, None
  <2>2. Lent = 0 /\ Unwritten = 0 /\ Len(transfers) = 0 /\ Len(returned) = 0
    BY DEF BandsInit, Lent, Unwritten
  <2>3. renderer.at = "loop" /\ display.at = "waiting" /\ display.expected = 1
        /\ BandBack[0] = 1
    BY DEF BandsInit, BandBack, NextBand
  <2>4. RequestsAreWhole
    BY <2>2, <2>3 DEF RequestsAreWhole
  <2>5. Lending /\ Labelled
    <3>1. \A b \in Buffer : ~ownership.inflight[b]
      BY DEF BandsInit
    <3>2. BufferBack[1] \in Buffer /\ BufferBack[2] \in Buffer /\ ownership.rendering = None
      BY <2>1, <2>3, BackFacts DEF BandsInit
    <3> QED
      BY <2>2, <2>3, <3>1, <3>2 DEF Lending, Labelled
  <2>6. Ordered
    BY <2>2, <2>3 DEF Ordered
  <2>7. Painted /\ Reported
    <3>1. \A b \in Band : ~(b < 1)
      BY DEF Band
    <3> QED
      BY <2>2, <2>3, <3>1 DEF Painted, Reported, BandsInit
  <2> QED
    BY <2>1, <2>3, <2>4, <2>5, <2>6, <2>7 DEF BandsInv, Running
<1>2. BandsInv /\ [BandsNext]_bandVars => BandsInv'
  <2> SUFFICES ASSUME BandsInv, [BandsNext]_bandVars PROVE BandsInv'
    OBVIOUS
  <2>1. CASE RendererNext
    BY <2>1, LoopKeeps, CompletionIsTaken, BeginFrameKeeps, SkipKeeps, BeginBandKeeps, BandIsSubmitted,
       EnableKeeps, LoopPacedKeeps DEF RendererNext
  <2>2. CASE DisplayNext
    BY <2>2, RequestIsTaken, WritesKeeps, CompletesKeeps DEF DisplayNext
  <2>3. CASE UNCHANGED bandVars
    BY <2>3 DEF bandVars, BandsInv, BandsTypeOK, RequestsAreWhole, Whole, Running, Lending,
       Ordered, Labelled, Painted, Reported, Shown, Lent, Unwritten, BandBack, FrameBack,
       BufferBack, NextBand, NextFrame
  <2> QED
    BY <2>1, <2>2, <2>3 DEF BandsNext
<1> QED
  BY <1>1, <1>2, PTL DEF BandsSpec

\* FramesAreWhole for every number of bands from two and every queue of at least two
\* requests: the display never reads a half drawn buffer, a frame reported Presented is
\* whole on the panel, and neither Ownership nor Submit is ever a fault.
THEOREM PanelShowsWholeFrames == BandsSpec => []FramesAreWhole
<1>1. BandsInv => FramesAreWhole
  <2> SUFFICES ASSUME BandsInv PROVE FramesAreWhole
    OBVIOUS
  <2>1. TransferIsWhole
    BY DEF BandsInv, RequestsAreWhole, Whole, TransferIsWhole, Scribble, Picture, Band
  <2>2. PresentedIsWhole
    <3> SUFFICES ASSUME observed.stage = "Presented" PROVE PresentedIsWhole
      BY DEF PresentedIsWhole
    <3>1. Shown(observed.frame)
      BY DEF BandsInv, Running, Reported
    <3>2. (observed.frame + 1) % 3 = After(observed.frame)
      BY PictureAfter DEF BandsInv, BandsTypeOK
    <3> QED
      BY <3>1, <3>2 DEF PresentedIsWhole, Shown
  <2>3. NoOwnershipFault
    BY DEF BandsInv, BandsTypeOK, RendererFault, NoOwnershipFault
  <2> QED
    BY <2>1, <2>2, <2>3 DEF FramesAreWhole
<1> QED
  BY <1>1, BandsInvariance, PTL


-----------------------------------------------------------------------------
(* The start: the two processors and the memory that changes owner.        *)

\* Where the main thread and the supervisor are, and the boot status.
MainPlace == {"control", "prepare", "appcpu", "renderer", "supervise", "returns", "ended"}
SupervisorPlace == {"none", "join", "handoff", "region", "wifi", "wifi join", "service", "loop",
                    "ended"}

BootStatus == [stage : Nat, error : Nat, ready : BOOLEAN]

\* The type invariant of the start.
BootTypeOK ==
    /\ thread \in [main : MainPlace, supervisor : SupervisorPlace,
                   coordinator : {"none", "runs", "ended", "failed"},
                   service : {"none", "runs"},
                   appMain : {"off", "display", "devices", "threads", "ended"},
                   appRenderer : {"none", "waits", "clears", "runs", "ended"}]
    /\ shared \in [display : BOOLEAN, spi : BOOLEAN, handoff : BOOLEAN]
    /\ heap \subseteq Region
    /\ boot \in BootStatus

\* PROCPU's main thread goes before the supervisor: the supervisor is created once,
\* as the main thread returns, and is past its join only when that thread is dead.
MainIsFirst ==
    /\ thread.supervisor # "none" => thread.main \in {"returns", "ended"}
    /\ thread.supervisor \notin {"none", "join"} => thread.main = "ended"
    /\ "main stack" \in heap => thread.main = "ended"

\* APPCPU's main thread goes before its renderer, which clears a dead thread's stack
\* and only then hands it over; the supervisor is past the handoff only after that.
AppMainIsFirst ==
    /\ thread.appMain # "off" => thread.main \notin {"control", "prepare", "appcpu"}
    /\ thread.appRenderer \in {"clears", "runs"} => thread.appMain = "ended"
    /\ shared.handoff => thread.appRenderer = "runs"
    /\ thread.supervisor \in {"region", "wifi", "wifi join", "service", "loop"} => shared.handoff
    /\ "app stack" \in heap => thread.appMain = "ended"

\* The service stack is the coordinator's until it is joined, and then the service's.
ServiceStackIsLent ==
    /\ thread.coordinator = "runs" => thread.supervisor = "wifi join"
    /\ thread.service = "runs" => thread.supervisor = "loop"

\* The inductive invariant of the start.
BootInv == BootTypeOK /\ MainIsFirst /\ AppMainIsFirst /\ ServiceStackIsLent

\* A stage or an error of the boot status is a number.
LEMMA StatusTyped ==
    ASSUME boot \in BootStatus, NEW n \in Nat, Staged(n) \/ Failed(n)
    PROVE  boot' \in BootStatus
BY DEF BootStatus, Staged, Failed

\* PROCPU's main thread.
LEMMA MainKeepsBoot == BootInv /\ MainNext => BootInv'
<1> SUFFICES ASSUME BootInv, MainNext PROVE BootInv'
  OBVIOUS
<1>1. CASE StartsControl
  BY <1>1 DEF StartsControl, BootInv, BootTypeOK, MainIsFirst, AppMainIsFirst,
     ServiceStackIsLent, MainPlace, SupervisorPlace, Goes
<1>2. CASE PreparesDisplay
  <2>1. boot' \in BootStatus
    BY <1>2, StatusTyped DEF PreparesDisplay, BootInv, BootTypeOK
  <2>2. BootTypeOK'
    BY <1>2, <2>1 DEF PreparesDisplay, BootInv, BootTypeOK, MainPlace, SupervisorPlace, Goes
  <2>3. MainIsFirst' /\ ServiceStackIsLent'
    BY <1>2 DEF PreparesDisplay, BootInv, BootTypeOK, MainIsFirst, ServiceStackIsLent, Goes
  <2>4. AppMainIsFirst'
    BY <1>2 DEF PreparesDisplay, BootInv, BootTypeOK, MainIsFirst, AppMainIsFirst, Goes
  <2> QED
    BY <2>2, <2>3, <2>4 DEF BootInv
<1>3. CASE StartsAppcpu
  <2>1. boot' \in BootStatus
    BY <1>3, StatusTyped DEF StartsAppcpu, BootInv, BootTypeOK
  <2>2. BootTypeOK'
    BY <1>3, <2>1 DEF StartsAppcpu, BootInv, BootTypeOK, MainPlace, SupervisorPlace, Goes
  <2>3. MainIsFirst' /\ ServiceStackIsLent'
    BY <1>3 DEF StartsAppcpu, BootInv, BootTypeOK, MainIsFirst, ServiceStackIsLent, Goes
  <2>4. AppMainIsFirst'
    BY <1>3 DEF StartsAppcpu, BootInv, BootTypeOK, MainIsFirst, AppMainIsFirst, Goes
  <2> QED
    BY <2>2, <2>3, <2>4 DEF BootInv
<1>4. CASE AwaitsRenderer
  <2>1. boot' \in BootStatus
    BY <1>4, StatusTyped DEF AwaitsRenderer, BootInv, BootTypeOK
  <2>2. BootTypeOK'
    BY <1>4, <2>1 DEF AwaitsRenderer, BootInv, BootTypeOK, MainPlace, SupervisorPlace, Goes
  <2>3. MainIsFirst' /\ ServiceStackIsLent'
    BY <1>4 DEF AwaitsRenderer, BootInv, BootTypeOK, MainIsFirst, ServiceStackIsLent, Goes
  <2>4. AppMainIsFirst'
    BY <1>4 DEF AwaitsRenderer, BootInv, BootTypeOK, MainIsFirst, AppMainIsFirst, Goes
  <2> QED
    BY <2>2, <2>3, <2>4 DEF BootInv
<1>5. CASE StartsSupervisor
  BY <1>5 DEF StartsSupervisor, BootInv, BootTypeOK, MainIsFirst, AppMainIsFirst,
     ServiceStackIsLent, MainPlace, SupervisorPlace, Goes
<1>6. CASE MainReturns
  BY <1>6 DEF MainReturns, BootInv, BootTypeOK, MainIsFirst, AppMainIsFirst,
     ServiceStackIsLent, MainPlace, SupervisorPlace, Goes
<1> QED
  BY <1>1, <1>2, <1>3, <1>4, <1>5, <1>6 DEF MainNext

\* APPCPU's main and renderer threads.
LEMMA AppcpuKeepsBoot == BootInv /\ AppcpuNext => BootInv'
<1> SUFFICES ASSUME BootInv, AppcpuNext PROVE BootInv'
  OBVIOUS
<1>1. CASE AppInitializes
  <2>1. BootTypeOK'
    BY <1>1 DEF AppInitializes, BootInv, BootTypeOK, MainPlace, SupervisorPlace, Goes
  <2>2. MainIsFirst' /\ ServiceStackIsLent'
    BY <1>1 DEF AppInitializes, BootInv, BootTypeOK, MainIsFirst, ServiceStackIsLent, Goes
  <2>3. AppMainIsFirst'
    BY <1>1 DEF AppInitializes, BootInv, BootTypeOK, MainIsFirst, AppMainIsFirst, Goes
  <2> QED
    BY <2>1, <2>2, <2>3 DEF BootInv
<1>2. CASE AppDevices
  BY <1>2 DEF AppDevices, BootInv, BootTypeOK, MainIsFirst, AppMainIsFirst,
     ServiceStackIsLent, MainPlace, SupervisorPlace, Goes
<1>3. CASE AppThreads
  BY <1>3 DEF AppThreads, BootInv, BootTypeOK, MainIsFirst, AppMainIsFirst,
     ServiceStackIsLent, MainPlace, SupervisorPlace, Goes
<1>4. CASE AppMainReturns
  BY <1>4 DEF AppMainReturns, BootInv, BootTypeOK, MainIsFirst, AppMainIsFirst,
     ServiceStackIsLent, MainPlace, SupervisorPlace, Goes
<1>5. CASE RendererClears
  <2>1. BootTypeOK'
    BY <1>5 DEF RendererClears, MainIsDead, Region, BootInv, BootTypeOK, MainPlace,
       SupervisorPlace, Goes
  <2>2. MainIsFirst' /\ ServiceStackIsLent'
    BY <1>5 DEF RendererClears, MainIsDead, Region, BootInv, BootTypeOK, MainIsFirst,
       ServiceStackIsLent, Goes
  <2>3. AppMainIsFirst'
    BY <1>5 DEF RendererClears, MainIsDead, Region, BootInv, BootTypeOK, MainIsFirst,
       AppMainIsFirst, Goes
  <2> QED
    BY <2>1, <2>2, <2>3 DEF BootInv
<1>6. CASE RendererHandsOver
  BY <1>6 DEF RendererHandsOver, BootInv, BootTypeOK, MainIsFirst, AppMainIsFirst,
     ServiceStackIsLent, MainPlace, SupervisorPlace, Goes
<1> QED
  BY <1>1, <1>2, <1>3, <1>4, <1>5, <1>6 DEF AppcpuNext

\* The supervisor and the Wi-Fi coordinator.
LEMMA SupervisorKeepsBoot == BootInv /\ (SupervisorNext \/ CoordinatorEnds) => BootInv'
<1> SUFFICES ASSUME BootInv, SupervisorNext \/ CoordinatorEnds PROVE BootInv'
  OBVIOUS
<1>1. CASE JoinsMain
  <2>1. boot' \in BootStatus
    BY <1>1, StatusTyped DEF JoinsMain, BootInv, BootTypeOK
  <2>2. BootTypeOK'
    BY <1>1, <2>1 DEF JoinsMain, Joined, Region, BootInv, BootTypeOK, MainPlace,
       SupervisorPlace, Goes
  <2>3. MainIsFirst' /\ ServiceStackIsLent'
    BY <1>1 DEF JoinsMain, Joined, Region, BootInv, BootTypeOK, MainIsFirst,
       ServiceStackIsLent, Goes
  <2>4. AppMainIsFirst'
    BY <1>1 DEF JoinsMain, Joined, Region, BootInv, BootTypeOK, MainIsFirst, AppMainIsFirst,
       Goes
  <2> QED
    BY <2>2, <2>3, <2>4 DEF BootInv
<1>2. CASE AwaitsHandoff
  <2>1. boot' \in BootStatus
    BY <1>2, StatusTyped DEF AwaitsHandoff, BootInv, BootTypeOK
  <2>2. BootTypeOK'
    BY <1>2, <2>1 DEF AwaitsHandoff, BootInv, BootTypeOK, MainPlace, SupervisorPlace, Goes
  <2>3. MainIsFirst' /\ ServiceStackIsLent'
    BY <1>2 DEF AwaitsHandoff, BootInv, BootTypeOK, MainIsFirst, ServiceStackIsLent, Goes
  <2>4. AppMainIsFirst'
    BY <1>2 DEF AwaitsHandoff, BootInv, BootTypeOK, MainIsFirst, AppMainIsFirst, Goes
  <2> QED
    BY <2>2, <2>3, <2>4 DEF BootInv
<1>3. CASE AddsRegions
  <2>1. boot' \in BootStatus
    BY <1>3, StatusTyped DEF AddsRegions, BootInv, BootTypeOK
  <2>2. BootTypeOK'
    BY <1>3, <2>1 DEF AddsRegions, BootInv, BootTypeOK, MainPlace, SupervisorPlace, Goes
  <2>3. MainIsFirst' /\ ServiceStackIsLent'
    BY <1>3 DEF AddsRegions, BootInv, BootTypeOK, MainIsFirst, ServiceStackIsLent, Goes
  <2>4. AppMainIsFirst'
    BY <1>3 DEF AddsRegions, BootInv, BootTypeOK, MainIsFirst, AppMainIsFirst, Goes
  <2> QED
    BY <2>2, <2>3, <2>4 DEF BootInv
<1>4. CASE StartsCoordinator
  <2>1. boot' \in BootStatus
    BY <1>4, StatusTyped DEF StartsCoordinator, BootInv, BootTypeOK
  <2>2. BootTypeOK'
    BY <1>4, <2>1 DEF StartsCoordinator, BootInv, BootTypeOK, MainPlace, SupervisorPlace,
       Goes
  <2>3. MainIsFirst' /\ ServiceStackIsLent'
    BY <1>4 DEF StartsCoordinator, BootInv, BootTypeOK, MainIsFirst, ServiceStackIsLent,
       Goes
  <2>4. AppMainIsFirst'
    BY <1>4 DEF StartsCoordinator, BootInv, BootTypeOK, MainIsFirst, AppMainIsFirst, Goes
  <2> QED
    BY <2>2, <2>3, <2>4 DEF BootInv
<1>5. CASE JoinsCoordinator
  <2>1. boot' \in BootStatus
    BY <1>5, StatusTyped DEF JoinsCoordinator, BootInv, BootTypeOK
  <2>2. BootTypeOK'
    <3>1. PICK to \in {"ended", "service"} : Goes("supervisor", to)
      BY <1>5 DEF JoinsCoordinator
    <3>2. shared' = shared /\ heap' = heap
      BY <1>5 DEF JoinsCoordinator
    <3> QED
      BY <2>1, <3>1, <3>2 DEF BootInv, BootTypeOK, SupervisorPlace, Goes
  <2>3. MainIsFirst' /\ ServiceStackIsLent'
    BY <1>5 DEF JoinsCoordinator, CoordinatorIsDone, BootInv, BootTypeOK, MainIsFirst,
       ServiceStackIsLent, Goes
  <2>4. AppMainIsFirst'
    BY <1>5 DEF JoinsCoordinator, CoordinatorIsDone, BootInv, BootTypeOK, MainIsFirst,
       AppMainIsFirst, Goes
  <2> QED
    BY <2>2, <2>3, <2>4 DEF BootInv
<1>6. CASE StartsService
  <2>1. boot' \in BootStatus
    BY <1>6, StatusTyped DEF StartsService, BootInv, BootTypeOK
  <2>2. BootTypeOK'
    BY <1>6, <2>1 DEF StartsService, BootInv, BootTypeOK, MainPlace, SupervisorPlace, Goes
  <2>3. MainIsFirst' /\ ServiceStackIsLent'
    BY <1>6 DEF StartsService, BootInv, BootTypeOK, MainIsFirst, ServiceStackIsLent, Goes
  <2>4. AppMainIsFirst'
    BY <1>6 DEF StartsService, BootInv, BootTypeOK, MainIsFirst, AppMainIsFirst, Goes
  <2> QED
    BY <2>2, <2>3, <2>4 DEF BootInv
<1>7. CASE SupervisorLoops
  BY <1>7, StatusTyped DEF SupervisorLoops, BootInv, BootTypeOK, MainIsFirst,
     AppMainIsFirst, ServiceStackIsLent, MainPlace, SupervisorPlace, Goes
<1>8. CASE CoordinatorEnds
  BY <1>8 DEF CoordinatorEnds, BootInv, BootTypeOK, MainIsFirst, AppMainIsFirst,
     ServiceStackIsLent, MainPlace, SupervisorPlace, Goes
<1> QED
  BY <1>1, <1>2, <1>3, <1>4, <1>5, <1>6, <1>7, <1>8 DEF SupervisorNext

\* The order in which the two processors bring each other up
\* (deskkin_amp_supervisor_main, initialize_runtime_sram, renderer_entry).
THEOREM BootInvariance == BootSpec => []BootInv
<1>1. BootInit => BootInv
  BY DEF BootInit, BootInv, BootTypeOK, MainIsFirst, AppMainIsFirst, ServiceStackIsLent,
         MainPlace, SupervisorPlace, BootStatus
<1>2. BootInv /\ [BootNext]_bootVars => BootInv'
  <2>1. ASSUME BootInv, UNCHANGED bootVars PROVE BootInv'
    <3>1. thread' = thread /\ shared' = shared /\ heap' = heap /\ boot' = boot
      BY <2>1 DEF bootVars
    <3>2. BootTypeOK'
      BY <2>1, <3>1 DEF BootInv, BootTypeOK
    <3> QED
      BY <2>1, <3>1, <3>2 DEF BootInv, MainIsFirst, AppMainIsFirst, ServiceStackIsLent
  <2> QED
    BY <2>1, MainKeepsBoot, AppcpuKeepsBoot, SupervisorKeepsBoot DEF BootNext
<1> QED
  BY <1>1, <1>2, PTL DEF BootSpec

\* OwnersDoNotOverlap: a stack is given to the heap only when its thread is dead, and
\* the Wi-Fi coordinator and the service never share theirs.
THEOREM StacksHaveDeadOwners == BootSpec => []OwnersDoNotOverlap
<1>1. BootInv => OwnersDoNotOverlap
  BY DEF BootInv, MainIsFirst, AppMainIsFirst, ServiceStackIsLent, OwnersDoNotOverlap
<1> QED
  BY <1>1, BootInvariance, PTL
=============================================================================
