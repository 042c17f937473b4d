------------------------ MODULE SpeechProvidersProofs ------------------------
(***************************************************************************)
(* Theorems about SpeechProviders for any bounds: every segment of the     *)
(* streaming recognizer has one FINAL transcript of its own audio, no      *)
(* utterance is lost silently, and what is spoken is one reading of it.    *)
(* The stream keeps the fields of the segment it is in, so the proofs      *)
(* stand on what the detector's queue may hold: a segment never begins     *)
(* before the one under way has ended.                                     *)
(***************************************************************************)
EXTENDS SpeechProviders, SequenceTheorems, FiniteSetTheorems, WellFoundedInduction, TLAPS

USE SegmentsAssumption DEF SegmentsAssumption

Closers == {"stop", "exhausted"}
Events == {"start", "window"} \cup Closers

(* The types the proofs need: the number of segments and the length of the *)
(* queue are of no interest here.                                          *)
Typed ==
  /\ speaking \in BOOLEAN /\ finalOut \in BOOLEAN
  /\ queue \in Seq(Events)
  /\ task \in {"waiting", "dialing", "onset", "flushing", "closing", "over"}
  /\ seg \in Nat
  /\ socket \in {"none", "up", "lost"}
  /\ said \in [Segments -> Seq(Nat)]

(* After every start in the queue comes a closer before the next one; and  *)
(* at the end too, when the detector hears nobody.                         *)
Alternating(q) ==
  \A i, j \in 1 .. Len(q) : i < j /\ q[i] = "start" /\ q[j] = "start" =>
    \E k \in i .. j : q[k] \in Closers
ClosedOff(q) ==
  \A i \in 1 .. Len(q) : q[i] = "start" => \E k \in i .. Len(q) : q[k] \in Closers
(* Before every start comes a closer.                                      *)
ClosesFirst(q) ==
  \A j \in 1 .. Len(q) : q[j] = "start" => \E k \in 1 .. j : q[k] \in Closers
Closes(q) == \E k \in 1 .. Len(q) : q[k] \in Closers

(* The task and the event it works on.                                     *)
AtHead ==
  /\ task \in {"dialing", "onset"} => queue # <<>> /\ queue[1] = "start"
  /\ task = "flushing" => queue # <<>> /\ queue[1] \in Closers
  /\ task = "closing" => queue # <<>>

(* A session that is open between two events is ended before the next one  *)
(* begins.                                                                 *)
Under == socket # "none" /\ task = "waiting"
Queued ==
  /\ Alternating(queue)
  /\ ~speaking => ClosedOff(queue)
  /\ Under => ClosesFirst(queue)
  /\ Under /\ ~speaking => Closes(queue)

(* The session and its receive loop belong to the segment the stream is    *)
(* in, and so does the interim.                                            *)
Session ==
  /\ socket = "none" => loops = {}
  /\ loops \subseteq {seg}
  /\ task \in {"dialing", "closing"} => socket = "none"
  /\ task \in {"onset", "flushing"} => socket # "none"
  /\ interim \in {Silence, seg}

(* _final_emitted is about the segment the stream is in.                   *)
Finals ==
  /\ \A s \in Segments : s > seg => said[s] = <<>>
  /\ seg \in Segments => (finalOut <=> said[seg] # <<>>)

StreamInv == Typed /\ AtHead /\ Queued /\ Session /\ Finals /\ OneFinalOfItsOwn /\ FinalUnlessDropped

(* Gemini Live is left for good with the first utterance.                  *)
FirstOnly ==
  /\ turn \in Nat
  /\ Override /\ turn > 0 => usedUp

(* Nothing of this attempt is in the channel unless it was counted.        *)
Counted ==
  /\ attempt \in Nat /\ pushed \in Nat
  /\ takes \subseteq {attempt}
  /\ pushed = 0 => takes = {}
  /\ phase \in {"idle", "dialing"} => pushed = 0

-----------------------------------------------------------------------------
(* The queue grows at its end and is handled at its head.                  *)
LEMMA Appended ==
  ASSUME NEW q \in Seq(Events), NEW e \in Events, NEW r, r = Append(q, e)
  PROVE  /\ r \in Seq(Events) /\ Len(r) = Len(q) + 1 /\ r[Len(r)] = e
         /\ \A i \in 1 .. Len(q) : r[i] = q[i]
OBVIOUS

LEMMA GrownAlternates ==
  ASSUME NEW q \in Seq(Events), NEW e \in Events, NEW r, r = Append(q, e),
         Alternating(q), e # "start" \/ ClosedOff(q)
  PROVE  Alternating(r)
<1> SUFFICES ASSUME NEW i \in 1 .. Len(r), NEW j \in 1 .. Len(r),
                    i < j, r[i] = "start", r[j] = "start"
             PROVE  \E k \in i .. j : r[k] \in Closers
  BY DEF Alternating
<1>1. Len(q) \in Nat /\ i \in 1 .. Len(q)
  BY Appended
<1>2. CASE j \in 1 .. Len(q)
  <2>1. PICK k \in i .. j : q[k] \in Closers
    BY Appended, <1>1, <1>2 DEF Alternating
  <2>. QED BY Appended, <1>1, <1>2, <2>1
<1>3. CASE j = Len(q) + 1
  <2>1. PICK k \in i .. Len(q) : q[k] \in Closers
    BY Appended, <1>1, <1>3 DEF ClosedOff
  <2>. QED BY Appended, <1>1, <1>3, <2>1
<1>. QED BY Appended, <1>1, <1>2, <1>3

LEMMA GrownClosedOff ==
  ASSUME NEW q \in Seq(Events), NEW e \in Closers, NEW r, r = Append(q, e)
  PROVE  ClosedOff(r) /\ Closes(r)
BY Appended DEF ClosedOff, Closes, Events, Closers

LEMMA GrownClosesFirst ==
  ASSUME NEW q \in Seq(Events), NEW e \in Events, NEW r, r = Append(q, e),
         ClosesFirst(q), e # "start" \/ Closes(q)
  PROVE  ClosesFirst(r)
<1> SUFFICES ASSUME NEW j \in 1 .. Len(r), r[j] = "start"
             PROVE  \E k \in 1 .. j : r[k] \in Closers
  BY DEF ClosesFirst
<1>1. Len(q) \in Nat
  OBVIOUS
<1>2. CASE j \in 1 .. Len(q)
  <2>1. PICK k \in 1 .. j : q[k] \in Closers
    BY Appended, <1>2 DEF ClosesFirst
  <2>. QED BY Appended, <1>1, <1>2, <2>1
<1>3. CASE j = Len(q) + 1
  <2>1. PICK k \in 1 .. Len(q) : q[k] \in Closers
    BY Appended, <1>1, <1>3 DEF Closes
  <2>. QED BY Appended, <1>1, <1>3, <2>1
<1>. QED BY Appended, <1>1, <1>2, <1>3

LEMMA Handed ==
  ASSUME NEW q \in Seq(Events), q # <<>>, NEW r, r = Tail(q)
  PROVE  /\ r \in Seq(Events) /\ Len(q) \in Nat \ {0} /\ Len(r) = Len(q) - 1
         /\ \A i \in 1 .. Len(r) : r[i] = q[i + 1]
         /\ Head(q) = q[1] /\ q[1] \in Events
OBVIOUS

LEMMA ShrunkAlternates ==
  ASSUME NEW q \in Seq(Events), q # <<>>, NEW r, r = Tail(q), Alternating(q)
  PROVE  Alternating(r)
<1> SUFFICES ASSUME NEW i \in 1 .. Len(r), NEW j \in 1 .. Len(r),
                    i < j, r[i] = "start", r[j] = "start"
             PROVE  \E k \in i .. j : r[k] \in Closers
  BY DEF Alternating
<1>1. PICK k \in i + 1 .. j + 1 : q[k] \in Closers
  BY Handed DEF Alternating
<1>2. k - 1 \in i .. j /\ r[k - 1] = q[k]
  BY Handed
<1>. QED BY <1>1, <1>2

LEMMA ShrunkClosedOff ==
  ASSUME NEW q \in Seq(Events), q # <<>>, NEW r, r = Tail(q), ClosedOff(q)
  PROVE  ClosedOff(r)
<1> SUFFICES ASSUME NEW i \in 1 .. Len(r), r[i] = "start"
             PROVE  \E k \in i .. Len(r) : r[k] \in Closers
  BY DEF ClosedOff
<1>1. PICK k \in i + 1 .. Len(q) : q[k] \in Closers
  BY Handed DEF ClosedOff
<1>2. k - 1 \in i .. Len(r) /\ r[k - 1] = q[k]
  BY Handed
<1>. QED BY <1>1, <1>2

LEMMA ShrunkClosesFirst ==
  ASSUME NEW q \in Seq(Events), q # <<>>, NEW r, r = Tail(q),
         \/ ClosesFirst(q) /\ q[1] \notin Closers
         \/ Alternating(q) /\ q[1] = "start"
  PROVE  ClosesFirst(r)
<1> SUFFICES ASSUME NEW j \in 1 .. Len(r), r[j] = "start"
             PROVE  \E k \in 1 .. j : r[k] \in Closers
  BY DEF ClosesFirst
<1>1. q[1] \notin Closers
  BY DEF Closers
<1>2. PICK k \in 1 .. j + 1 : q[k] \in Closers
  <2>1. CASE ClosesFirst(q)
    BY <2>1, Handed DEF ClosesFirst
  <2>2. CASE Alternating(q) /\ q[1] = "start"
    BY <2>2, Handed DEF Alternating
  <2>. QED BY <2>1, <2>2
<1>3. k - 1 \in 1 .. j /\ r[k - 1] = q[k]
  BY <1>1, <1>2, Handed
<1>. QED BY <1>2, <1>3

LEMMA ShrunkCloses ==
  ASSUME NEW q \in Seq(Events), q # <<>>, NEW r, r = Tail(q),
         \/ Closes(q) /\ q[1] \notin Closers
         \/ ClosedOff(q) /\ q[1] = "start"
  PROVE  Closes(r)
<1>1. q[1] \notin Closers
  BY DEF Closers
<1>2. PICK k \in 1 .. Len(q) : q[k] \in Closers
  <2>1. CASE Closes(q)
    BY <2>1 DEF Closes
  <2>2. CASE ClosedOff(q) /\ q[1] = "start"
    BY <2>2, Handed DEF ClosedOff
  <2>. QED BY <2>1, <2>2
<1>3. k - 1 \in 1 .. Len(r) /\ r[k - 1] = q[k]
  BY <1>1, <1>2, Handed
<1>. QED BY <1>2, <1>3 DEF Closes

-----------------------------------------------------------------------------
(* The streaming recognizer.                                               *)
LEMMA StreamSteps == [Next]_vars => SttNext \/ UNCHANGED sttVars
BY DEF Next, vars, Listen, Speak, ListenByRequest, SpeakByRequest, BargeIn, Requesting

LEMMA InitStream == Init => StreamInv
<1> SUFFICES ASSUME SttInit PROVE StreamInv
  BY DEF Init
<1>1. Typed /\ AtHead /\ Session /\ Finals
  <2>1. <<>> \in Seq(Events) /\ <<>> \in Seq(Nat)
    OBVIOUS
  <2>2. Typed
    BY <2>1 DEF SttInit, Typed
  <2>. QED BY <2>2 DEF SttInit, AtHead, Session, Finals, Silence, Segments
<1>2. Queued
  BY DEF SttInit, Queued, Alternating, ClosedOff, Under
<1>3. OneFinalOfItsOwn /\ FinalUnlessDropped
  BY DEF SttInit, OneFinalOfItsOwn, FinalUnlessDropped, Left, Segments
<1>. QED BY <1>1, <1>2, <1>3 DEF StreamInv

(* What Handled leaves of the queue.                                       *)
LEMMA HandledTyped ==
  ASSUME Typed, queue # <<>>, Handled
  PROVE  /\ queue' \in Seq(Events) /\ task' \in {"waiting", "over"}
         /\ queue[1] = "start" => task' = "waiting"
BY Handed DEF Typed, Handled

LEMMA FinalTyped ==
  ASSUME Typed, NEW text \in Nat, EmitFinal(text)
  PROVE  finalOut' = TRUE /\ said' \in [Segments -> Seq(Nat)]
<1>1. PICK f \in [Segments -> Seq(Nat)], n \in Nat : f = said /\ n = seg
  BY DEF Typed
<1>2. said' = IF finalOut THEN f ELSE [f EXCEPT ![n] = Append(@, text)]
  BY <1>1 DEF EmitFinal
<1>3. n \in Segments => Append(f[n], text) \in Seq(Nat)
  OBVIOUS
<1>4. [f EXCEPT ![n] = Append(@, text)] \in [Segments -> Seq(Nat)]
  BY <1>3
<1>. QED BY <1>2, <1>4 DEF EmitFinal

LEMMA TypedStep == StreamInv /\ SttNext => Typed'
<1> SUFFICES ASSUME StreamInv, SttNext PROVE Typed'
  OBVIOUS
<1>. USE DEF StreamInv
<1>1. ASSUME NEW e \in Events, NEW b \in BOOLEAN, Detect(e, b) PROVE Typed'
  BY <1>1 DEF Detect, Typed
<1>2. CASE Detector
  BY <1>1, <1>2 DEF Detector, DetectStart, DetectWindow, DetectStop, EndInput, Events, Closers
<1>3. CASE BeginSegment \/ Connected \/ SendFails \/ EndSegment
  <2>4. seg' \in Nat
    BY <1>3 DEF BeginSegment, Connected, SendFails, EndSegment, Typed
  <2>5. finalOut' \in BOOLEAN
    BY <1>3 DEF BeginSegment, Connected, SendFails, EndSegment, Typed
  <2>1. UNCHANGED <<speaking, queue, said>>
    BY <1>3 DEF BeginSegment, Connected, SendFails, EndSegment
  <2>2. task' \in {"dialing", "onset", "closing", "flushing"} /\ socket' \in {"none", "up", "lost"}
    BY <1>3 DEF BeginSegment, Connected, SendFails, EndSegment, Typed
  <2>. QED BY <2>1, <2>2, <2>4, <2>5 DEF Typed
<1>4. CASE ConnectFails
  BY <1>4, HandledTyped, FinalTyped DEF ConnectFails, AtHead, Typed, Silence
<1>5. CASE SendFrames \/ NothingToEnd \/ Closed
  <2>1. queue # <<>> /\ Handled
    BY <1>5 DEF SendFrames, NothingToEnd, Closed, Sending, Due, AtHead
  <2>. QED BY <1>5, <2>1, HandledTyped DEF SendFrames, NothingToEnd, Closed, Typed
<1>6. CASE FinishSegment
  BY <1>6, FinalTyped DEF FinishSegment, Session, Typed, Silence
<1>7. CASE \E s \in Segments : ReceiveInterim(s)
  BY <1>7 DEF ReceiveInterim, Typed
<1>8. ASSUME NEW s \in Segments, ReceiveFinal(s) PROVE Typed'
  <2>1. PICK text \in Nat : EmitFinal(text)
    BY <1>8 DEF ReceiveFinal, Session, Typed, Segments, Silence
  <2>. QED BY <1>8, <2>1, FinalTyped DEF ReceiveFinal, Typed
<1>9. CASE \E s \in Segments : ReceiveEnds(s)
  BY <1>9 DEF ReceiveEnds, Typed
<1>10. CASE SocketLost \/ TearDown
  <2>1. <<>> \in Seq(Events) /\ (queue' = <<>> \/ queue' = queue)
    BY <1>10 DEF SocketLost, TearDown
  <2>2. speaking' = FALSE \/ speaking' = speaking
    BY <1>10 DEF SocketLost, TearDown
  <2>. QED BY <1>10, <2>1, <2>2 DEF SocketLost, TearDown, Typed
<1>. QED BY <1>2, <1>3, <1>4, <1>5, <1>6, <1>7, <1>8, <1>9, <1>10 DEF SttNext, Task, Loops

LEMMA AtHeadStep == StreamInv /\ SttNext => AtHead'
<1> SUFFICES ASSUME StreamInv, SttNext PROVE AtHead'
  OBVIOUS
<1>. USE DEF StreamInv
<1>1. ASSUME NEW e \in Events, NEW b \in BOOLEAN, Detect(e, b) PROVE AtHead'
  <2>1. Len(queue) \in Nat /\ (queue # <<>> => 1 \in 1 .. Len(queue))
    BY DEF Typed
  <2>. QED BY <1>1, <2>1, Appended DEF Detect, Typed, AtHead
<1>2. CASE Detector
  BY <1>1, <1>2 DEF Detector, DetectStart, DetectWindow, DetectStop, EndInput, Events, Closers
<1>3. CASE BeginSegment
  BY <1>3, Handed DEF BeginSegment, Due, AtHead, Typed
<1>4. CASE Connected \/ SendFails
  BY <1>4 DEF Connected, SendFails, Sending, Due, AtHead
<1>5. CASE EndSegment
  BY <1>5, Handed DEF EndSegment, Due, AtHead, Typed, Closers
<1>6. CASE ConnectFails \/ SendFrames \/ NothingToEnd \/ Closed
  <2>1. Handled
    BY <1>6 DEF ConnectFails, SendFrames, NothingToEnd, Closed
  <2>. QED BY <2>1 DEF Handled, AtHead
<1>7. CASE FinishSegment
  BY <1>7 DEF FinishSegment, AtHead
<1>8. CASE Loops \/ SocketLost \/ TearDown
  BY <1>8 DEF Loops, ReceiveInterim, ReceiveFinal, ReceiveEnds, SocketLost, TearDown, AtHead
<1>. QED BY <1>2, <1>3, <1>4, <1>5, <1>6, <1>7, <1>8 DEF SttNext, Task

LEMMA SessionStep == StreamInv /\ SttNext => Session'
<1> SUFFICES ASSUME StreamInv, SttNext PROVE Session'
  OBVIOUS
<1>. USE DEF StreamInv
<1>1. CASE Detector
  BY <1>1 DEF Detector, DetectStart, DetectWindow, DetectStop, EndInput, Detect, Session
<1>2. CASE BeginSegment
  <2>1. socket = "none"
    <3>1. Head(queue) = queue[1] /\ Len(queue) \in Nat \ {0}
      BY <1>2, Handed DEF BeginSegment, Due, Typed
    <3>2. ~ClosesFirst(queue)
      BY <1>2, <3>1 DEF BeginSegment, Due, ClosesFirst, Closers
    <3>. QED BY <1>2, <3>2 DEF BeginSegment, Due, Queued, Under
  <2>. QED BY <1>2, <2>1 DEF BeginSegment, Session
<1>3. CASE Connected \/ SendFails \/ EndSegment
  BY <1>3 DEF Connected, SendFails, EndSegment, Due, Sending, Session
<1>4. CASE ConnectFails \/ SendFrames \/ NothingToEnd \/ Closed
  <2>1. task' \in {"waiting", "over"}
    BY <1>4 DEF ConnectFails, SendFrames, NothingToEnd, Closed, Handled
  <2>. QED BY <1>4, <2>1 DEF ConnectFails, SendFrames, NothingToEnd, Closed, Session
<1>5. CASE FinishSegment \/ TearDown \/ SocketLost
  BY <1>5 DEF FinishSegment, TearDown, SocketLost, Session
<1>6. CASE Loops
  BY <1>6 DEF Loops, ReceiveInterim, ReceiveFinal, ReceiveEnds, Session
<1>. QED BY <1>1, <1>2, <1>3, <1>4, <1>5, <1>6 DEF SttNext, Task

LEMMA QueuedStep == StreamInv /\ SttNext => Queued'
<1> SUFFICES ASSUME StreamInv, SttNext PROVE Queued'
  OBVIOUS
<1>. USE DEF StreamInv
<1>1. queue \in Seq(Events)
  BY DEF Typed
<1>2. CASE DetectStart
  <2>1. queue' = Append(queue, "start") /\ speaking' = TRUE /\ ~speaking /\ Under' = Under
    BY <1>2 DEF DetectStart, Detect, Under
  <2>2. Alternating(queue')
    BY <1>1, <2>1, GrownAlternates DEF Queued, Events
  <2>3. Under => ClosesFirst(queue')
    BY <1>1, <2>1, GrownClosesFirst DEF Queued, Events
  <2>. QED BY <2>1, <2>2, <2>3 DEF Queued
<1>3. CASE DetectWindow
  <2>1. queue' = Append(queue, "window") /\ speaking' = TRUE /\ Under' = Under
    BY <1>3 DEF DetectWindow, Detect, Under
  <2>2. Alternating(queue')
    BY <1>1, <2>1, GrownAlternates DEF Queued, Events
  <2>3. Under => ClosesFirst(queue')
    BY <1>1, <2>1, GrownClosesFirst DEF Queued, Events
  <2>. QED BY <2>1, <2>2, <2>3 DEF Queued
<1>4. ASSUME NEW e \in Closers, Detect(e, FALSE) PROVE Queued'
  <2>1. queue' = Append(queue, e) /\ Under' = Under /\ e \in Events /\ e # "start"
    BY <1>4 DEF Detect, Under, Events, Closers
  <2>2. Alternating(queue')
    BY <1>1, <2>1, GrownAlternates DEF Queued
  <2>3. Under => ClosesFirst(queue')
    BY <1>1, <2>1, GrownClosesFirst DEF Queued
  <2>4. ClosedOff(queue') /\ Closes(queue')
    BY <1>1, <2>1, GrownClosedOff
  <2>. QED BY <2>1, <2>2, <2>3, <2>4 DEF Queued
<1>5. CASE Detector
  BY <1>2, <1>3, <1>4, <1>5 DEF Detector, DetectStop, EndInput, Closers
<1>6. CASE BeginSegment \/ Connected \/ SendFails \/ EndSegment \/ FinishSegment
  BY <1>6 DEF BeginSegment, Connected, SendFails, EndSegment, FinishSegment, Queued, Under
<1>7. CASE ConnectFails \/ SendFrames \/ NothingToEnd \/ Closed
  <2>1. Handled /\ speaking' = speaking /\ queue # <<>> /\ queue' = Tail(queue) /\ socket' = socket
    BY <1>7 DEF ConnectFails, SendFrames, NothingToEnd, Closed, Handled, Sending, Due, AtHead
  <2>2. Alternating(queue') /\ (~speaking' => ClosedOff(queue'))
    BY <1>1, <2>1, ShrunkAlternates, ShrunkClosedOff DEF Queued
  <2>3. CASE socket = "none"
    BY <2>1, <2>2, <2>3 DEF Queued, Under
  <2>4. CASE socket # "none" /\ task = "onset"
    <3>1. queue[1] = "start"
      BY <2>4 DEF AtHead
    <3>2. ClosesFirst(queue')
      BY <1>1, <2>1, <3>1, ShrunkClosesFirst DEF Queued
    <3>3. ~speaking => Closes(queue')
      BY <1>1, <2>1, <3>1, ShrunkCloses DEF Queued
    <3>. QED BY <2>1, <2>2, <3>2, <3>3 DEF Queued
  <2>5. CASE socket # "none" /\ SendFrames /\ Due("window")
    <3>1. Under /\ queue[1] \notin Closers
      BY <1>1, <2>1, <2>5, Handed DEF Under, Due, Closers
    <3>2. ClosesFirst(queue')
      BY <1>1, <2>1, <3>1, ShrunkClosesFirst DEF Queued
    <3>3. ~speaking => Closes(queue')
      BY <1>1, <2>1, <3>1, ShrunkCloses DEF Queued
    <3>. QED BY <2>1, <2>2, <3>2, <3>3 DEF Queued
  <2>. QED
    BY <1>7, <2>3, <2>4, <2>5 DEF ConnectFails, SendFrames, NothingToEnd, Closed, Sending, Session
<1>8. CASE Loops \/ SocketLost
  <2>1. UNCHANGED <<queue, speaking, task>> /\ (socket' # "none" => socket # "none")
    BY <1>8 DEF Loops, ReceiveInterim, ReceiveFinal, ReceiveEnds, SocketLost
  <2>. QED BY <2>1 DEF Queued, Under
<1>9. CASE TearDown
  <2>1. queue' = <<>> /\ ~Under'
    BY <1>9 DEF TearDown, Under
  <2>. QED BY <2>1 DEF Queued, Alternating, ClosedOff
<1>. QED BY <1>5, <1>6, <1>7, <1>8, <1>9 DEF SttNext, Task

(* What an emitted final leaves of the transcripts.                        *)
LEMMA Emitted ==
  ASSUME Typed, Session, Finals, OneFinalOfItsOwn, NEW text \in {Silence, seg}, EmitFinal(text)
  PROVE  /\ finalOut' = TRUE
         /\ \A s \in Segments : s # seg => said'[s] = said[s]
         /\ seg \in Segments => said'[seg] # <<>>
         /\ OneFinalOfItsOwn'
<1>1. PICK f \in [Segments -> Seq(Nat)], n \in Nat : f = said /\ n = seg
  BY DEF Typed
<1>2. said' = f \/ said' = [f EXCEPT ![n] = Append(f[n], text)]
  <2>1. CASE finalOut
    BY <1>1, <2>1 DEF EmitFinal
  <2>2. CASE ~finalOut
    BY <1>1, <2>2 DEF EmitFinal
  <2>. QED BY <2>1, <2>2
<1>3. \A s \in Segments : s # seg => said'[s] = f[s]
  BY <1>1, <1>2
<1>4. n \in Segments /\ ~finalOut => f[n] = <<>>
  BY <1>1 DEF Finals
<1>5. n \in Segments /\ ~finalOut => said'[n] = <<text>>
  <2>1. SUFFICES ASSUME n \in Segments, ~finalOut PROVE said'[n] = <<text>>
    OBVIOUS
  <2>2. said' = [f EXCEPT ![n] = Append(f[n], text)]
    BY <1>1, <2>1 DEF EmitFinal
  <2>3. said'[n] = Append(f[n], text)
    BY <2>1, <2>2
  <2>. QED BY <1>4, <2>1, <2>3
<1>6. seg \in Segments /\ finalOut => said'[seg] = f[seg]
  BY <1>1 DEF EmitFinal
<1>7. seg \in Segments => said'[seg] # <<>>
  BY <1>1, <1>5, <1>6 DEF Finals
<1>8. ASSUME NEW s \in Segments
      PROVE  Len(said'[s]) <= 1 /\ \A i \in DOMAIN said'[s] : said'[s][i] \in {Silence, s}
  <2>1. Len(f[s]) <= 1 /\ \A i \in DOMAIN f[s] : f[s][i] \in {Silence, s}
    BY <1>1 DEF OneFinalOfItsOwn
  <2>2. \A x : Len(<<x>>) = 1 /\ \A i \in DOMAIN <<x>> : <<x>>[i] = x
    OBVIOUS
  <2>3. CASE s = seg /\ ~finalOut
    <3>1. said'[s] = <<text>> /\ text \in {Silence, s}
      BY <1>1, <1>5, <2>3
    <3>. QED BY <2>2, <3>1
  <2>4. CASE said'[s] = f[s]
    BY <2>1, <2>4
  <2>. QED BY <1>3, <1>6, <2>3, <2>4
<1>. QED BY <1>1, <1>3, <1>7, <1>8 DEF EmitFinal, OneFinalOfItsOwn

(* The steps that emit a final, and for which text.                        *)
LEMMA WhoEmits ==
  ASSUME StreamInv, SttNext
  PROVE  \/ said' = said /\ (BeginSegment \/ UNCHANGED <<seg, finalOut>>)
         \/ seg' = seg /\ \E text \in {Silence, seg} : EmitFinal(text)
<1>1. CASE Detector \/ SocketLost \/ TearDown \/ BeginSegment
  BY <1>1 DEF Detector, DetectStart, DetectWindow, DetectStop, EndInput, Detect, SocketLost, TearDown,
              BeginSegment
<1>2. CASE Connected \/ SendFrames \/ SendFails \/ NothingToEnd \/ EndSegment \/ Closed
  BY <1>2 DEF Connected, SendFrames, SendFails, NothingToEnd, EndSegment, Closed
<1>3. CASE ConnectFails \/ FinishSegment
  BY <1>3 DEF ConnectFails, FinishSegment, StreamInv, Session
<1>4. CASE Loops
  <2>1. PICK s \in Segments : ReceiveInterim(s) \/ ReceiveFinal(s) \/ ReceiveEnds(s)
    BY <1>4 DEF Loops
  <2>2. CASE ReceiveFinal(s)
    BY <2>2 DEF ReceiveFinal, StreamInv, Session
  <2>3. CASE ReceiveInterim(s) \/ ReceiveEnds(s)
    BY <2>3 DEF ReceiveInterim, ReceiveEnds
  <2>. QED BY <2>1, <2>2, <2>3
<1>. QED BY <1>1, <1>2, <1>3, <1>4 DEF SttNext, Task

LEMMA FinalsStep == StreamInv /\ SttNext => Finals' /\ OneFinalOfItsOwn'
<1> SUFFICES ASSUME StreamInv, SttNext PROVE Finals' /\ OneFinalOfItsOwn'
  OBVIOUS
<1>. USE DEF StreamInv
<1>1. CASE said' = said /\ UNCHANGED <<seg, finalOut>>
  BY <1>1 DEF Finals, OneFinalOfItsOwn
<1>2. CASE said' = said /\ BeginSegment
  BY <1>2 DEF Finals, OneFinalOfItsOwn, BeginSegment, Typed, Segments
<1>3. ASSUME seg' = seg, NEW text \in {Silence, seg}, EmitFinal(text)
      PROVE  Finals' /\ OneFinalOfItsOwn'
  <2>1. /\ finalOut' = TRUE /\ OneFinalOfItsOwn'
        /\ \A s \in Segments : s # seg => said'[s] = said[s]
        /\ seg \in Segments => said'[seg] # <<>>
    BY <1>3, Emitted
  <2>2. \A s \in Segments : s > seg => s # seg
    BY DEF Typed, Segments
  <2>. QED BY <1>3, <2>1, <2>2 DEF Finals
<1>. QED BY <1>1, <1>2, <1>3, WhoEmits

(* A segment is left with its final, its end or its abort.                 *)
LEMMA DroppedStep == StreamInv /\ SttNext => FinalUnlessDropped'
<1> SUFFICES ASSUME StreamInv, SttNext, NEW s \in Segments, Left(s)'
             PROVE  (said'[s] # <<>> /\ s \in ended') \/ s \in dropped'
  BY DEF FinalUnlessDropped
<1>. USE DEF StreamInv
<1>1. ended \subseteq ended' /\ dropped \subseteq dropped'
  BY DEF SttNext, Detector, DetectStart, DetectWindow, DetectStop, EndInput, Detect, Task,
         BeginSegment, Connected, ConnectFails, SendFrames, SendFails, NothingToEnd, EndSegment,
         FinishSegment, Closed, Loops, ReceiveInterim, ReceiveFinal, ReceiveEnds, SocketLost, TearDown
<1>2. said[s] # <<>> => said'[s] # <<>>
  <2>1. ASSUME seg' = seg, NEW text \in {Silence, seg}, EmitFinal(text)
        PROVE  said[s] # <<>> => said'[s] # <<>>
    BY <2>1, Emitted
  <2>. QED BY <2>1, WhoEmits
<1>3. CASE Left(s)
  BY <1>1, <1>2, <1>3 DEF FinalUnlessDropped
<1>4. CASE ~Left(s) /\ (ConnectFails \/ FinishSegment)
  <2>1. s = seg /\ s \in ended'
    BY <1>4 DEF ConnectFails, FinishSegment, Left, Typed, Segments
  <2>2. PICK text \in {Silence, seg} : EmitFinal(text)
    BY <1>4 DEF ConnectFails, FinishSegment, Session
  <2>. QED BY <2>1, <2>2, Emitted
<1>5. CASE ~Left(s) /\ SendFails
  BY <1>5 DEF SendFails, Left, Typed, Segments
<1>6. CASE BeginSegment
  <2>1. seg' = seg + 1 /\ task = "waiting" /\ task' = "dialing" /\ socket = "none"
    BY <1>6, SessionStep DEF BeginSegment, Due, Session
  <2>. QED BY <1>3, <2>1 DEF Left, Typed, Segments
<1>7. CASE ~Left(s) /\ (Detector \/ Connected \/ EndSegment \/ TearDown \/ SocketLost \/ Loops)
  <2>1. UNCHANGED seg
    BY <1>7 DEF Detector, DetectStart, DetectWindow, DetectStop, EndInput, Detect, Connected, EndSegment,
                TearDown, SocketLost, Loops, ReceiveInterim, ReceiveFinal, ReceiveEnds
  <2>2. \/ UNCHANGED task /\ (socket' = "none" => socket = "none")
        \/ task' \in {"onset", "flushing", "over"}
    BY <1>7 DEF Detector, DetectStart, DetectWindow, DetectStop, EndInput, Detect, Connected, EndSegment,
                TearDown, SocketLost, Loops, ReceiveInterim, ReceiveFinal, ReceiveEnds
  <2>. QED BY <1>7, <2>1, <2>2 DEF Left
<1>8. CASE ~Left(s) /\ (SendFrames \/ NothingToEnd \/ Closed)
  <2>1. UNCHANGED <<seg, socket>>
    BY <1>8 DEF SendFrames, NothingToEnd, Closed
  <2>2. socket = "none" => task \in {"waiting", "closing"}
    BY <1>8 DEF SendFrames, Sending, Due, NothingToEnd, Closed, Session
  <2>. QED BY <1>8, <2>1, <2>2 DEF Left
<1>. QED BY <1>3, <1>4, <1>5, <1>6, <1>7, <1>8 DEF SttNext, Task

LEMMA StreamStep == StreamInv /\ [Next]_vars => StreamInv'
<1> SUFFICES ASSUME StreamInv, [Next]_vars PROVE StreamInv'
  OBVIOUS
<1>1. CASE SttNext
  BY <1>1, TypedStep, AtHeadStep, QueuedStep, SessionStep, FinalsStep, DroppedStep DEF StreamInv
<1>2. CASE UNCHANGED sttVars
  BY <1>2 DEF StreamInv, sttVars, Typed, AtHead, Queued, Under, Session, Finals, OneFinalOfItsOwn,
              FinalUnlessDropped, Left
<1>. QED BY <1>1, <1>2, StreamSteps

LEMMA StreamInvariant == Spec => []StreamInv
BY InitStream, StreamStep, PTL DEF Spec

(* A segment has at most one FINAL transcript, made of its own audio, for  *)
(* any number of segments and any lead of the detector (navai_ws_stt.py,   *)
(* SpeechStream): what is left of a segment never reaches into the next.   *)
THEOREM FinalsAreOwn == Spec => []OneFinalOfItsOwn
BY StreamInvariant, PTL DEF StreamInv

-----------------------------------------------------------------------------
(* Recognition by request.                                                 *)
Heard == FirstOnly /\ EmptyIfUnheard

LEMMA InitHeard == Init => Heard
BY DEF Init, RecInit, Heard, FirstOnly, EmptyIfUnheard

LEMMA HeardStep == Heard /\ [Next]_vars => Heard'
<1> SUFFICES ASSUME Heard, [Next]_vars PROVE Heard'
  OBVIOUS
<1>. USE DEF Heard, FirstOnly, EmptyIfUnheard
<1>1. Override' = Override
  BY DEF Next, vars, Listen, Speak, ListenByRequest, SpeakByRequest, BargeIn, Streaming, Requesting, Override
<1>2. UNCHANGED recVars \/ Hear(Override) \/ Gemini \/ Recognition
  BY DEF Next, vars, Listen, Speak, ListenByRequest, SpeakByRequest, BargeIn, Streaming
<1>3. CASE UNCHANGED recVars
  BY <1>1, <1>3 DEF recVars
<1>4. CASE Hear(Override)
  BY <1>1, <1>4 DEF Hear, First
<1>5. CASE Gemini
  BY <1>1, <1>5 DEF Gemini, Unreadable, GeminiHears, GeminiMisses, GivesUp, Answer, Ask, Engines
<1>6. CASE Recognition
  BY <1>1, <1>6 DEF Recognition, Request, RequestHears, RequestMisses, Answer
<1>. QED BY <1>2, <1>3, <1>4, <1>5, <1>6

LEMMA AlwaysHeard == Spec => []Heard
BY InitHeard, HeardStep, PTL DEF Spec

(* Whichever recognizer the call has, an utterance has its transcript, or  *)
(* a send that failed aborted it, or the last recognizer that could hear   *)
(* it did not (navai_ws_stt.py, greeting_stt_override.py): no order of     *)
(* detector, socket and server loses it silently.                          *)
THEOREM TurnsAreAnswered == Spec => []EveryTurnAnswered
BY StreamInvariant, AlwaysHeard, PTL DEF StreamInv, Heard, EveryTurnAnswered

-----------------------------------------------------------------------------
(* Synthesis.                                                              *)
LEMMA InitCounted == Init => Counted
BY DEF Init, TtsInit, Counted

LEMMA CountedStep == Counted /\ [Next]_vars => Counted'
<1> SUFFICES ASSUME Counted, [Next]_vars PROVE Counted'
  OBVIOUS
<1>1. UNCHANGED ttsVars \/ Synthesis \/ NextRequest \/ Interrupt
  BY DEF Next, vars, Listen, Speak, ListenByRequest, SpeakByRequest, BargeIn, Requesting
<1>2. CASE UNCHANGED ttsVars
  BY <1>2 DEF ttsVars, Counted
<1>3. CASE Synthesize \/ Connect \/ Interrupt
  BY <1>3 DEF Synthesize, Dial, Connect, Interrupt, Counted
<1>4. CASE NextRequest
  BY <1>4 DEF NextRequest, Counted
<1>5. CASE Chunk
  BY <1>5 DEF Chunk, Counted
<1>6. ASSUME phase \in {"dialing", "receiving"}, Retry, UNCHANGED takes, pushed = 0 PROVE Counted'
  <2>1. takes' = {}
    BY <1>6 DEF Counted
  <2>2. attempt' \in Nat /\ pushed' = 0
    BY <1>6 DEF Retry, Dial, Counted
  <2>. QED BY <2>1, <2>2 DEF Counted
<1>7. CASE Refused
  BY <1>6, <1>7 DEF Refused, Counted
<1>8. CASE Returns \/ Fails
  <2>1. CASE pushed > 0
    BY <1>8, <2>1 DEF Returns, Fails, Counted
  <2>2. CASE ~(pushed > 0)
    <3>1. pushed = 0 /\ phase = "receiving" /\ Retry /\ UNCHANGED takes
      BY <1>8, <2>2 DEF Returns, Fails, Counted
    <3>. QED BY <1>6, <3>1
  <2>. QED BY <2>1, <2>2
<1>. QED BY <1>1, <1>2, <1>3, <1>4, <1>5, <1>7, <1>8 DEF Synthesis, Attempting

(* The channel of a request never holds audio of two attempts              *)
(* (navai_ws_tts.py, ChunkedStream; SDK retries included).                 *)
THEOREM ChannelHoldsOneTake == Spec => []OneTake
<1>1. Counted => OneTake
  BY DEF Counted, OneTake
<1>. QED BY <1>1, InitCounted, CountedStep, PTL DEF Spec

-----------------------------------------------------------------------------
(* The pieces of a text.                                                   *)
(* What holds of 0 and, below n, of m + 1 when it holds of m, holds up to  *)
(* n: the first number it fails for has a number before it.                *)
LEMMA UpTo ==
  ASSUME NEW n \in Nat, NEW P, 0 \in P, \A m \in 0 .. n : m < n /\ m \in P => m + 1 \in P
  PROVE  \A m \in 0 .. n : m \in P
<1>1. PICK R : IsWellFoundedOn(R, Nat) /\ \A x, y \in Nat : y < x => <<y, x>> \in R
  <2>. DEFINE R == {ss \in Nat \X Nat : ss[1] < ss[2]}
  <2>1. IsWellFoundedOn(R, Nat)
    BY NatLessThanWellFounded DEF OpToRel
  <2>2. \A x, y \in Nat : y < x => <<y, x>> \in R
    OBVIOUS
  <2>. QED BY <2>1, <2>2
<1>. DEFINE Q == {m \in 0 .. n : m \notin P}
<1>2. SUFFICES ASSUME Q # {} PROVE FALSE
  OBVIOUS
<1>3. Q \subseteq Nat
  OBVIOUS
<1>4. PICK m \in Q : \A y \in Q : ~ (<<y, m>> \in R)
  <2>. HIDE DEF Q
  <2>. QED BY <1>1, <1>2, <1>3, WFMin
<1>5. m \in 1 .. n
  OBVIOUS
<1>6. m - 1 \in 0 .. n /\ m - 1 < m /\ m - 1 < n /\ (m - 1) + 1 = m
  BY <1>5
<1>7. m - 1 \in Nat /\ m \in Nat
  BY <1>5
<1>8. <<m - 1, m>> \in R
  BY <1>1, <1>6, <1>7
<1>9. m - 1 \in P
  BY <1>4, <1>6, <1>8
<1>10. m \in P
  BY <1>6, <1>9
<1>. QED BY <1>10

(* The walk over the words exists.                                         *)
Walk(text, splitter, n, f) ==
  f = [m \in 0 .. n |-> IF m = 0 THEN Filling(<<>>, <<>>, <<>>) ELSE Step(text, splitter, f[m - 1], m)]

LEMMA WalkExists ==
  ASSUME NEW text, NEW splitter, NEW n \in Nat
  PROVE  \E f : Walk(text, splitter, n, f)
<1>. DEFINE P == {m \in Nat : \E f : Walk(text, splitter, m, f)}
<1>1. 0 \in P
  <2>. DEFINE f == [m \in 0 .. 0 |-> Filling(<<>>, <<>>, <<>>)]
  <2>1. f = [m \in 0 .. 0 |-> IF m = 0 THEN Filling(<<>>, <<>>, <<>>) ELSE Step(text, splitter, f[m - 1], m)]
    OBVIOUS
  <2>. QED BY <2>1 DEF Walk
<1>2. ASSUME NEW m \in 0 .. n, m < n, m \in P PROVE m + 1 \in P
  <2>1. PICK g : Walk(text, splitter, m, g)
    BY <1>2
  <2>. DEFINE f == [k \in 0 .. m + 1 |-> IF k = m + 1 THEN Step(text, splitter, g[m], m + 1) ELSE g[k]]
  <2>2. ASSUME NEW k \in 0 .. m + 1
        PROVE  f[k] = IF k = 0 THEN Filling(<<>>, <<>>, <<>>) ELSE Step(text, splitter, f[k - 1], k)
    <3>1. CASE k = m + 1
      <4>1. k - 1 = m /\ k # 0 /\ m \in 0 .. m + 1 /\ m # m + 1
        BY <3>1
      <4>2. f[m] = g[m] /\ f[k] = Step(text, splitter, g[m], m + 1)
        BY <3>1, <4>1
      <4>. QED BY <3>1, <4>1, <4>2
    <3>2. CASE k = 0
      <4>1. k # m + 1 /\ k \in 0 .. m
        BY <3>2
      <4>. QED BY <2>1, <3>2, <4>1 DEF Walk
    <3>3. CASE k # 0 /\ k # m + 1
      <4>1. k \in 0 .. m /\ k - 1 \in 0 .. m + 1 /\ k - 1 # m + 1
        BY <3>3
      <4>2. f[k] = g[k] /\ f[k - 1] = g[k - 1]
        BY <3>3, <4>1
      <4>3. g[k] = Step(text, splitter, g[k - 1], k)
        BY <2>1, <3>3, <4>1 DEF Walk
      <4>. QED BY <3>3, <4>2, <4>3
    <3>. QED BY <3>1, <3>2, <3>3
  <2>3. DOMAIN f = 0 .. m + 1 /\ m + 1 \in Nat
    OBVIOUS
  <2>. HIDE DEF f
  <2>4. f = [k \in 0 .. m + 1 |-> f[k]]
    <3>1. f = [k \in DOMAIN f |-> f[k]]
      BY DEF f
    <3>. QED BY <2>3, <3>1
  <2>5. Walk(text, splitter, m + 1, f)
    BY <2>2, <2>4 DEF Walk
  <2>. QED BY <2>3, <2>5
<1>3. \A m \in 0 .. n : m \in P
  <2>. HIDE DEF P
  <2>. QED BY <1>1, <1>2, UpTo
<1>4. n \in 0 .. n
  OBVIOUS
<1>. QED BY <1>3, <1>4

LEMMA FilledWalks ==
  ASSUME NEW text, NEW splitter, Len(text) \in Nat
  PROVE  \E f : Walk(text, splitter, Len(text), f) /\ Filled(text, splitter) = f[Len(text)]
<1>. DEFINE f == CHOOSE f : Walk(text, splitter, Len(text), f)
<1>1. Walk(text, splitter, Len(text), f)
  BY WalkExists
<1>2. Filled(text, splitter) = f[Len(text)]
  BY DEF Filled, Walk
<1>. QED BY <1>1, <1>2

(* The words of pieces are in a relation R: different, so that none is     *)
(* said twice, or smaller, so that they are said in order.                 *)
Within(done) == UNION {In(done[k]) : k \in DOMAIN done}
Sep(S, T, R) == \A x \in S, y \in T : <<x, y>> \in R
Line(part, R) == \A i, j \in DOMAIN part : i < j => <<part[i], part[j]>> \in R
Lines(done, R) ==
  /\ \A k \in DOMAIN done : Line(done[k], R)
  /\ \A k, l \in DOMAIN done : k < l => Sep(In(done[k]), In(done[l]), R)

LEMMA InAppend ==
  ASSUME NEW S, NEW part \in Seq(S), NEW x
  PROVE  In(Append(part, x)) = In(part) \cup {x}
<1>1. DOMAIN Append(part, x) = DOMAIN part \cup {Len(part) + 1}
  OBVIOUS
<1>2. \A i \in DOMAIN part : Append(part, x)[i] = part[i]
  OBVIOUS
<1>3. Append(part, x)[Len(part) + 1] = x
  OBVIOUS
<1>. QED BY <1>1, <1>2, <1>3 DEF In

LEMMA ConcatPlaces ==
  ASSUME NEW S, NEW a \in Seq(S), NEW b \in Seq(S)
  PROVE  /\ a \o b \in Seq(S)
         /\ \A i \in DOMAIN a : i \in DOMAIN (a \o b) /\ (a \o b)[i] = a[i]
         /\ \A i \in DOMAIN b : i + Len(a) \in DOMAIN (a \o b) /\ (a \o b)[i + Len(a)] = b[i]
         /\ \A i \in DOMAIN (a \o b) : i \in DOMAIN a \/ (i - Len(a) \in DOMAIN b /\ i > Len(a))
<1>1. /\ a \o b \in Seq(S) /\ Len(a \o b) = Len(a) + Len(b)
      /\ \A i \in 1 .. Len(a) + Len(b) : (a \o b)[i] = IF i <= Len(a) THEN a[i] ELSE b[i - Len(a)]
  BY ConcatProperties
<1>2. /\ Len(a) \in Nat /\ Len(b) \in Nat /\ DOMAIN a = 1 .. Len(a) /\ DOMAIN b = 1 .. Len(b)
      /\ DOMAIN (a \o b) = 1 .. Len(a) + Len(b)
  BY <1>1
<1>3. \A i \in DOMAIN b : i + Len(a) \in 1 .. Len(a) + Len(b) /\ ~ (i + Len(a) <= Len(a)) /\ (i + Len(a)) - Len(a) = i
  BY <1>2
<1>. QED BY <1>1, <1>2, <1>3

LEMMA InConcat ==
  ASSUME NEW S, NEW a \in Seq(S), NEW b \in Seq(S)
  PROVE  In(a \o b) = In(a) \cup In(b)
<1>1. ASSUME NEW x \in In(a \o b) PROVE x \in In(a) \cup In(b)
  <2>1. PICK i \in DOMAIN (a \o b) : x = (a \o b)[i]
    BY DEF In
  <2>2. CASE i \in DOMAIN a
    BY <2>1, <2>2, ConcatPlaces DEF In
  <2>3. CASE i - Len(a) \in DOMAIN b
    <3>1. (i - Len(a)) + Len(a) = i
      BY <2>3
    <3>2. x = b[i - Len(a)]
      BY <2>1, <2>3, <3>1, ConcatPlaces
    <3>. QED BY <2>3, <3>2 DEF In
  <2>. QED BY <2>2, <2>3, ConcatPlaces
<1>2. ASSUME NEW x \in In(a) PROVE x \in In(a \o b)
  BY ConcatPlaces DEF In
<1>3. ASSUME NEW x \in In(b) PROVE x \in In(a \o b)
  <2>1. PICK i \in DOMAIN b : x = b[i]
    BY DEF In
  <2>2. i + Len(a) \in DOMAIN (a \o b) /\ (a \o b)[i + Len(a)] = x
    BY <2>1, ConcatPlaces
  <2>. QED BY <2>2 DEF In
<1>. QED BY <1>1, <1>2, <1>3

LEMMA LineAppend ==
  ASSUME NEW S, NEW part \in Seq(S), NEW x, NEW R, Line(part, R), Sep(In(part), {x}, R)
  PROVE  Line(Append(part, x), R)
<1>1. DOMAIN Append(part, x) = 1 .. Len(part) + 1 /\ DOMAIN part = 1 .. Len(part) /\ Len(part) \in Nat
  OBVIOUS
<1>2. \A i \in DOMAIN part : Append(part, x)[i] = part[i] /\ part[i] \in In(part)
  BY DEF In
<1>3. Append(part, x)[Len(part) + 1] = x
  OBVIOUS
<1>4. SUFFICES ASSUME NEW i \in DOMAIN Append(part, x), NEW j \in DOMAIN Append(part, x), i < j
               PROVE  <<Append(part, x)[i], Append(part, x)[j]>> \in R
  BY DEF Line
<1>5. i \in DOMAIN part /\ (j \in DOMAIN part \/ j = Len(part) + 1)
  BY <1>1, <1>4
<1>6. CASE j \in DOMAIN part
  BY <1>2, <1>4, <1>5, <1>6 DEF Line
<1>7. CASE j = Len(part) + 1
  BY <1>2, <1>3, <1>5, <1>7 DEF Sep
<1>. QED BY <1>5, <1>6, <1>7

LEMMA LineConcat ==
  ASSUME NEW S, NEW a \in Seq(S), NEW b \in Seq(S), NEW R, Line(a, R), Line(b, R), Sep(In(a), In(b), R)
  PROVE  Line(a \o b, R)
<1>1. SUFFICES ASSUME NEW i \in DOMAIN (a \o b), NEW j \in DOMAIN (a \o b), i < j
               PROVE  <<(a \o b)[i], (a \o b)[j]>> \in R
  BY DEF Line
<1>2. /\ Len(a) \in Nat /\ DOMAIN a = 1 .. Len(a) /\ i \in Nat /\ j \in Nat
      /\ a \o b \in Seq(S)
  BY ConcatPlaces
<1>3. CASE i \in DOMAIN a /\ j \in DOMAIN a
  BY <1>1, <1>3, ConcatPlaces DEF Line
<1>4. CASE i \in DOMAIN a /\ j - Len(a) \in DOMAIN b
  <2>1. (j - Len(a)) + Len(a) = j
    BY <1>2
  <2>2. (a \o b)[j] = b[j - Len(a)] /\ (a \o b)[i] = a[i]
    BY <1>4, <2>1, ConcatPlaces
  <2>. QED BY <1>4, <2>2 DEF Sep, In
<1>5. CASE i - Len(a) \in DOMAIN b /\ j - Len(a) \in DOMAIN b
  <2>1. (j - Len(a)) + Len(a) = j /\ (i - Len(a)) + Len(a) = i /\ i - Len(a) < j - Len(a)
    BY <1>1, <1>2
  <2>2. (a \o b)[j] = b[j - Len(a)] /\ (a \o b)[i] = b[i - Len(a)]
    BY <1>5, <2>1, ConcatPlaces
  <2>. QED BY <1>5, <2>1, <2>2 DEF Line
<1>6. i \in DOMAIN a \/ (i - Len(a) \in DOMAIN b /\ i > Len(a))
  BY ConcatPlaces
<1>7. j \in DOMAIN a \/ j - Len(a) \in DOMAIN b
  BY ConcatPlaces
<1>8. CASE i > Len(a)
  <2>1. j \notin DOMAIN a
    BY <1>1, <1>2, <1>8
  <2>2. i \notin DOMAIN a
    BY <1>2, <1>8
  <2>. QED BY <1>5, <1>6, <1>7, <2>1, <2>2
<1>. QED BY <1>3, <1>4, <1>6, <1>7, <1>8

(* Closing a piece keeps the lines when it is in R to what is done.        *)
LEMMA ClosingLines ==
  ASSUME NEW S, NEW done \in Seq(Seq(S)), NEW piece \in Seq(S), NEW R,
         Lines(done, R), Line(piece, R), Sep(Within(done), In(piece), R)
  PROVE  /\ Closing(done, piece) \in Seq(Seq(S))
         /\ Lines(Closing(done, piece), R)
         /\ Within(Closing(done, piece)) = Within(done) \cup In(piece)
<1>1. CASE piece = <<>>
  <2>1. In(piece) = {}
    BY <1>1 DEF In
  <2>. QED BY <1>1, <2>1 DEF Closing
<1>2. CASE piece # <<>>
  <2>. DEFINE more == Append(done, piece)
  <2>1. Closing(done, piece) = more
    BY <1>2 DEF Closing
  <2>2. /\ more \in Seq(Seq(S)) /\ DOMAIN more = DOMAIN done \cup {Len(done) + 1}
        /\ DOMAIN done = 1 .. Len(done) /\ Len(done) \in Nat
    OBVIOUS
  <2>3. \A k \in DOMAIN done : more[k] = done[k]
    OBVIOUS
  <2>4. more[Len(done) + 1] = piece
    OBVIOUS
  <2>. HIDE DEF more
  <2>5. \A k \in DOMAIN more : Line(more[k], R)
    BY <2>2, <2>3, <2>4 DEF Lines
  <2>6. ASSUME NEW k \in DOMAIN more, NEW l \in DOMAIN more, k < l
        PROVE  Sep(In(more[k]), In(more[l]), R)
    <3>1. k \in DOMAIN done /\ (l \in DOMAIN done \/ l = Len(done) + 1)
      BY <2>2, <2>6
    <3>2. CASE l \in DOMAIN done
      BY <2>3, <2>6, <3>1, <3>2 DEF Lines
    <3>3. CASE l = Len(done) + 1
      <4>1. In(more[k]) \subseteq Within(done) /\ more[l] = piece
        BY <2>3, <2>4, <3>1, <3>3 DEF Within
      <4>. QED BY <4>1 DEF Sep
    <3>. QED BY <3>1, <3>2, <3>3
  <2>7. Within(more) = Within(done) \cup In(piece)
    <3>1. {In(more[k]) : k \in DOMAIN more} = {In(done[k]) : k \in DOMAIN done} \cup {In(piece)}
      BY <2>2, <2>3, <2>4
    <3>. QED BY <3>1 DEF Within
  <2>. QED BY <2>1, <2>2, <2>5, <2>6, <2>7 DEF Lines
<1>. QED BY <1>1, <1>2

(* A fill has the first m words, in lines.                                 *)
Rows(d, c, p, m, R) ==
  /\ d \in Seq(Seq(1 .. m)) /\ c \in Seq(1 .. m) /\ p \in Seq(1 .. m)
  /\ Lines(d, R) /\ Line(c, R) /\ Line(p, R)
  /\ Sep(Within(d), In(c), R) /\ Sep(Within(d), In(p), R) /\ Sep(In(c), In(p), R)
  /\ Within(d) \cup In(c) \cup In(p) = 1 .. m
Lined(fill, m, R) == Rows(fill.done, fill.current, fill.part, m, R)

LEMMA FillingIs ==
  ASSUME NEW d, NEW c, NEW p
  PROVE  /\ Filling(d, c, p).done = d /\ Filling(d, c, p).current = c /\ Filling(d, c, p).part = p
         /\ \A m, R : Lined(Filling(d, c, p), m, R) <=> Rows(d, c, p, m, R)
BY DEF Filling, Lined

LEMMA NothingIn == In(<<>>) = {} /\ Within(<<>>) = {}
BY DEF In, Within

LEMMA NothingLines ==
  ASSUME NEW R
  PROVE  /\ Line(<<>>, R) /\ Lines(<<>>, R)
         /\ \A S : Sep(S, In(<<>>), R) /\ Sep(In(<<>>), S, R)
BY NothingIn DEF Line, Lines, Sep

LEMMA SepUnion ==
  ASSUME NEW R, NEW S, NEW T, NEW U
  PROVE  /\ Sep(S \cup T, U, R) <=> Sep(S, U, R) /\ Sep(T, U, R)
         /\ Sep(S, T \cup U, R) <=> Sep(S, T, R) /\ Sep(S, U, R)
BY DEF Sep

LEMMA ShutLined ==
  ASSUME NEW m, NEW R, NEW fill, Lined(fill, m, R)
  PROVE  Lined(Shut(fill), m, R)
<1>. DEFINE d == Closing(fill.done, fill.current)
<1>1. /\ d \in Seq(Seq(1 .. m)) /\ Lines(d, R) /\ Within(d) = Within(fill.done) \cup In(fill.current)
  BY ClosingLines DEF Lined, Rows
<1>. HIDE DEF d
<1>2. Sep(Within(d), In(fill.part), R)
  BY <1>1, SepUnion DEF Lined, Rows
<1>3. <<>> \in Seq(1 .. m)
  OBVIOUS
<1>4. Within(d) \cup In(<<>>) \cup In(fill.part) = 1 .. m
  BY <1>1, NothingIn DEF Lined, Rows
<1>5. Rows(d, <<>>, fill.part, m, R)
  BY <1>1, <1>2, <1>3, <1>4, NothingLines DEF Rows, Lined
<1>. QED BY <1>5, FillingIs DEF Shut, d

LEMMA SpelledLined ==
  ASSUME NEW m, NEW R, NEW fill, Lined(fill, m, R), Sep(In(fill.part), In(fill.current), R)
  PROVE  Lined(Spelled(fill), m, R)
<1>. DEFINE d == Closing(fill.done, fill.part)
<1>1. /\ d \in Seq(Seq(1 .. m)) /\ Lines(d, R) /\ Within(d) = Within(fill.done) \cup In(fill.part)
  BY ClosingLines DEF Lined, Rows
<1>. HIDE DEF d
<1>2. Sep(Within(d), In(fill.current), R)
  BY <1>1, SepUnion DEF Lined, Rows
<1>3. <<>> \in Seq(1 .. m)
  OBVIOUS
<1>4. Within(d) \cup In(fill.current) \cup In(<<>>) = 1 .. m
  BY <1>1, NothingIn DEF Lined, Rows
<1>5. Rows(d, fill.current, <<>>, m, R)
  BY <1>1, <1>2, <1>3, <1>4, NothingLines DEF Rows, Lined
<1>. QED BY <1>5, FillingIs DEF Spelled, d

LEMMA PackLined ==
  ASSUME NEW text, NEW m, NEW R, NEW fill, Lined(fill, m, R)
  PROVE  Lined(Pack(text, fill), m, R) /\ Pack(text, fill).part = <<>>
<1>1. <<>> \in Seq(1 .. m)
  OBVIOUS
<1>2. CASE Joined(text, fill.current, fill.part) <= MaxPiece
  <2>. DEFINE c == fill.current \o fill.part
  <2>1. c \in Seq(1 .. m) /\ In(c) = In(fill.current) \cup In(fill.part) /\ Line(c, R)
    BY ConcatPlaces, InConcat, LineConcat DEF Lined, Rows
  <2>. HIDE DEF c
  <2>2. Sep(Within(fill.done), In(c), R)
    BY <2>1, SepUnion DEF Lined, Rows
  <2>3. Within(fill.done) \cup In(c) \cup In(<<>>) = 1 .. m
    BY <2>1, NothingIn DEF Lined, Rows
  <2>4. Rows(fill.done, c, <<>>, m, R)
    BY <1>1, <2>1, <2>2, <2>3, NothingLines DEF Rows, Lined
  <2>5. Pack(text, fill) = Filling(fill.done, c, <<>>)
    BY <1>2 DEF Pack, c
  <2>. QED BY <2>4, <2>5, FillingIs
<1>3. CASE ~ (Joined(text, fill.current, fill.part) <= MaxPiece)
  <2>. DEFINE d == Closing(fill.done, fill.current)
  <2>1. /\ d \in Seq(Seq(1 .. m)) /\ Lines(d, R) /\ Within(d) = Within(fill.done) \cup In(fill.current)
    BY ClosingLines DEF Lined, Rows
  <2>. HIDE DEF d
  <2>2. Sep(Within(d), In(fill.part), R)
    BY <2>1, SepUnion DEF Lined, Rows
  <2>3. Within(d) \cup In(fill.part) \cup In(<<>>) = 1 .. m
    BY <2>1, NothingIn DEF Lined, Rows
  <2>4. Rows(d, fill.part, <<>>, m, R)
    BY <1>1, <2>1, <2>2, <2>3, NothingLines DEF Rows, Lined
  <2>5. Pack(text, fill) = Filling(d, fill.part, <<>>)
    BY <1>3 DEF Pack, d
  <2>. QED BY <2>4, <2>5, FillingIs
<1>. QED BY <1>2, <1>3

(* The next word is in R to all before it.                                 *)
Ahead(R, m) == \A x \in 1 .. m : <<x, m + 1>> \in R

LEMMA Grows ==
  ASSUME NEW m \in Nat, NEW R, Ahead(R, m), NEW d, NEW c, NEW p, Rows(d, c, p, m, R)
  PROVE  /\ d \in Seq(Seq(1 .. m + 1)) /\ c \in Seq(1 .. m + 1) /\ p \in Seq(1 .. m + 1)
         /\ Sep(Within(d), {m + 1}, R) /\ Sep(In(c), {m + 1}, R) /\ Sep(In(p), {m + 1}, R)
<1>1. 1 .. m \subseteq 1 .. m + 1
  OBVIOUS
<1>2. \A s \in Seq(1 .. m) : s \in Seq(1 .. m + 1)
  BY <1>1
<1>3. Seq(1 .. m) \subseteq Seq(1 .. m + 1)
  BY <1>2
<1>4. \A s \in Seq(Seq(1 .. m)) : s \in Seq(Seq(1 .. m + 1))
  BY <1>3
<1>5. Within(d) \subseteq 1 .. m /\ In(c) \subseteq 1 .. m /\ In(p) \subseteq 1 .. m
  BY DEF Rows
<1>. QED BY <1>2, <1>4, <1>5 DEF Rows, Sep, Ahead

LEMMA AddLined ==
  ASSUME NEW m \in Nat, NEW R, Ahead(R, m), NEW fill, Lined(fill, m, R)
  PROVE  Lined(Add(fill, m + 1), m + 1, R)
<1>. DEFINE d == fill.done
            c == fill.current
            p == Append(fill.part, m + 1)
<1>1. Rows(d, c, fill.part, m, R)
  BY DEF Lined
<1>2. /\ d \in Seq(Seq(1 .. m + 1)) /\ c \in Seq(1 .. m + 1) /\ fill.part \in Seq(1 .. m + 1)
      /\ Sep(Within(d), {m + 1}, R) /\ Sep(In(c), {m + 1}, R) /\ Sep(In(fill.part), {m + 1}, R)
  BY <1>1, Grows
<1>3. m + 1 \in 1 .. m + 1
  OBVIOUS
<1>4. /\ p \in Seq(1 .. m + 1) /\ In(p) = In(fill.part) \cup {m + 1} /\ Line(p, R)
  BY <1>1, <1>2, <1>3, InAppend, LineAppend DEF Rows
<1>. HIDE DEF p
<1>5. Sep(Within(d), In(p), R) /\ Sep(In(c), In(p), R)
  <2>1. Sep(Within(d), In(fill.part), R) /\ Sep(In(c), In(fill.part), R)
    BY <1>1 DEF Rows
  <2>. QED BY <1>2, <1>4, <2>1 DEF Sep
<1>6. Within(d) \cup In(c) \cup In(p) = 1 .. m + 1
  <2>1. Within(d) \cup In(c) \cup In(fill.part) = 1 .. m
    BY <1>1 DEF Rows
  <2>2. 1 .. m + 1 = (1 .. m) \cup {m + 1}
    OBVIOUS
  <2>. QED BY <1>4, <2>1, <2>2
<1>7. Rows(d, c, p, m + 1, R)
  BY <1>1, <1>2, <1>4, <1>5, <1>6 DEF Rows
<1>8. Add(fill, m + 1) = Filling(d, c, p)
  BY DEF Add, p
<1>. HIDE DEF d, c
<1>. QED BY <1>7, <1>8, FillingIs

LEMMA SpellLined ==
  ASSUME NEW text, NEW m \in Nat, NEW R, Ahead(R, m), NEW fill, Lined(fill, m, R),
         Sep(In(fill.part), In(fill.current), R)
  PROVE  Lined(Spell(text, fill, m + 1), m + 1, R)
<1>1. CASE Joined(text, fill.part, <<m + 1>>) <= MaxPiece
  <2>1. Spell(text, fill, m + 1) = Add(fill, m + 1)
    BY <1>1 DEF Spell, Add
  <2>. QED BY <2>1, AddLined
<1>2. CASE ~ (Joined(text, fill.part, <<m + 1>>) <= MaxPiece)
  <2>1. Lined(Add(Spelled(fill), m + 1), m + 1, R)
    BY SpelledLined, AddLined
  <2>2. Append(<<>>, m + 1) = <<m + 1>>
    OBVIOUS
  <2>. DEFINE d == Closing(fill.done, fill.part)
  <2>3. Spell(text, fill, m + 1) = Filling(d, fill.current, <<m + 1>>)
    BY <1>2 DEF Spell
  <2>4. Spelled(fill) = Filling(d, fill.current, <<>>)
    BY DEF Spelled
  <2>5. Add(Spelled(fill), m + 1) = Filling(d, fill.current, <<m + 1>>)
    <3>1. Spelled(fill).done = d /\ Spelled(fill).current = fill.current /\ Spelled(fill).part = <<>>
      BY <2>4, FillingIs
    <3>. QED BY <2>2, <3>1 DEF Add
  <2>. QED BY <2>1, <2>3, <2>5
<1>. QED BY <1>1, <1>2

(* Taking a word keeps the lines, provided that what is spelled may go     *)
(* before what is being filled.                                            *)
Opened(text, splitter, fill, m) ==
  IF ByPhrase(text, splitter, m) /\ Begins(text, m) THEN Shut(fill) ELSE fill
Symmetric(R) == \A x, y : <<x, y>> \in R => <<y, x>> \in R

LEMMA StepLined ==
  ASSUME NEW text, NEW splitter, NEW m \in Nat, NEW R, Ahead(R, m), NEW fill, Lined(fill, m, R),
         \/ Symmetric(R)
         \/ ByWord(text, splitter, m + 1) => Opened(text, splitter, fill, m + 1).current = <<>>
  PROVE  /\ Lined(Step(text, splitter, fill, m + 1), m + 1, R)
         /\ Completes(text, splitter, m + 1) => Step(text, splitter, fill, m + 1).part = <<>>
         /\ ByWord(text, splitter, m + 1) =>
              Step(text, splitter, fill, m + 1).current = Opened(text, splitter, fill, m + 1).current
<1>. DEFINE open == Opened(text, splitter, fill, m + 1)
            took == Took(text, splitter, fill, m + 1)
            next == Step(text, splitter, fill, m + 1)
<1>1. Lined(open, m, R)
  BY ShutLined DEF Opened
<1>2. took = IF ByWord(text, splitter, m + 1) THEN Spell(text, open, m + 1) ELSE Add(open, m + 1)
  BY DEF Took, Opened
<1>3. next = IF ~Completes(text, splitter, m + 1) THEN took
             ELSE IF ByWord(text, splitter, m + 1) THEN Spelled(took) ELSE Pack(text, took)
  BY DEF Step
<1>4. \/ Symmetric(R)
      \/ ByWord(text, splitter, m + 1) => open.current = <<>>
  OBVIOUS
<1>. HIDE DEF open, took, next
<1>5. CASE ~ByWord(text, splitter, m + 1)
  <2>1. Lined(took, m + 1, R)
    BY <1>1, <1>2, <1>5, AddLined
  <2>2. Lined(next, m + 1, R) /\ (Completes(text, splitter, m + 1) => next.part = <<>>)
    BY <1>3, <1>5, <2>1, PackLined
  <2>. QED BY <1>5, <2>2 DEF next
<1>6. CASE ByWord(text, splitter, m + 1)
  <2>1. ASSUME NEW f, NEW n, Lined(f, n, R), f.current = open.current
        PROVE  Sep(In(f.part), In(f.current), R)
    <3>1. Sep(In(f.current), In(f.part), R)
      BY <2>1 DEF Lined, Rows
    <3>2. CASE Symmetric(R)
      BY <3>1, <3>2 DEF Sep, Symmetric
    <3>3. CASE open.current = <<>>
      BY <2>1, <3>3, NothingLines
    <3>. QED BY <1>4, <1>6, <3>2, <3>3
  <2>2. Sep(In(open.part), In(open.current), R)
    BY <1>1, <2>1
  <2>3. Lined(took, m + 1, R)
    BY <1>1, <1>2, <1>6, <2>2, SpellLined
  <2>4. took.current = open.current
    BY <1>2, <1>6, FillingIs DEF Spell
  <2>5. Sep(In(took.part), In(took.current), R)
    BY <2>1, <2>3, <2>4
  <2>6. Lined(Spelled(took), m + 1, R)
    BY <2>3, <2>5, SpelledLined
  <2>7. Spelled(took).part = <<>> /\ Spelled(took).current = took.current
    BY FillingIs DEF Spelled
  <2>8. next = took \/ next = Spelled(took)
    BY <1>3, <1>6
  <2>9. Completes(text, splitter, m + 1) => next = Spelled(took)
    BY <1>3, <1>6
  <2>10. Lined(next, m + 1, R)
    BY <2>3, <2>6, <2>8
  <2>11. next.current = open.current
    BY <2>4, <2>7, <2>8
  <2>. QED BY <2>7, <2>9, <2>10, <2>11 DEF next, open
<1>. QED BY <1>5, <1>6

(* As long as the phrases of a sentence are too long, nothing is being     *)
(* filled: the sentence began by closing it.                               *)
Bare(text, splitter, fill, m) ==
  ByPhrase(text, splitter, m) /\ (\A j \in Sentence(text, m) : j <= m => TooLong(text, Phrase(text, j)))
    => fill.current = <<>>

LEMMA SameSentence ==
  ASSUME NEW text, NEW n \in Nat, DOMAIN text = 1 .. n, NEW m \in 1 .. n, m + 1 \in 1 .. n,
         ~Begins(text, m + 1)
  PROVE  Sentence(text, m) = Sentence(text, m + 1)
<1>1. text[m].ends # "sentence"
  <2>1. (m + 1) - 1 = m
    OBVIOUS
  <2>. QED BY <2>1 DEF Begins
<1>2. ASSUME NEW i \in 1 .. n
      PROVE  Together(text, {"sentence"}, i, m) <=> Together(text, {"sentence"}, i, m + 1)
  <2>1. \A k \in 1 .. n : (i <= k /\ k < m + 1) \/ (m + 1 <= k /\ k < i)
                            => (i <= k /\ k < m) \/ (m <= k /\ k < i) \/ k = m
    OBVIOUS
  <2>2. \A k \in 1 .. n : (i <= k /\ k < m) \/ (m <= k /\ k < i)
                            => (i <= k /\ k < m + 1) \/ (m + 1 <= k /\ k < i) \/ k = m
    OBVIOUS
  <2>3. text[m].ends \notin {"sentence"}
    BY <1>1
  <2>. QED BY <2>1, <2>2, <2>3 DEF Together
<1>. QED BY <1>2 DEF Sentence

LEMMA OpenedBare ==
  ASSUME NEW text, NEW splitter, NEW n \in Nat, DOMAIN text = 1 .. n, NEW m \in 0 .. n, m < n, NEW fill,
         m > 0 => Bare(text, splitter, fill, m),
         ByPhrase(text, splitter, m + 1),
         \A j \in Sentence(text, m + 1) : j <= m + 1 => TooLong(text, Phrase(text, j))
  PROVE  Opened(text, splitter, fill, m + 1).current = <<>>
<1>1. CASE Begins(text, m + 1)
  BY <1>1, FillingIs DEF Opened, Shut
<1>2. CASE ~Begins(text, m + 1)
  <2>1. m # 0
    BY <1>2 DEF Begins
  <2>2. m \in 1 .. n /\ m + 1 \in 1 .. n
    BY <2>1
  <2>3. Sentence(text, m) = Sentence(text, m + 1)
    BY <1>2, <2>2, SameSentence
  <2>4. Bare(text, splitter, fill, m)
    BY <2>2
  <2>5. ByPhrase(text, splitter, m)
    BY <2>3 DEF ByPhrase
  <2>6. \A j \in Sentence(text, m) : j <= m => TooLong(text, Phrase(text, j))
    <3>1. \A j \in Sentence(text, m) : j \in Nat /\ (j <= m => j <= m + 1)
      BY DEF Sentence
    <3>. QED BY <2>3, <3>1
  <2>7. fill.current = <<>>
    BY <2>4, <2>5, <2>6 DEF Bare
  <2>. QED BY <1>2, <2>7 DEF Opened
<1>. QED BY <1>1, <1>2

LEMMA LongSoFar ==
  ASSUME NEW text, NEW splitter, NEW n \in Nat, DOMAIN text = 1 .. n, NEW m \in 1 .. n,
         ~Overtaken(text), ByWord(text, splitter, m)
  PROVE  \A j \in Sentence(text, m) : j <= m => TooLong(text, Phrase(text, j))
<1>. SUFFICES ASSUME NEW j \in Sentence(text, m), j <= m PROVE TooLong(text, Phrase(text, j))
  OBVIOUS
<1>1. TooLong(text, Sentence(text, m)) /\ TooLong(text, Phrase(text, m))
  BY DEF ByWord, ByPhrase
<1>2. j \in 1 .. n
  BY DEF Sentence
<1>3. j = m \/ j < m
  BY <1>2
<1>. QED BY <1>1, <1>3 DEF Overtaken

LEMMA InItsSentence ==
  ASSUME NEW text, NEW n \in Nat, DOMAIN text = 1 .. n, NEW m \in 1 .. n
  PROVE  m \in Sentence(text, m)
<1>1. \A k \in 1 .. n : ~ ((m <= k /\ k < m) \/ (m <= k /\ k < m))
  OBVIOUS
<1>. QED BY <1>1 DEF Sentence, Together

(* Along the walk the words so far stand in lines.                         *)
Ready(text, splitter, fill, m, R) ==
  /\ Lined(fill, m, R)
  /\ m > 0 => Symmetric(R) \/ Bare(text, splitter, fill, m)
  /\ m = Len(text) => fill.part = <<>>

LEMMA StepReady ==
  ASSUME NEW text, NEW splitter, Len(text) \in Nat, DOMAIN text = 1 .. Len(text),
         NEW R, \A k \in Nat : Ahead(R, k), Symmetric(R) \/ ~Overtaken(text),
         NEW m \in 0 .. Len(text), m < Len(text), NEW fill, Ready(text, splitter, fill, m, R)
  PROVE  Ready(text, splitter, Step(text, splitter, fill, m + 1), m + 1, R)
<1>. DEFINE n == Len(text)
            next == Step(text, splitter, fill, m + 1)
            open == Opened(text, splitter, fill, m + 1)
<1>1. m \in Nat /\ m + 1 \in 1 .. n
  OBVIOUS
<1>2. ASSUME ~Symmetric(R), ByPhrase(text, splitter, m + 1),
             \A j \in Sentence(text, m + 1) : j <= m + 1 => TooLong(text, Phrase(text, j))
      PROVE  open.current = <<>>
  BY <1>2, OpenedBare DEF Ready
<1>3. ASSUME ~Symmetric(R), ByWord(text, splitter, m + 1) PROVE open.current = <<>>
  <2>1. \A j \in Sentence(text, m + 1) : j <= m + 1 => TooLong(text, Phrase(text, j))
    BY <1>1, <1>3, LongSoFar
  <2>2. ByPhrase(text, splitter, m + 1)
    BY <1>3 DEF ByWord
  <2>. QED BY <1>2, <1>3, <2>1, <2>2
<1>4. /\ Lined(next, m + 1, R)
      /\ Completes(text, splitter, m + 1) => next.part = <<>>
      /\ ByWord(text, splitter, m + 1) => next.current = open.current
  <2>1. \/ Symmetric(R)
        \/ ByWord(text, splitter, m + 1) => open.current = <<>>
    BY <1>3
  <2>2. Lined(fill, m, R) /\ Ahead(R, m)
    BY <1>1 DEF Ready
  <2>. QED BY <1>1, <2>1, <2>2, StepLined
<1>5. ASSUME ~Symmetric(R) PROVE Bare(text, splitter, next, m + 1)
  <2>. SUFFICES ASSUME ByPhrase(text, splitter, m + 1),
                       \A j \in Sentence(text, m + 1) : j <= m + 1 => TooLong(text, Phrase(text, j))
                PROVE  next.current = <<>>
    BY DEF Bare
  <2>1. TooLong(text, Phrase(text, m + 1))
    <3>1. m + 1 \in Sentence(text, m + 1) /\ m + 1 <= m + 1
      BY <1>1, InItsSentence
    <3>. QED BY <3>1
  <2>2. ByWord(text, splitter, m + 1)
    BY <2>1 DEF ByWord
  <2>. QED BY <1>2, <1>4, <1>5, <2>2
<1>6. m + 1 = Len(text) => next.part = <<>>
  BY <1>4 DEF Completes
<1>. HIDE DEF next
<1>. QED BY <1>4, <1>5, <1>6 DEF Ready, next

LEMMA FilledReady ==
  ASSUME NEW text, NEW splitter, Len(text) \in Nat, DOMAIN text = 1 .. Len(text),
         NEW R, \A k \in Nat : Ahead(R, k), Symmetric(R) \/ ~Overtaken(text)
  PROVE  Ready(text, splitter, Filled(text, splitter), Len(text), R)
<1>. DEFINE n == Len(text)
<1>1. PICK f : Walk(text, splitter, n, f) /\ Filled(text, splitter) = f[n]
  BY FilledWalks
<1>. DEFINE P == {m \in 0 .. n : Ready(text, splitter, f[m], m, R)}
<1>2. 0 \in P
  <2>1. f[0] = Filling(<<>>, <<>>, <<>>)
    BY <1>1 DEF Walk
  <2>2. <<>> \in Seq(1 .. 0) /\ <<>> \in Seq(Seq(1 .. 0)) /\ 1 .. 0 = {}
    OBVIOUS
  <2>3. Rows(<<>>, <<>>, <<>>, 0, R)
    BY <2>2, NothingIn, NothingLines DEF Rows
  <2>4. Lined(f[0], 0, R) /\ f[0].part = <<>>
    BY <2>1, <2>3, FillingIs
  <2>. QED BY <2>4 DEF Ready
<1>3. ASSUME NEW m \in 0 .. n, m < n, m \in P PROVE m + 1 \in P
  <2>1. m + 1 \in 0 .. n /\ m + 1 # 0 /\ (m + 1) - 1 = m
    BY <1>3
  <2>2. f[m + 1] = Step(text, splitter, f[m], m + 1)
    BY <1>1, <2>1 DEF Walk
  <2>3. Ready(text, splitter, f[m], m, R)
    BY <1>3
  <2>4. Ready(text, splitter, f[m + 1], m + 1, R)
    BY <1>3, <2>2, <2>3, StepReady
  <2>. QED BY <2>1, <2>4
<1>4. n \in P
  <2>1. n \in Nat /\ n \in 0 .. n
    OBVIOUS
  <2>. HIDE DEF P, n
  <2>. QED BY <1>2, <1>3, <2>1, UpTo
<1>. QED BY <1>1, <1>4

LEMMA PiecesLined ==
  ASSUME NEW text, NEW splitter, Len(text) \in Nat, DOMAIN text = 1 .. Len(text),
         NEW R, \A k \in Nat : Ahead(R, k), Symmetric(R) \/ ~Overtaken(text),
         \A x, y \in Nat : x < y => <<x, y>> \in R
  PROVE  /\ Pieces(text, splitter) \in Seq(Seq(DOMAIN text))
         /\ Lines(Pieces(text, splitter), R)
         /\ Within(Pieces(text, splitter)) = DOMAIN text
<1>. DEFINE n == Len(text)
<1>1. CASE ~TooLong(text, DOMAIN text)
  <2>. DEFINE all == Words(text)
  <2>1. all \in Seq(1 .. n) /\ DOMAIN all = 1 .. n /\ \A i \in 1 .. n : all[i] = i
    BY DEF Words
  <2>. HIDE DEF all
  <2>2. In(all) = 1 .. n
    BY <2>1 DEF In
  <2>3. Line(all, R)
    BY <2>1 DEF Line
  <2>4. /\ <<all>> \in Seq(Seq(1 .. n)) /\ DOMAIN <<all>> = {1} /\ <<all>>[1] = all
    BY <2>1
  <2>5. Within(<<all>>) = In(all)
    BY <2>4 DEF Within
  <2>6. Lines(<<all>>, R)
    BY <2>3, <2>4 DEF Lines
  <2>7. Pieces(text, splitter) = <<all>>
    BY <1>1 DEF Pieces, all
  <2>. QED BY <2>2, <2>4, <2>5, <2>6, <2>7
<1>2. CASE TooLong(text, DOMAIN text)
  <2>. DEFINE fill == Filled(text, splitter)
  <2>1. Lined(fill, n, R) /\ fill.part = <<>>
    BY FilledReady DEF Ready
  <2>2. Pieces(text, splitter) = Closing(fill.done, fill.current)
    BY <1>2 DEF Pieces
  <2>. HIDE DEF fill
  <2>3. /\ Closing(fill.done, fill.current) \in Seq(Seq(1 .. n))
        /\ Lines(Closing(fill.done, fill.current), R)
        /\ Within(Closing(fill.done, fill.current)) = Within(fill.done) \cup In(fill.current)
    BY <2>1, ClosingLines DEF Lined, Rows
  <2>4. Within(fill.done) \cup In(fill.current) = 1 .. n
    BY <2>1, NothingIn DEF Lined, Rows
  <2>. QED BY <2>2, <2>3, <2>4
<1>. QED BY <1>1, <1>2

(* The pieces that are read have all words of the script and each once, in *)
(* order unless it is one of those that are reordered.                     *)
Differ == {p \in Nat \X Nat : p[1] # p[2]}
Less == {p \in Nat \X Nat : p[1] < p[2]}
ReadOut ==
  /\ spoken \in Seq(BOOLEAN) /\ pieces \in Seq(Seq(DOMAIN script)) /\ Len(spoken) <= Len(pieces)
  /\ Within(pieces) = DOMAIN script /\ Len(script) \in Nat /\ DOMAIN script = 1 .. Len(script)
  /\ Lines(pieces, Differ) /\ (Overtaken(script) \/ Lines(pieces, Less))
  /\ reading = "read" => Len(spoken) = Len(pieces)

LEMMA Relations ==
  /\ \A k \in Nat : Ahead(Differ, k) /\ Ahead(Less, k)
  /\ Symmetric(Differ)
  /\ \A x, y \in Nat : x < y => <<x, y>> \in Differ /\ <<x, y>> \in Less
  /\ \A x, y : <<x, y>> \in Differ => x # y
  /\ \A x, y : <<x, y>> \in Less => x \in Nat /\ y \in Nat /\ x < y
BY DEF Differ, Less, Ahead, Symmetric

LEMMA NoneRead == script = <<>> /\ pieces = <<>> /\ spoken = <<>> /\ reading # "read" => ReadOut
<1>. SUFFICES ASSUME script = <<>>, pieces = <<>>, spoken = <<>>, reading # "read" PROVE ReadOut
  OBVIOUS
<1>1. spoken \in Seq(BOOLEAN) /\ pieces \in Seq(Seq(DOMAIN script)) /\ Len(spoken) <= Len(pieces)
  OBVIOUS
<1>2. DOMAIN script = {} /\ Len(script) = 0 /\ 1 .. 0 = {}
  OBVIOUS
<1>. QED BY <1>1, <1>2, NothingIn, NothingLines DEF ReadOut

LEMMA ReadReads ==
  ASSUME NEW splitter, Read(splitter)
  PROVE  ReadOut'
<1>1. PICK text \in Texts : script' = text /\ pieces' = Pieces(text, splitter)
  BY DEF Read
<1>2. Len(text) \in Nat /\ DOMAIN text = 1 .. Len(text)
  <2>1. PICK n \in 0 .. MaxWords : text \in [1 .. n -> [size : Sizes, ends : Ends]]
    BY DEF Texts
  <2>. DEFINE T == [size : Sizes, ends : Ends]
  <2>2. n \in Nat
    BY WordsAssumption
  <2>3. text \in [1 .. n -> T]
    BY <2>1
  <2>. HIDE DEF T
  <2>4. text \in Seq(T)
    BY <2>2, <2>3, SeqDef
  <2>. QED BY <2>4
<1>3. /\ pieces' \in Seq(Seq(DOMAIN text)) /\ Within(pieces') = DOMAIN text /\ Lines(pieces', Differ)
  BY <1>1, <1>2, PiecesLined, Relations
<1>4. Overtaken(text) \/ Lines(pieces', Less)
  BY <1>1, <1>2, PiecesLined, Relations
<1>5. spoken' = <<>> /\ reading' # "read"
  BY DEF Read
<1>6. spoken' \in Seq(BOOLEAN) /\ Len(spoken') <= Len(pieces')
  BY <1>2, <1>3, <1>5
<1>. QED BY <1>1, <1>2, <1>3, <1>4, <1>5, <1>6 DEF ReadOut

LEMMA ReadOutStep ==
  ASSUME ReadOut,
         \/ \E splitter : Read(splitter)
         \/ Reading \/ NextText \/ Stop \/ UNCHANGED pieceVars
  PROVE  ReadOut'
<1>1. CASE \E splitter : Read(splitter)
  BY <1>1, ReadReads
<1>2. ASSUME NEW sounds \in BOOLEAN, Frame(sounds) PROVE ReadOut'
  <2>1. /\ spoken' = Append(spoken, sounds) /\ Len(spoken) < Len(pieces) /\ reading' = "fetching"
        /\ UNCHANGED <<script, pieces>>
    BY <1>2 DEF Frame
  <2>2. Len(pieces) \in Nat /\ spoken \in Seq(BOOLEAN)
    BY DEF ReadOut
  <2>3. spoken' \in Seq(BOOLEAN) /\ Len(spoken') <= Len(pieces)
    BY <2>1, <2>2
  <2>. QED BY <2>1, <2>3 DEF ReadOut
<1>3. CASE Finished
  BY <1>3 DEF Finished, ReadOut
<1>4. CASE NextText
  <2>1. script' = <<>> /\ pieces' = <<>> /\ spoken' = <<>> /\ reading' # "read"
    BY <1>4 DEF NextText
  <2>2. spoken' \in Seq(BOOLEAN) /\ pieces' \in Seq(Seq(DOMAIN script')) /\ Len(spoken') <= Len(pieces')
    BY <2>1
  <2>3. DOMAIN script' = {} /\ Len(script') = 0 /\ 1 .. 0 = {}
    BY <2>1
  <2>. QED BY <2>1, <2>2, <2>3, NothingIn, NothingLines DEF ReadOut
<1>5. CASE Stop
  BY <1>5 DEF Stop, ReadOut
<1>6. CASE UNCHANGED pieceVars
  BY <1>6 DEF pieceVars, ReadOut
<1>. QED BY <1>1, <1>2, <1>3, <1>4, <1>5, <1>6 DEF Reading, Fetched, FetchFails

LEMMA ReadInOrder == ReadOut => SaidInOrder
<1>. SUFFICES ASSUME ReadOut PROVE SaidInOrder
  OBVIOUS
<1>1. /\ Len(spoken) \in Nat /\ Len(pieces) \in Nat /\ Len(spoken) <= Len(pieces)
      /\ DOMAIN pieces = 1 .. Len(pieces)
  BY DEF ReadOut
<1>. DEFINE All == UNION {{k} \X DOMAIN pieces[k] : k \in DOMAIN pieces}
<1>2. \A a \in All : a = <<a[1], a[2]>> /\ a[1] \in DOMAIN pieces /\ a[2] \in DOMAIN pieces[a[1]]
  OBVIOUS
<1>3. \A k \in DOMAIN pieces : \A i \in DOMAIN pieces[k] : <<k, i>> \in All
  OBVIOUS
<1>4. \A a : a \in Aloud <=> a \in All /\ a[1] <= Len(spoken)
  <2>1. ASSUME NEW a \in Aloud PROVE a \in All /\ a[1] <= Len(spoken)
    <3>1. PICK k \in 1 .. Len(spoken) : a \in {k} \X DOMAIN pieces[k]
      BY DEF Aloud
    <3>2. k \in DOMAIN pieces
      BY <1>1
    <3>. QED BY <3>1, <3>2
  <2>2. ASSUME NEW a \in All, a[1] <= Len(spoken) PROVE a \in Aloud
    <3>1. a[1] \in 1 .. Len(spoken) /\ a \in {a[1]} \X DOMAIN pieces[a[1]]
      BY <1>1, <1>2, <2>2
    <3>. QED BY <3>1 DEF Aloud
  <2>. QED BY <2>1, <2>2
<1>5. \A a \in All : \A i \in DOMAIN pieces[a[1]] : pieces[a[1]] \in Seq(DOMAIN script) /\ i \in Nat
  <2>1. \A k \in DOMAIN pieces : pieces[k] \in Seq(DOMAIN script)
    BY DEF ReadOut
  <2>. QED BY <1>2, <2>1
<1>. HIDE DEF All
<1>6. \A a, b \in All : Before(a, b) \/ Before(b, a) \/ a = b
  <2>. SUFFICES ASSUME NEW a \in All, NEW b \in All PROVE Before(a, b) \/ Before(b, a) \/ a = b
    OBVIOUS
  <2>1. a[1] \in Nat /\ b[1] \in Nat /\ a[2] \in Nat /\ b[2] \in Nat
    BY <1>1, <1>2, <1>5
  <2>2. a = <<a[1], a[2]>> /\ b = <<b[1], b[2]>>
    BY <1>2
  <2>. QED BY <2>1, <2>2 DEF Before
<1>7. ASSUME NEW R, Lines(pieces, R), NEW a \in All, NEW b \in All, Before(a, b)
      PROVE  <<WordAt(a), WordAt(b)>> \in R
  <2>1. /\ a[1] \in DOMAIN pieces /\ b[1] \in DOMAIN pieces
        /\ a[2] \in DOMAIN pieces[a[1]] /\ b[2] \in DOMAIN pieces[b[1]]
    BY <1>2
  <2>2. CASE a[1] < b[1]
    BY <1>7, <2>1, <2>2 DEF Lines, Sep, In, WordAt
  <2>3. CASE a[1] = b[1] /\ a[2] < b[2]
    BY <1>7, <2>1, <2>3 DEF Lines, Line, WordAt
  <2>. QED BY <1>7, <2>2, <2>3 DEF Before
<1>8. \A w \in DOMAIN script : \E a \in All : WordAt(a) = w
  <2>. SUFFICES ASSUME NEW w \in DOMAIN script PROVE \E a \in All : WordAt(a) = w
    OBVIOUS
  <2>1. PICK k \in DOMAIN pieces : w \in In(pieces[k])
    BY DEF ReadOut, Within
  <2>2. PICK i \in DOMAIN pieces[k] : w = pieces[k][i]
    BY <2>1 DEF In
  <2>3. WordAt(<<k, i>>) = w
    BY <2>2 DEF WordAt
  <2>. QED BY <1>3, <2>3
<1>9. \A a \in All : WordAt(a) \in DOMAIN script
  <2>1. \A k \in DOMAIN pieces : \A i \in DOMAIN pieces[k] : pieces[k][i] \in DOMAIN script
    BY DEF ReadOut
  <2>. QED BY <1>2, <2>1 DEF WordAt
<1>10. \A a, b \in Aloud : WordAt(a) = WordAt(b) => a = b
  <2>1. Lines(pieces, Differ)
    BY DEF ReadOut
  <2>. QED BY <1>4, <1>6, <1>7, <2>1, Relations
<1>11. reading = "read" => {WordAt(a) : a \in Aloud} = DOMAIN script
  <2>. SUFFICES ASSUME reading = "read" PROVE {WordAt(a) : a \in Aloud} = DOMAIN script
    OBVIOUS
  <2>1. \A a \in All : a \in Aloud
    <3>1. Len(spoken) = Len(pieces)
      BY DEF ReadOut
    <3>. QED BY <1>1, <1>2, <1>4, <3>1
  <2>. QED BY <1>4, <1>8, <1>9, <2>1
<1>12. ASSUME Lines(pieces, Less), NEW a \in Aloud, NEW w \in 1 .. WordAt(a) - 1
       PROVE  \E b \in Aloud : WordAt(b) = w /\ Before(b, a)
  <2>1. a \in All /\ WordAt(a) \in DOMAIN script /\ a[1] <= Len(spoken)
    BY <1>4, <1>9
  <2>2. w \in DOMAIN script /\ w < WordAt(a) /\ WordAt(a) \in Nat /\ w \in Nat
    <3>1. Len(script) \in Nat /\ DOMAIN script = 1 .. Len(script)
      BY DEF ReadOut
    <3>. QED BY <2>1, <3>1
  <2>3. PICK b \in All : WordAt(b) = w
    BY <1>8, <2>2
  <2>4. ~ Before(a, b)
    <3>1. Before(a, b) => WordAt(a) < WordAt(b)
      BY <1>7, <1>12, <2>1, Relations
    <3>. QED BY <2>2, <2>3, <3>1
  <2>5. Before(b, a)
    BY <1>6, <2>1, <2>2, <2>3, <2>4
  <2>6. b[1] <= Len(spoken)
    <3>1. a[1] \in Nat /\ b[1] \in Nat /\ b[1] <= a[1]
      BY <1>1, <1>2, <2>1, <2>5 DEF Before
    <3>. QED BY <1>1, <2>1, <3>1
  <2>. QED BY <1>4, <2>3, <2>5, <2>6
<1>. QED BY <1>10, <1>11, <1>12 DEF SaidInOrder, ReadOut

LEMMA InitReadOut == Init => ReadOut
BY NoneRead DEF Init, PieceInit

LEMMA ReadOutStays == ReadOut /\ [Next]_vars => ReadOut'
<1>. SUFFICES ASSUME ReadOut, [Next]_vars PROVE ReadOut'
  OBVIOUS
<1>1. \/ \E splitter : Read(splitter)
      \/ Reading \/ NextText \/ Stop \/ UNCHANGED pieceVars
  BY DEF Next, vars, Listen, Speak, ListenByRequest, SpeakByRequest, BargeIn, Streaming
<1>. QED BY <1>1, ReadOutStep

(* What the caller hears of an answer is one reading of it                 *)
(* (navai_ws_tts.py, yandex_tts.py, custom_tts.py): the audio of one       *)
(* attempt, or each word of the text once, whatever its length and its     *)
(* sentences, in order but for the long phrases of a long sentence, and    *)
(* all of them when the reading is finished.                               *)
THEOREM OneReadingIsHeard == Spec => []OneReading
<1>1. ReadOut => SaidInOrder
  BY ReadInOrder
<1>. QED
  BY <1>1, ChannelHoldsOneTake, InitReadOut, ReadOutStays, PTL DEF Spec, OneReading

-----------------------------------------------------------------------------
(* Types.                                                                  *)
(* The segments begun and the starts still to be taken up never exceed the *)
(* bound, and a session is of some segment.                                *)
Kinds == {"start", "window", "stop", "exhausted"}
Unbegun == {i \in DOMAIN queue : queue[i] = "start" /\ (i = 1 => task = "waiting")}
InSegment ==
  /\ seg + Cardinality(Unbegun) <= MaxSegments
  /\ socket # "none" \/ task \in {"dialing", "flushing"} => seg \in Segments
SttTyped == SttTypeOK /\ InSegment

LEMMA PlacesFinite ==
  ASSUME NEW q \in Seq(Kinds), NEW S \in SUBSET DOMAIN q
  PROVE  IsFiniteSet(S) /\ Cardinality(S) \in Nat
<1>1. DOMAIN q = 1 .. Len(q) /\ Len(q) \in Int /\ 1 \in Int
  OBVIOUS
<1>2. IsFiniteSet(DOMAIN q)
  BY <1>1, FS_Interval
<1>3. IsFiniteSet(S)
  BY <1>2, FS_Subset
<1>. QED BY <1>3, FS_CardinalityType

(* Places of one queue that lead to different ones of another are no more. *)
LEMMA NoMore ==
  ASSUME NEW q \in Seq(Kinds), NEW S, NEW T \in SUBSET DOMAIN q, NEW f \in [S -> T],
         \A i, j \in S : f[i] = f[j] => i = j
  PROVE  IsFiniteSet(S) /\ Cardinality(S) <= Cardinality(T)
<1>1. IsFiniteSet(T)
  BY PlacesFinite
<1>2. f \in Injection(S, T)
  BY DEF Injection, IsInjective
<1>. QED BY <1>1, <1>2, FS_Injection

LEMMA InitSttTyped == Init => SttTyped
<1>. SUFFICES ASSUME Init PROVE SttTyped
  OBVIOUS
<1>1. queue = <<>> /\ seg = 0 /\ DOMAIN queue = {} /\ task = "waiting" /\ socket = "none"
  BY DEF Init, SttInit
<1>2. Unbegun = {}
  BY <1>1 DEF Unbegun
<1>3. InSegment
  BY <1>1, <1>2, FS_EmptySet DEF InSegment
<1>4. said = [s \in Segments |-> <<>>] /\ <<>> \in Seq(0 .. MaxSegments)
  BY DEF Init, SttInit
<1>5. said \in [Segments -> Seq(0 .. MaxSegments)]
  BY <1>4
<1>6. queue \in Seq({"start", "window", "stop", "exhausted"}) /\ Len(queue) <= MaxQueued
  BY <1>1
<1>7. /\ speaking = FALSE /\ finalOut = FALSE /\ interim = 0 /\ loops = {} /\ heard = {} /\ ended = {}
      /\ dropped = {} /\ server = [s \in Segments |-> "listening"]
  BY SMT DEF Init, SttInit, Silence
<1>8. SttTypeOK
  <2>0. seg \in 0 .. MaxSegments /\ interim \in 0 .. MaxSegments
    BY <1>1, <1>7
  <2>1. /\ speaking \in BOOLEAN /\ finalOut \in BOOLEAN
        /\ task \in {"waiting", "dialing", "onset", "flushing", "closing", "over"}
        /\ socket \in {"none", "up", "lost"}
    BY <1>1, <1>7
  <2>2. server \in [Segments -> {"listening", "flushed", "finished"}]
    BY <1>7
  <2>3. loops \subseteq 1 .. seg /\ heard \subseteq 1 .. seg /\ ended \subseteq 1 .. seg /\ dropped \subseteq 1 .. seg
    BY <1>7
  <2>. QED BY <1>5, <1>6, <2>0, <2>1, <2>2, <2>3 DEF SttTypeOK
<1>. QED BY <1>3, <1>8 DEF SttTyped

LEMMA FinalBounded ==
  ASSUME SttTypeOK, NEW text \in 0 .. MaxSegments, EmitFinal(text)
  PROVE  finalOut' \in BOOLEAN /\ said' \in [Segments -> Seq(0 .. MaxSegments)]
<1>1. finalOut' \in BOOLEAN /\ said \in [Segments -> Seq(0 .. MaxSegments)]
  BY DEF EmitFinal, SttTypeOK
<1>2. CASE finalOut
  BY <1>1, <1>2 DEF EmitFinal
<1>3. CASE ~finalOut
  <2>1. said' = [said EXCEPT ![seg] = Append(said[seg], text)]
    BY <1>3 DEF EmitFinal
  <2>2. seg \in Segments => Append(said[seg], text) \in Seq(0 .. MaxSegments)
    BY <1>1
  <2>. QED BY <1>1, <2>1, <2>2
<1>. QED BY <1>1, <1>2, <1>3

(* What is detected is queued behind the rest.                             *)
LEMMA DetectTyped == SttTyped /\ Detector => SttTyped'
<1>. SUFFICES ASSUME SttTyped, Detector PROVE SttTyped'
  OBVIOUS
<1>1. PICK event \in Kinds, now \in BOOLEAN :
        Detect(event, now) /\ (event = "start" => Starts < MaxSegments)
  BY DEF Detector, DetectStart, DetectWindow, DetectStop, EndInput, Kinds
<1>2. /\ queue' = Append(queue, event) /\ speaking' = now /\ Len(queue) < MaxQueued
      /\ UNCHANGED <<task, seg, socket, loops, server, finalOut, interim, heard, said, ended, dropped>>
  BY <1>1 DEF Detect
<1>3. queue \in Seq(Kinds) /\ seg \in Nat /\ Len(queue) <= MaxQueued
  BY DEF SttTyped, SttTypeOK, Kinds
<1>4. /\ queue' \in Seq(Kinds) /\ Len(queue') <= MaxQueued
      /\ DOMAIN queue = 1 .. Len(queue) /\ Len(queue) \in Nat
      /\ DOMAIN queue' = DOMAIN queue \cup {Len(queue) + 1}
      /\ queue'[Len(queue) + 1] = event
      /\ \A i \in DOMAIN queue : queue'[i] = queue[i]
  BY <1>2, <1>3
<1>5. SttTypeOK'
  BY <1>2, <1>4 DEF SttTyped, SttTypeOK, Kinds
<1>6. seg + Cardinality(Unbegun') <= MaxSegments
  <2>1. CASE event # "start"
    <3>1. Unbegun' = Unbegun
      BY <1>2, <1>4, <2>1 DEF Unbegun
    <3>. QED BY <3>1 DEF SttTyped, InSegment
  <2>2. CASE event = "start"
    <3>. DEFINE S == {i \in DOMAIN queue : queue[i] = "start"}
                n == Len(queue) + 1
    <3>1. S \in SUBSET DOMAIN queue /\ n \notin S
      BY <1>4
    <3>2. IsFiniteSet(S) /\ Cardinality(S) \in Nat
      BY <1>3, <3>1, PlacesFinite
    <3>3. Unbegun' \subseteq S \cup {n}
      BY <1>4 DEF Unbegun
    <3>4. IsFiniteSet(S \cup {n}) /\ Cardinality(S \cup {n}) = Cardinality(S) + 1
      BY <3>1, <3>2, FS_AddElement
    <3>5. IsFiniteSet(Unbegun') /\ Cardinality(Unbegun') <= Cardinality(S \cup {n})
      BY <3>3, <3>4, FS_Subset
    <3>6. Cardinality(Unbegun') \in Nat
      BY <3>5, FS_CardinalityType
    <3>7. Starts = Cardinality(S) + seg
      BY DEF Starts
    <3>8. Starts < MaxSegments
      BY <1>1, <2>2
    <3>. HIDE DEF S, n
    <3>. QED BY <1>3, <3>2, <3>4, <3>5, <3>6, <3>7, <3>8
  <2>. QED BY <2>1, <2>2
<1>. QED BY <1>2, <1>5, <1>6 DEF SttTyped, InSegment

(* What is handled makes way for the rest.                                 *)
LEMMA HandledBounded ==
  ASSUME SttTyped, Handled, UNCHANGED seg, queue # <<>>
  PROVE  /\ queue' \in Seq(Kinds) /\ Len(queue') <= MaxQueued
         /\ task' \in {"waiting", "over"}
         /\ seg + Cardinality(Unbegun') <= MaxSegments
<1>1. queue \in Seq(Kinds) /\ seg \in Nat /\ Len(queue) <= MaxQueued
  BY DEF SttTyped, SttTypeOK, Kinds
<1>2. queue' = Tail(queue) /\ task' \in {"waiting", "over"}
  BY DEF Handled
<1>3. /\ queue' \in Seq(Kinds) /\ Len(queue') = Len(queue) - 1 /\ Len(queue) \in Nat
      /\ DOMAIN queue = 1 .. Len(queue) /\ DOMAIN queue' = 1 .. Len(queue) - 1
      /\ \A i \in DOMAIN queue' : queue'[i] = queue[i + 1]
  BY <1>1, <1>2
<1>. DEFINE f == [i \in Unbegun' |-> i + 1]
<1>4. Unbegun' \subseteq DOMAIN queue' /\ Unbegun \in SUBSET DOMAIN queue
  BY DEF Unbegun
<1>5. \A i \in Unbegun' : i + 1 \in Unbegun /\ i \in Nat
  BY <1>3, <1>4 DEF Unbegun
<1>6. f \in [Unbegun' -> Unbegun] /\ \A i, j \in Unbegun' : f[i] = f[j] => i = j
  BY <1>5
<1>7. IsFiniteSet(Unbegun') /\ Cardinality(Unbegun') <= Cardinality(Unbegun)
  <2>. HIDE DEF f
  <2>. QED BY <1>1, <1>4, <1>6, NoMore
<1>8. Cardinality(Unbegun) \in Nat /\ Cardinality(Unbegun') \in Nat
  BY <1>1, <1>4, <1>7, PlacesFinite, FS_CardinalityType
<1>9. seg + Cardinality(Unbegun) <= MaxSegments
  BY DEF SttTyped, InSegment
<1>. QED BY <1>1, <1>2, <1>3, <1>7, <1>8, <1>9

(* The queue is what it was, and so is what is under way.                  *)
LEMMA SameTyped ==
  ASSUME SttTyped, UNCHANGED <<queue, seg>>,
         \/ UNCHANGED task
         \/ task # "waiting" /\ task' # "waiting"
         \/ queue # <<>> /\ queue[1] # "start"
  PROVE  seg + Cardinality(Unbegun') <= MaxSegments
<1>1. Unbegun' = Unbegun
  BY DEF Unbegun
<1>. QED BY <1>1 DEF SttTyped, InSegment

LEMMA BeginTyped == SttTyped /\ BeginSegment => SttTyped'
<1>. SUFFICES ASSUME SttTyped, BeginSegment PROVE SttTyped'
  OBVIOUS
<1>1. /\ task = "waiting" /\ queue # <<>> /\ queue[1] = "start" /\ queue \in Seq(Kinds)
      /\ seg' = seg + 1 /\ finalOut' = FALSE /\ interim' = Silence /\ task' = "dialing"
      /\ UNCHANGED <<speaking, queue, socket, loops, server, heard, said, ended, dropped>>
  BY DEF BeginSegment, Due, SttTyped, SttTypeOK, Kinds
<1>2. Unbegun \in SUBSET DOMAIN queue /\ 1 \in Unbegun /\ Unbegun' = Unbegun \ {1}
  BY <1>1 DEF Unbegun
<1>3. IsFiniteSet(Unbegun) /\ Cardinality(Unbegun) \in Nat
  BY <1>1, <1>2, PlacesFinite
<1>4. Cardinality(Unbegun') = Cardinality(Unbegun) - 1
  BY <1>2, <1>3, FS_RemoveElement
<1>5. Unbegun # {} /\ Cardinality(Unbegun) # 0
  BY <1>2, <1>3, FS_EmptySet
<1>6. seg \in Nat /\ seg + Cardinality(Unbegun) <= MaxSegments
  BY DEF SttTyped, SttTypeOK, InSegment
<1>7. seg' \in Segments /\ seg' \in 0 .. MaxSegments /\ seg' + Cardinality(Unbegun') <= MaxSegments
  BY <1>1, <1>3, <1>4, <1>5, <1>6 DEF Segments
<1>8. 1 .. seg \subseteq 1 .. seg'
  BY <1>1, <1>6
<1>9. InSegment'
  BY <1>1, <1>7 DEF InSegment
<1>10. SttTypeOK
  BY DEF SttTyped
<1>11. interim' \in 0 .. MaxSegments
  BY <1>1 DEF Silence
<1>12. SttTypeOK'
  BY <1>1, <1>7, <1>8, <1>10, <1>11 DEF SttTypeOK
<1>. QED BY <1>9, <1>12 DEF SttTyped

(* A segment that is under way is one of those begun.                      *)
LEMMA UnderWay ==
  ASSUME SttTyped, socket # "none" \/ task \in {"dialing", "flushing"}
  PROVE  seg \in Segments /\ seg \in 1 .. seg /\ seg \in 0 .. MaxSegments
BY DEF SttTyped, InSegment, Segments

LEMMA TaskTyped == AtHead /\ SttTyped /\ Task => SttTyped'
<1>. SUFFICES ASSUME AtHead, SttTyped, Task PROVE SttTyped'
  OBVIOUS
<1>. USE DEF SttTyped
<1>1. SttTypeOK /\ InSegment
  OBVIOUS
<1>2. CASE BeginSegment
  BY <1>2, BeginTyped
<1>3. CASE Connected
  <2>1. /\ task = "dialing" /\ socket' = "up" /\ heard' = heard \cup {seg} /\ loops' = loops \cup {seg}
        /\ task' = "onset"
        /\ UNCHANGED <<speaking, queue, seg, server, finalOut, interim, said, ended, dropped>>
    BY <1>3 DEF Connected
  <2>2. seg + Cardinality(Unbegun') <= MaxSegments
    BY <2>1, SameTyped
  <2>. QED BY <1>1, <2>1, <2>2, UnderWay DEF SttTypeOK, InSegment
<1>4. ASSUME Handled, queue # <<>>, UNCHANGED <<speaking, seg, socket, server, interim, heard, dropped>>,
             loops' = loops, ended' \subseteq 1 .. seg,
             finalOut' \in BOOLEAN, said' \in [Segments -> Seq(0 .. MaxSegments)]
      PROVE  SttTyped'
  <2>1. /\ queue' \in Seq(Kinds) /\ Len(queue') <= MaxQueued /\ task' \in {"waiting", "over"}
        /\ seg + Cardinality(Unbegun') <= MaxSegments
    BY <1>4, HandledBounded
  <2>2. SttTypeOK'
    BY <1>1, <1>4, <2>1 DEF SttTypeOK, Kinds
  <2>. QED BY <1>1, <1>4, <2>1, <2>2 DEF InSegment
<1>5. CASE ConnectFails
  <2>1. /\ task = "dialing" /\ EmitFinal(Silence) /\ ended' = ended \cup {seg} /\ Handled
        /\ UNCHANGED <<speaking, seg, socket, loops, server, interim, heard, dropped>>
    BY <1>5 DEF ConnectFails
  <2>2. finalOut' \in BOOLEAN /\ said' \in [Segments -> Seq(0 .. MaxSegments)]
    BY <1>1, <2>1, FinalBounded DEF Silence
  <2>3. ended' \subseteq 1 .. seg
    BY <1>1, <2>1, UnderWay DEF SttTypeOK
  <2>. QED BY <1>4, <2>1, <2>2, <2>3 DEF AtHead
<1>6. CASE SendFrames \/ NothingToEnd \/ Closed
  <2>1. /\ Handled
        /\ UNCHANGED <<speaking, seg, socket, loops, server, finalOut, interim, heard, said, ended, dropped>>
    BY <1>6 DEF SendFrames, NothingToEnd, Closed
  <2>2. queue # <<>>
    BY <1>6 DEF SendFrames, NothingToEnd, Closed, Sending, Due, AtHead
  <2>. QED BY <1>1, <1>4, <2>1, <2>2 DEF SttTypeOK
<1>7. CASE SendFails
  <2>1. /\ socket = "lost" /\ loops' = loops \ {seg} /\ socket' = "none" /\ task' = "closing"
        /\ dropped' = dropped \cup {seg}
        /\ UNCHANGED <<speaking, queue, seg, server, finalOut, interim, heard, said, ended>>
    BY <1>7 DEF SendFails
  <2>2. task = "onset" \/ (queue # <<>> /\ queue[1] # "start")
    <3>1. task = "onset" \/ (queue # <<>> /\ Head(queue) = "window")
      BY <1>7 DEF SendFails, Sending, Due
    <3>2. queue # <<>> => Head(queue) = queue[1]
      BY <1>1 DEF SttTypeOK
    <3>. QED BY <3>1, <3>2
  <2>3. seg + Cardinality(Unbegun') <= MaxSegments
    BY <2>1, <2>2, SameTyped
  <2>. QED BY <1>1, <2>1, <2>3, UnderWay DEF SttTypeOK, InSegment
<1>8. CASE EndSegment
  <2>1. /\ socket # "none" /\ task' = "flushing"
        /\ server' = IF socket = "up" THEN [server EXCEPT ![seg] = "flushed"] ELSE server
        /\ UNCHANGED <<speaking, queue, seg, socket, loops, finalOut, interim, heard, said, ended, dropped>>
    BY <1>8 DEF EndSegment
  <2>2. queue # <<>> /\ queue[1] # "start"
    <3>1. queue # <<>> /\ Head(queue) \in Closers
      BY <1>8 DEF EndSegment, Due, Closers
    <3>. QED BY <1>1, <3>1 DEF SttTypeOK, Closers
  <2>3. seg + Cardinality(Unbegun') <= MaxSegments
    BY <2>1, <2>2, SameTyped
  <2>4. server' \in [Segments -> {"listening", "flushed", "finished"}]
    BY <1>1, <2>1 DEF SttTypeOK
  <2>. QED BY <1>1, <2>1, <2>3, <2>4, UnderWay DEF SttTypeOK, InSegment
<1>9. CASE FinishSegment
  <2>1. /\ task = "flushing" /\ loops' = loops \ {seg} /\ EmitFinal(interim)
        /\ ended' = ended \cup {seg} /\ socket' = "none" /\ task' = "closing"
        /\ UNCHANGED <<speaking, queue, seg, server, interim, heard, dropped>>
    BY <1>9 DEF FinishSegment
  <2>2. finalOut' \in BOOLEAN /\ said' \in [Segments -> Seq(0 .. MaxSegments)]
    BY <1>1, <2>1, FinalBounded DEF SttTypeOK
  <2>3. seg + Cardinality(Unbegun') <= MaxSegments
    BY <2>1, SameTyped
  <2>. QED BY <1>1, <2>1, <2>2, <2>3, UnderWay DEF SttTypeOK, InSegment
<1>. QED BY <1>2, <1>3, <1>5, <1>6, <1>7, <1>8, <1>9 DEF Task

LEMMA LoopsTyped == SttTyped /\ (Loops \/ SocketLost \/ TearDown) => SttTyped'
<1>. SUFFICES ASSUME SttTyped, Loops \/ SocketLost \/ TearDown PROVE SttTyped'
  OBVIOUS
<1>. USE DEF SttTyped
<1>1. SttTypeOK /\ InSegment
  OBVIOUS
<1>2. CASE TearDown
  <2>1. /\ task' = "over" /\ queue' = <<>> /\ speaking' = FALSE /\ loops' = {} /\ socket' = "none"
        /\ UNCHANGED <<seg, server, finalOut, interim, heard, said, ended, dropped>>
    BY <1>2 DEF TearDown
  <2>2. /\ queue' \in Seq({"start", "window", "stop", "exhausted"}) /\ Len(queue') <= MaxQueued
        /\ DOMAIN queue' = {}
    BY <2>1
  <2>3. Unbegun' = {}
    BY <2>2 DEF Unbegun
  <2>4. Cardinality(Unbegun') = 0
    BY <2>3, FS_EmptySet
  <2>5. SttTypeOK'
    BY <1>1, <2>1, <2>2 DEF SttTypeOK
  <2>6. seg \in 0 .. MaxSegments
    BY <1>1 DEF SttTypeOK
  <2>7. InSegment'
    BY <2>1, <2>4, <2>6 DEF InSegment
  <2>. QED BY <2>5, <2>7
<1>3. CASE SocketLost
  <2>1. /\ socket = "up" /\ socket' = "lost"
        /\ UNCHANGED <<speaking, queue, task, seg, loops, server, finalOut, interim, heard, said, ended, dropped>>
    BY <1>3 DEF SocketLost
  <2>2. seg + Cardinality(Unbegun') <= MaxSegments
    BY <2>1, SameTyped
  <2>. QED BY <1>1, <2>1, <2>2 DEF SttTypeOK, InSegment
<1>4. ASSUME NEW s \in Segments, ReceiveInterim(s) PROVE SttTyped'
  <2>1. /\ interim' = s
        /\ UNCHANGED <<speaking, queue, task, seg, socket, loops, server, finalOut, heard, said, ended, dropped>>
    BY <1>4 DEF ReceiveInterim
  <2>2. seg + Cardinality(Unbegun') <= MaxSegments
    BY <2>1, SameTyped
  <2>. QED BY <1>1, <2>1, <2>2 DEF SttTypeOK, InSegment, Segments
<1>5. ASSUME NEW s \in Segments, ReceiveFinal(s) PROVE SttTyped'
  <2>1. /\ server' = [server EXCEPT ![s] = "finished"]
        /\ UNCHANGED <<speaking, queue, task, seg, socket, loops, interim, heard, ended, dropped>>
    BY <1>5 DEF ReceiveFinal
  <2>2. PICK text \in 0 .. MaxSegments : EmitFinal(text)
    BY <1>1, <1>5 DEF ReceiveFinal, Silence, SttTypeOK, Segments
  <2>3. finalOut' \in BOOLEAN /\ said' \in [Segments -> Seq(0 .. MaxSegments)]
    BY <1>1, <2>2, FinalBounded
  <2>4. seg + Cardinality(Unbegun') <= MaxSegments
    BY <2>1, SameTyped
  <2>5. server' \in [Segments -> {"listening", "flushed", "finished"}]
    BY <1>1, <2>1 DEF SttTypeOK
  <2>. QED BY <1>1, <2>1, <2>3, <2>4, <2>5 DEF SttTypeOK, InSegment
<1>6. ASSUME NEW s \in Segments, ReceiveEnds(s) PROVE SttTyped'
  <2>1. /\ loops' = loops \ {s} /\ socket' \in {"none", "up", "lost"}
        /\ socket' # "none" => socket # "none"
        /\ UNCHANGED <<speaking, queue, task, seg, server, finalOut, interim, heard, said, ended, dropped>>
    BY <1>1, <1>6 DEF ReceiveEnds, SttTypeOK
  <2>2. seg + Cardinality(Unbegun') <= MaxSegments
    BY <2>1, SameTyped
  <2>. QED BY <1>1, <2>1, <2>2 DEF SttTypeOK, InSegment
<1>. QED BY <1>2, <1>3, <1>4, <1>5, <1>6 DEF Loops

LEMMA SttTypes == StreamInv /\ SttTyped /\ [Next]_vars => SttTyped'
<1>1. SttTyped /\ UNCHANGED sttVars => SttTyped'
  BY DEF sttVars, SttTyped, SttTypeOK, InSegment, Unbegun
<1>. QED BY <1>1, StreamSteps, DetectTyped, TaskTyped, LoopsTyped DEF SttNext, StreamInv

LEMMA TtsTypes == TtsTypeOK /\ [Next]_vars => TtsTypeOK'
<1>. SUFFICES ASSUME TtsTypeOK, [Next]_vars PROVE TtsTypeOK'
  OBVIOUS
<1>1. UNCHANGED ttsVars \/ Synthesis \/ NextRequest \/ Interrupt
  BY DEF Next, vars, Listen, Speak, ListenByRequest, SpeakByRequest, BargeIn, Requesting
<1>. USE DEF Synthesis, Attempting, Synthesize, Connect, Refused, Chunk, Returns, Fails, Retry, Dial,
             Interrupt, NextRequest, ttsVars
<1>2. attempt \in 0 .. MaxRetry /\ pushed \in 0 .. MaxChunks /\ MaxRetry \in Nat /\ MaxChunks \in Nat
  BY AttemptsAssumption DEF AttemptsAssumption, TtsTypeOK, Attempts
<1>3. attempt' = attempt \/ attempt' = 0 \/ (attempt < MaxRetry /\ attempt' = attempt + 1)
  BY <1>1
<1>4. pushed' = pushed \/ pushed' = 0 \/ (pushed < MaxChunks /\ pushed' = pushed + 1)
  BY <1>1
<1>5. attempt' \in Attempts /\ pushed' \in 0 .. MaxChunks
  BY <1>2, <1>3, <1>4 DEF Attempts
<1>6. takes' \subseteq Attempts
  <2>1. takes' = takes \/ takes' = {} \/ takes' = takes \cup {attempt}
    BY <1>1
  <2>. QED BY <2>1 DEF TtsTypeOK
<1>7. phase' \in {"idle", "dialing", "receiving", "spoken", "failed", "cut"}
  BY <1>1 DEF TtsTypeOK
<1>. QED BY <1>5, <1>6, <1>7 DEF TtsTypeOK

LEMMA RecTypes == RecTypeOK /\ [Next]_vars => RecTypeOK'
<1>. SUFFICES ASSUME RecTypeOK, [Next]_vars PROVE RecTypeOK'
  OBVIOUS
<1>1. UNCHANGED recVars \/ Hear(Override) \/ Gemini \/ Recognition
  BY DEF Next, vars, Listen, Speak, ListenByRequest, SpeakByRequest, BargeIn, Streaming
<1>. USE DEF recVars, Hear, First, Gemini, Unreadable, GeminiHears, GeminiMisses, GivesUp, Answer, Ask,
             Recognition, Request, RequestHears, RequestMisses
<1>2. turn \in 0 .. MaxTurns /\ tries \in 0 .. MaxTries /\ MaxTurns \in Nat /\ MaxTries \in Nat
  BY TurnsAssumption DEF TurnsAssumption, RecTypeOK
<1>3. turn' = turn \/ (turn < MaxTurns /\ turn' = turn + 1)
  BY <1>1
<1>4. tries' = tries \/ tries' = 0 \/ (tries + 1 < MaxTries /\ tries' = tries + 1)
  BY <1>1
<1>5. turn' \in 0 .. MaxTurns /\ tries' \in 0 .. MaxTries
  BY <1>2, <1>3, <1>4
<1>6. missed' \subseteq Engines
  <2>1. missed' \in {missed, {}, Engines, {"gemini"}, missed \cup {"request"}}
    BY <1>1
  <2>. QED BY <2>1 DEF RecTypeOK, Engines
<1>7. usedUp' \in BOOLEAN
  <2>1. usedUp' = usedUp \/ usedUp' = Override
    BY <1>1
  <2>2. Override \in BOOLEAN
    BY DEF Override
  <2>. QED BY <2>1, <2>2 DEF RecTypeOK
<1>8. engine' \in Engines \cup {"none"}
  <2>1. engine' \in {engine, "none", "gemini", "request"}
    BY <1>1
  <2>. QED BY <2>1 DEF RecTypeOK, Engines
<1>9. final' \in {"none", "text", "empty"}
  BY <1>1 DEF RecTypeOK
<1>. QED BY <1>5, <1>6, <1>7, <1>8, <1>9 DEF RecTypeOK

(* What is read is a text, and its pieces are of its words.                *)
ReadTyped == script \in Texts /\ reading \in {"idle", "fetching", "read", "stopped"}

LEMMA EmptyText == <<>> \in Texts
<1>. DEFINE T == [size : Sizes, ends : Ends]
<1>1. 0 \in 0 .. MaxWords
  BY WordsAssumption DEF WordsAssumption
<1>2. <<>> \in [1 .. 0 -> T]
  OBVIOUS
<1>. QED BY <1>1, <1>2 DEF Texts

LEMMA ReadTypes == ReadTyped /\ [Next]_vars => ReadTyped'
<1>. SUFFICES ASSUME ReadTyped, [Next]_vars PROVE ReadTyped'
  OBVIOUS
<1>1. \/ \E splitter : Read(splitter)
      \/ Reading \/ NextText \/ Stop \/ UNCHANGED pieceVars
  BY DEF Next, vars, Listen, Speak, ListenByRequest, SpeakByRequest, BargeIn, Streaming
<1>2. ASSUME NEW splitter, Read(splitter) PROVE ReadTyped'
  BY <1>2 DEF Read, ReadTyped
<1>3. CASE Reading \/ Stop \/ UNCHANGED pieceVars
  BY <1>3 DEF Reading, Fetched, FetchFails, Frame, Finished, Stop, pieceVars, ReadTyped
<1>4. CASE NextText
  BY <1>4, EmptyText DEF NextText, ReadTyped
<1>. QED BY <1>1, <1>2, <1>3, <1>4

(* Whatever the providers of a call, every variable of theirs has its type *)
(* and keeps to its bound: no more segments are begun than there are       *)
(* utterances, no more attempts or tries made than allowed, and a piece is *)
(* of the words of its text (navai_ws_stt.py, navai_ws_tts.py,             *)
(* gemini_live_stt.py, yandex_tts.py).                                     *)
THEOREM SpeechTypes == Spec => []TypeOK
<1>. DEFINE Inv == /\ pipeline \in Pipelines /\ StreamInv /\ SttTyped /\ TtsTypeOK /\ RecTypeOK
                   /\ ReadTyped /\ ReadOut
<1>1. Init => Inv
  <2>. SUFFICES ASSUME Init PROVE Inv
    OBVIOUS
  <2>0. 0 \in Attempts /\ 0 \in 0 .. MaxChunks /\ 0 \in 0 .. MaxTurns /\ 0 \in 0 .. MaxTries
    BY AttemptsAssumption, TurnsAssumption DEF AttemptsAssumption, TurnsAssumption, Attempts
  <2>1. TtsTypeOK /\ RecTypeOK
    BY <2>0 DEF Init, TtsInit, RecInit, TtsTypeOK, RecTypeOK
  <2>2. ReadTyped
    BY EmptyText DEF Init, PieceInit, ReadTyped
  <2>. QED BY <2>1, <2>2, InitStream, InitSttTyped, InitReadOut DEF Init
<1>2. Inv /\ [Next]_vars => Inv'
  <2>1. [Next]_vars => UNCHANGED pipeline
    BY DEF Next, vars, Listen, Speak, ListenByRequest, SpeakByRequest, BargeIn, Streaming, Requesting
  <2>. QED BY <2>1, StreamStep, SttTypes, TtsTypes, RecTypes, ReadTypes, ReadOutStays
<1>3. Inv => TypeOK
  BY DEF TypeOK, SttTyped, PieceTypeOK, ReadTyped, ReadOut
<1>. QED BY <1>1, <1>2, <1>3, PTL DEF Spec
=============================================================================
