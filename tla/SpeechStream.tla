----------------------------- MODULE SpeechStream -----------------------------
(***************************************************************************)
(* Streaming recognition over a WebSocket (NavaiWSSTT, SpeechStream): the  *)
(* voice activity detector opens and closes segments, one task owns the    *)
(* socket of the segment, and a receive loop per segment turns what the    *)
(* server says into transcripts.                                           *)
(*                                                                         *)
(* A transcript is abstracted to the segment whose audio it was made of.   *)
(***************************************************************************)
EXTENDS Naturals, Sequences, FiniteSets

CONSTANTS
  MaxSegments,  \* bound on the utterances of a call
  MaxQueued     \* bound on the events the detector is ahead of the task

ASSUME SegmentsAssumption == MaxSegments \in Nat /\ MaxQueued \in Nat

Segments == 1 .. MaxSegments
Silence == 0    \* the empty transcript

VARIABLES
  speaking,  \* what the detector hears: TRUE between START and END of speech
  queue,     \* detector events the task has not finished with
  task,      \* consume_vad: where it awaits
  seg,       \* the last segment begun
  socket,    \* self._ws: none, up, lost (its peer is gone)
  loops,     \* segments whose receive loop runs
  server,    \* the server's session of each segment
  finalOut,  \* self._final_emitted
  interim,   \* self._last_interim
  heard,     \* emitted: the segments announced by START_OF_SPEECH
  said,      \* emitted: the FINAL transcripts of each segment
  ended,     \* emitted: the segments closed by END_OF_SPEECH
  dropped    \* history: segments aborted because a send failed

sttVars == <<speaking, queue, task, seg, socket, loops, server, finalOut, interim,
             heard, said, ended, dropped>>

SttTypeOK ==
  /\ speaking \in BOOLEAN /\ finalOut \in BOOLEAN
  /\ queue \in Seq({"start", "window", "stop", "exhausted"}) /\ Len(queue) <= MaxQueued
  /\ task \in {"waiting", "dialing", "onset", "flushing", "closing", "over"}
  /\ seg \in 0 .. MaxSegments /\ interim \in 0 .. MaxSegments
  /\ socket \in {"none", "up", "lost"}
  /\ loops \subseteq 1 .. seg
  /\ server \in [Segments -> {"listening", "flushed", "finished"}]
  /\ said \in [Segments -> Seq(0 .. MaxSegments)]
  /\ heard \subseteq 1 .. seg /\ ended \subseteq 1 .. seg /\ dropped \subseteq 1 .. seg

SttInit ==
  /\ speaking = FALSE /\ queue = <<>> /\ task = "waiting" /\ seg = 0
  /\ socket = "none" /\ loops = {} /\ server = [s \in Segments |-> "listening"]
  /\ finalOut = FALSE /\ interim = Silence
  /\ heard = {} /\ said = [s \in Segments |-> <<>>] /\ ended = {} /\ dropped = {}

-----------------------------------------------------------------------------
(* The voice activity detector, fed by forward_input. *)

Starts == Cardinality({i \in DOMAIN queue : queue[i] = "start"}) + seg
Open == "exhausted" \notin {queue[i] : i \in DOMAIN queue} /\ task # "over"

Detect(event, now) ==
  /\ Open /\ Len(queue) < MaxQueued
  /\ queue' = Append(queue, event) /\ speaking' = now
  /\ UNCHANGED <<task, seg, socket, loops, server, finalOut, interim, heard, said, ended, dropped>>

DetectStart == ~speaking /\ Starts < MaxSegments /\ Detect("start", TRUE)
DetectWindow == speaking /\ Detect("window", TRUE)
DetectStop == speaking /\ Detect("stop", FALSE)
EndInput == Detect("exhausted", FALSE)

-----------------------------------------------------------------------------
(* What is emitted for the segment the stream is in. *)

EmitFinal(text) ==
  /\ finalOut' = TRUE
  /\ said' = IF finalOut THEN said ELSE [said EXCEPT ![seg] = Append(@, text)]

Due(event) == task = "waiting" /\ queue # <<>> /\ Head(queue) = event
(* The task is done with the event at the head of the queue. *)
Handled == queue' = Tail(queue) /\ task' = IF Head(queue) = "exhausted" THEN "over" ELSE "waiting"

(* _begin_segment: the fields of the segment are reset, then it connects. *)
BeginSegment ==
  /\ Due("start")
  /\ seg' = seg + 1 /\ finalOut' = FALSE /\ interim' = Silence
  /\ task' = "dialing"
  /\ UNCHANGED <<speaking, queue, socket, loops, server, heard, said, ended, dropped>>

Connected ==
  /\ task = "dialing"
  /\ socket' = "up" /\ heard' = heard \cup {seg} /\ loops' = loops \cup {seg}
  /\ task' = "onset"
  /\ UNCHANGED <<speaking, queue, seg, server, finalOut, interim, said, ended, dropped>>

(* The server cannot be reached: an empty FINAL, so that the turn commits. *)
ConnectFails ==
  /\ task = "dialing"
  /\ EmitFinal(Silence) /\ ended' = ended \cup {seg}
  /\ Handled
  /\ UNCHANGED <<speaking, seg, socket, loops, server, interim, heard, dropped>>

Sending == task = "onset" \/ Due("window")

(* _send_frames; frames that find no session are discarded. *)
SendFrames ==
  /\ Sending
  /\ Handled
  /\ UNCHANGED <<speaking, seg, socket, loops, server, finalOut, interim, heard, said, ended,
                 dropped>>

(* A send on a socket that is gone aborts the session: _abort_session. *)
SendFails_LoopLives ==                  \* mutant: the receive loop is left running
  /\ Sending /\ socket = "lost"
  /\ socket' = "none" /\ task' = "closing"
  /\ dropped' = dropped \cup {seg}
  /\ UNCHANGED <<speaking, queue, seg, loops, server, finalOut, interim, heard, said, ended>>
SendFails ==
  /\ Sending /\ socket = "lost"
  /\ loops' = loops \ {seg} /\ socket' = "none" /\ task' = "closing"
  /\ dropped' = dropped \cup {seg}
  /\ UNCHANGED <<speaking, queue, seg, server, finalOut, interim, heard, said, ended>>

(* _end_segment, when no session is open. *)
NothingToEnd ==
  /\ Due("stop") \/ Due("exhausted")
  /\ socket = "none"
  /\ Handled
  /\ UNCHANGED <<speaking, seg, socket, loops, server, finalOut, interim, heard, said, ended,
                 dropped>>

(* _end_segment asks for the final transcript; the failure to ask is       *)
(* ignored.                                                                *)
EndSegment ==
  /\ Due("stop") \/ Due("exhausted")
  /\ socket # "none"
  /\ server' = IF socket = "up" THEN [server EXCEPT ![seg] = "flushed"] ELSE server
  /\ task' = "flushing"
  /\ UNCHANGED <<speaking, queue, seg, socket, loops, finalOut, interim, heard, said, ended,
                 dropped>>

(* The receive loop has returned, or max_utterance_s have passed and it is *)
(* cancelled; without a FINAL the last interim is taken for it.            *)
FinishSegment_NoFallback ==             \* mutant: only the server's final counts
  /\ task = "flushing"
  /\ loops' = loops \ {seg}
  /\ ended' = ended \cup {seg} /\ socket' = "none" /\ task' = "closing"
  /\ UNCHANGED <<speaking, queue, seg, server, interim, heard, dropped, finalOut, said>>
FinishSegment_NoTimeout ==              \* mutant: the receive loop is awaited for as long as it takes
  /\ task = "flushing" /\ seg \notin loops
  /\ EmitFinal(interim)
  /\ ended' = ended \cup {seg} /\ socket' = "none" /\ task' = "closing"
  /\ UNCHANGED <<speaking, queue, seg, loops, server, interim, heard, dropped>>
FinishSegment ==
  /\ task = "flushing"
  /\ loops' = loops \ {seg}
  /\ EmitFinal(interim)
  /\ ended' = ended \cup {seg} /\ socket' = "none" /\ task' = "closing"
  /\ UNCHANGED <<speaking, queue, seg, server, interim, heard, dropped>>

Closed ==
  /\ task = "closing" /\ Handled
  /\ UNCHANGED <<speaking, seg, socket, loops, server, finalOut, interim, heard, said, ended,
                 dropped>>

(* The stream is closed from outside: every task of it is cancelled. *)
TearDown ==
  /\ task # "over"
  /\ task' = "over" /\ queue' = <<>> /\ speaking' = FALSE /\ loops' = {} /\ socket' = "none"
  /\ UNCHANGED <<seg, server, finalOut, interim, heard, said, ended, dropped>>

-----------------------------------------------------------------------------
(* The receive loops, and the server at the other end. *)

ReceiveInterim(s) ==
  /\ s \in loops /\ server[s] # "finished" /\ interim # s
  /\ interim' = s
  /\ UNCHANGED <<speaking, queue, task, seg, socket, loops, server, finalOut, heard, said, ended,
                 dropped>>

(* One final, and only once it was asked for; it may be empty. *)
ReceiveFinal(s) ==
  /\ s \in loops /\ server[s] = "flushed"
  /\ \E text \in {s, Silence} : EmitFinal(IF text = Silence THEN interim ELSE text)
  /\ server' = [server EXCEPT ![s] = "finished"]
  /\ UNCHANGED <<speaking, queue, task, seg, socket, loops, interim, heard, ended, dropped>>

(* done, an error, a close or a silence of the server ends the loop.       *)
ReceiveEnds(s) ==
  /\ s \in loops
  /\ loops' = loops \ {s}
  /\ socket' \in IF s = seg /\ socket = "up" THEN {"up", "lost"} ELSE {socket}
  /\ UNCHANGED <<speaking, queue, task, seg, server, finalOut, interim, heard, said, ended,
                 dropped>>

SocketLost ==
  /\ socket = "up" /\ socket' = "lost"
  /\ UNCHANGED <<speaking, queue, task, seg, loops, server, finalOut, interim, heard, said,
                 ended, dropped>>

-----------------------------------------------------------------------------
Detector == DetectStart \/ DetectWindow \/ DetectStop \/ EndInput
Task ==
  \/ BeginSegment \/ Connected \/ ConnectFails \/ SendFrames \/ SendFails
  \/ NothingToEnd \/ EndSegment \/ FinishSegment \/ Closed
Loops == \E s \in Segments : ReceiveInterim(s) \/ ReceiveFinal(s) \/ ReceiveEnds(s)

SttNext == Detector \/ Task \/ Loops \/ SocketLost \/ TearDown

-----------------------------------------------------------------------------
(* A segment has at most one FINAL transcript, made of its own audio: no   *)
(* receive loop and no interim outlives the segment it belongs to          *)
(* (_final_emitted and _last_interim are fields of the stream).            *)
OneFinalOfItsOwn ==
  \A s \in Segments : Len(said[s]) <= 1 /\ \A i \in DOMAIN said[s] : said[s][i] \in {Silence, s}

(* A segment the stream has left has its FINAL and its end of speech,      *)
(* unless a send that failed aborted it: timeouts, errors and refused      *)
(* connections alike are answered with the best transcript there is.       *)
Left(s) == s < seg \/ (s = seg /\ socket = "none" /\ task \in {"waiting", "closing"})
FinalUnlessDropped ==
  \A s \in Segments : Left(s) => (said[s] # <<>> /\ s \in ended) \/ s \in dropped

(* Every START_OF_SPEECH is followed by an END_OF_SPEECH, unless a failed  *)
(* send aborted the segment or the stream was closed.                      *)
SegmentsEnd ==
  \A s \in Segments : (s \in heard) ~> (s \in ended \cup dropped \/ task = "over")
=============================================================================
