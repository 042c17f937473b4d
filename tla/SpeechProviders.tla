--------------------------- MODULE SpeechProviders ---------------------------
(***************************************************************************)
(* The speech providers of a call, as VoiceFactory chooses them: one       *)
(* recognizer, streaming or by request, and one synthesizer, streaming or  *)
(* by request.  What the caller says while the agent is speaking cuts the  *)
(* agent's speech (barge-in).                                              *)
(***************************************************************************)
EXTENDS SpeechStream, ChunkedStream, Recognizer, PieceStream

VARIABLES
  pipeline   \* the providers of the call

vars == <<pipeline, sttVars, ttsVars, recVars, pieceVars>>

(* create_stt_for_language and create_greeting_stt_for_language_choice: the *)
(* recognizers by request behave alike.                                     *)
(* greeting_ws is a greeting whose fallback is the streaming recognizer.    *)
Recognizers == {"navai_ws", "request", "greeting", "greeting_ws"}
(* create_tts_for_language: navai and custom split a text alike. *)
Synthesizers == {"navai_ws", "yandex", "custom"}
(* The kinds are explored together: streaming with streaming, request with *)
(* request.                                                                *)
Pipelines ==
  {p \in [stt : Recognizers, tts : Synthesizers] : p.stt = "navai_ws" <=> p.tts = "navai_ws"}

TypeOK == pipeline \in Pipelines /\ SttTypeOK /\ TtsTypeOK /\ RecTypeOK /\ PieceTypeOK

Init == pipeline \in Pipelines /\ SttInit /\ TtsInit /\ RecInit /\ PieceInit

Streaming == pipeline.stt = "navai_ws" /\ UNCHANGED <<pipeline, recVars, pieceVars>>
Requesting == pipeline.stt # "navai_ws" /\ UNCHANGED <<pipeline, sttVars, ttsVars>>

Listen == Streaming /\ SttNext /\ UNCHANGED ttsVars
Speak == Streaming /\ (Synthesis \/ NextRequest) /\ UNCHANGED sttVars

Override == pipeline.stt \in {"greeting", "greeting_ws"}
Recognition == Request(pipeline.stt # "greeting_ws")
ListenByRequest ==
  /\ Requesting /\ UNCHANGED pieceVars
  /\ Hear(Override) \/ Gemini \/ Recognition
SpeakByRequest ==
  /\ Requesting /\ UNCHANGED recVars
  /\ Read(pipeline.tts) \/ Reading \/ NextText

(* The SDK interrupts on the caller's speech: in the segment under way, or *)
(* before the utterance that will be asked for.                            *)
BargeIn ==
  \/ Streaming /\ seg \in heard \ ended /\ Interrupt /\ UNCHANGED sttVars
  \/ Requesting /\ engine = "none" /\ turn < MaxTurns /\ Stop /\ UNCHANGED recVars

Next == Listen \/ Speak \/ ListenByRequest \/ SpeakByRequest \/ BargeIn

(* Dialing, sending, receiving and waiting for a final or an answer all    *)
(* have timeouts, but for Gemini Live's turn; the recognizer's task runs   *)
(* as long as it has an event, and the detector hears the end of what it   *)
(* heard begin.                                                            *)
Fairness ==
  /\ WF_vars(Streaming /\ Task /\ UNCHANGED ttsVars)
  /\ SF_vars(Streaming /\ DetectStop /\ UNCHANGED ttsVars)
  /\ WF_vars(Streaming /\ Attempting /\ UNCHANGED sttVars)
  /\ WF_vars(Requesting /\ Recognition /\ UNCHANGED pieceVars)
  /\ WF_vars(Requesting /\ Reading /\ UNCHANGED recVars)

Spec == Init /\ [][Next]_vars /\ Fairness

-----------------------------------------------------------------------------
(* What the caller says is not lost silently: a segment ends in a final    *)
(* transcript unless a failed send aborted it, and an utterance is empty   *)
(* only if the last recognizer that could hear it did not.                 *)
EveryTurnAnswered == FinalUnlessDropped /\ EmptyIfUnheard

(* The caller hears one reading of what the agent says: the audio of one   *)
(* attempt, or each piece of the text once and in order.                   *)
OneReading == OneTake /\ SaidInOrder

(* No utterance and no request hangs: a segment that was announced ends or *)
(* is aborted, an utterance the tenant's recognizer has is answered, and   *)
(* what is spoken is spoken to its end, given up or cut.                   *)
SpeechSettles ==
  /\ SegmentsEnd
  /\ (engine = "request") ~> (final # "none")
  /\ (phase \in {"dialing", "receiving"}) ~> (phase \in {"spoken", "failed", "cut"})
  /\ (reading = "fetching") ~> (reading \in {"read", "stopped"})
=============================================================================
