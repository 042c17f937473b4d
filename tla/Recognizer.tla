------------------------------ MODULE Recognizer ------------------------------
(***************************************************************************)
(* Recognition by request (YandexSTT, NavaiSTT, CustomSTT): one utterance, *)
(* one request, one final transcript, empty if there is nothing better.    *)
(* The first utterance of a multilingual call may go to Gemini Live first  *)
(* (GeminiLiveSTT), with the recognizer of the tenant to fall back on.     *)
(***************************************************************************)
EXTENDS Naturals

CONSTANTS
  MaxTurns,   \* bound on the utterances of a call
  MaxTries    \* models of Gemini Live times the attempts at each

ASSUME TurnsAssumption == MaxTurns \in Nat /\ MaxTries \in Nat \ {0}

VARIABLES
  turn,       \* utterances so far
  engine,     \* what the utterance waits for: none, gemini, request
  tries,      \* attempts Gemini Live has used up
  usedUp,     \* self._gemini_used
  missed,     \* engines that made nothing of this utterance, or never got it
  final       \* the transcript of the utterance: none, text, empty

recVars == <<turn, engine, tries, usedUp, missed, final>>

Engines == {"gemini", "request"}

RecTypeOK ==
  /\ turn \in 0 .. MaxTurns /\ tries \in 0 .. MaxTries /\ usedUp \in BOOLEAN
  /\ engine \in Engines \cup {"none"} /\ missed \subseteq Engines
  /\ final \in {"none", "text", "empty"}

RecInit ==
  /\ turn = 0 /\ engine = "none" /\ tries = 0 /\ usedUp = FALSE /\ missed = {} /\ final = "none"

-----------------------------------------------------------------------------
Ask(which) == engine' = which /\ final' = "none" /\ UNCHANGED <<turn, usedUp, tries>>
Answer(text) == engine' = "none" /\ final' = text /\ UNCHANGED <<turn, usedUp, tries>>

(* Where an utterance goes first: the override answers one of them.        *)
First_Always(override) ==               \* mutant: every utterance goes to Gemini
  IF override THEN "gemini" ELSE "request"
First(override) == IF override /\ ~usedUp THEN "gemini" ELSE "request"

Hear(override) ==
  /\ engine = "none" /\ turn < MaxTurns
  /\ turn' = turn + 1 /\ tries' = 0 /\ missed' = {} /\ final' = "none"
  /\ engine' = First(override)
  /\ usedUp' = override

(* Audio that cannot be converted goes to nobody.                          *)
Unreadable == engine = "gemini" /\ tries = 0 /\ missed' = Engines /\ Answer("empty")

(* An attempt of Gemini Live: an error and an empty transcript both lead   *)
(* to the next attempt, the last of them to the tenant's recognizer.       *)
GeminiHears == engine = "gemini" /\ Answer("text") /\ UNCHANGED missed
GeminiMisses ==
  /\ engine = "gemini" /\ tries + 1 < MaxTries
  /\ tries' = tries + 1
  /\ UNCHANGED <<turn, engine, usedUp, missed, final>>

GivesUp_Empty ==                        \* mutant: no falling back
  engine = "gemini" /\ tries + 1 = MaxTries /\ missed' = {"gemini"} /\ Answer("empty")
GivesUp ==
  engine = "gemini" /\ tries + 1 = MaxTries /\ missed' = {"gemini"} /\ Ask("request")

(* Audio that is too short is not sent; an error status, an exception, a   *)
(* timeout and an empty answer of the server are one and the same.  Asked  *)
(* by GeminiLiveSTT, NavaiWSSTT fails before it connects: it is given no   *)
(* connection options and reads their timeout.                             *)
RequestHears(works) ==
  works /\ engine = "request" /\ Answer("text") /\ UNCHANGED missed
RequestMisses ==
  /\ engine = "request"
  /\ missed' = missed \cup {"request"}
  /\ Answer("empty")

Gemini == Unreadable \/ GeminiHears \/ GeminiMisses \/ GivesUp
Request(works) == RequestHears(works) \/ RequestMisses

-----------------------------------------------------------------------------
(* An utterance is empty only if the tenant's recognizer made nothing of   *)
(* it, or nobody could: what Gemini Live fails to hear is not lost; and it *)
(* is asked in the first turn only (_recognize_impl, _fallback_result).    *)
EmptyIfUnheard ==
  /\ final = "empty" => "request" \in missed
  /\ engine = "gemini" => turn = 1
=============================================================================
