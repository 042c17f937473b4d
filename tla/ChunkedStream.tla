---------------------------- MODULE ChunkedStream ----------------------------
(***************************************************************************)
(* Streaming synthesis over a WebSocket (NavaiWSTTS, ChunkedStream): one   *)
(* request is one attempt, or several: the SDK runs _run again after an    *)
(* APIError, into the same channel of audio.                               *)
(***************************************************************************)
EXTENDS Naturals

CONSTANTS
  MaxRetry,     \* conn_options.max_retry
  MaxChunks     \* bound on the audio chunks of an attempt

ASSUME AttemptsAssumption == MaxRetry \in Nat /\ MaxChunks \in Nat

Attempts == 0 .. MaxRetry

VARIABLES
  attempt,  \* the SDK's attempt, counted from 0
  phase,    \* of the attempt: idle, dialing, receiving; of the request: spoken, failed, cut
  pushed,   \* n_bytes of this attempt, in chunks
  takes     \* attempts whose audio is in the channel

ttsVars == <<attempt, phase, pushed, takes>>

TtsTypeOK ==
  /\ attempt \in Attempts /\ pushed \in 0 .. MaxChunks /\ takes \subseteq Attempts
  /\ phase \in {"idle", "dialing", "receiving", "spoken", "failed", "cut"}

TtsInit == attempt = 0 /\ phase = "idle" /\ pushed = 0 /\ takes = {}

-----------------------------------------------------------------------------
(* An attempt begins: for the first time, or because an APIError was       *)
(* raised and the SDK has an attempt left.                                 *)
Dial == phase' = "dialing" /\ pushed' = 0
Retry ==
  IF attempt < MaxRetry
  THEN Dial /\ attempt' = attempt + 1
  ELSE phase' = "failed" /\ UNCHANGED <<attempt, pushed>>

Synthesize == phase = "idle" /\ Dial /\ UNCHANGED <<attempt, takes>>

Connect == phase = "dialing" /\ phase' = "receiving" /\ UNCHANGED <<attempt, pushed, takes>>

(* The connection or the upgrade fails: APIConnectionError.                *)
Refused == phase = "dialing" /\ Retry /\ UNCHANGED takes

Chunk ==
  /\ phase = "receiving" /\ pushed < MaxChunks
  /\ pushed' = pushed + 1 /\ takes' = takes \cup {attempt}
  /\ UNCHANGED <<attempt, phase>>

(* done, or a close of the server: _run returns, and the SDK takes a       *)
(* request that pushed nothing for an APIError.                            *)
Returns ==
  /\ phase = "receiving"
  /\ IF pushed > 0 THEN phase' = "spoken" /\ UNCHANGED <<attempt, pushed>> ELSE Retry
  /\ UNCHANGED takes

(* An error event, a socket error, the synthesis ceiling or a dropped      *)
(* connection raises only before any audio; afterwards the partial audio   *)
(* is kept.                                                                *)
Fails_Raises ==                         \* mutant: every failure is the SDK's to retry
  /\ phase = "receiving" /\ Retry /\ UNCHANGED takes
Fails ==
  /\ phase = "receiving"
  /\ IF pushed > 0 THEN phase' = "spoken" /\ UNCHANGED <<attempt, pushed>> ELSE Retry
  /\ UNCHANGED takes

(* The SDK cancels what it no longer wants spoken, and asks for the next.  *)
Interrupt ==
  /\ phase \in {"dialing", "receiving"} /\ phase' = "cut" /\ UNCHANGED <<attempt, pushed, takes>>

NextRequest ==
  /\ phase \in {"spoken", "failed", "cut"}
  /\ attempt' = 0 /\ phase' = "idle" /\ pushed' = 0 /\ takes' = {}

(* Dialing and receiving have timeouts of their own (the connect timeout,  *)
(* ws_receive, max_synthesis_s).                                           *)
Attempting == Connect \/ Refused \/ Chunk \/ Returns \/ Fails
Synthesis == Synthesize \/ Attempting

-----------------------------------------------------------------------------
(* The caller hears one take: an attempt that pushed audio is never        *)
(* followed by another one of the same request.                            *)
OneTake == \A a, b \in takes : a = b
=============================================================================
