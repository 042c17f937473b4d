----------------------------- MODULE VoiceBridge -----------------------------
(***************************************************************************)
(* The AssemblyAI bridge (assemblyai_voice/bridge.py): a process per room  *)
(* that joins it, opens one voice session for the first caller it hears,   *)
(* runs the tools the session calls and sends their results back at the    *)
(* end of the reply that asked for them.                                   *)
(*                                                                         *)
(* A tool is one the scenario under evaluation requires, or one it         *)
(* forbids; what the tools do is ToolDispatcher's matter, here it is only  *)
(* whether the required one has settled the scenario's demo rows.          *)
(***************************************************************************)
EXTENDS Naturals, Sequences, FiniteSets

CONSTANTS
  MaxRooms,   \* bound on the rooms, one per evaluation
  MaxCalls,   \* bound on the tool calls of all rooms together
  Newest      \* rows list_runtime_events answers with, of all rooms (300)

ASSUME BoundsAssumption == MaxRooms \in Nat /\ MaxCalls \in Nat /\ Newest \in Nat \ {0}

Rooms == 1 .. MaxRooms
Tools == {"required", "forbidden"}
Kinds == Tools \cup {"talk", "error"}
(* A row a verdict looks at, and any other: of another room, of a bridge   *)
(* that is not under evaluation, or that the caller spoke or interrupted.  *)
Other == <<0, "other">>
Rows == (Rooms \X Kinds) \cup {Other}

VARIABLES
  worker,       \* the process: none, joining, waiting for a track, session, live, over, dead
  term,         \* rooms whose process was sent SIGTERM
  calls,        \* the tools run in a room, in order
  pending,      \* pending_tool_results, as positions in calls
  told,         \* results sent to the session, as positions in calls
  interrupted,  \* history: calls whose reply was interrupted
  rows,         \* the newest rows of runtime_events, the last one stored last
  unrecorded,   \* history: rooms whose event of a call could not be stored
  pushedOut,    \* history: rooms whose row of a forbidden call is none of the newest any more
  settled       \* the demo rows are as the required tool leaves them

bridgeVars == <<worker, term, calls, pending, told, interrupted, rows, unrecorded, pushedOut, settled>>
eventVars == <<rows, pushedOut>>

Positions == 1 .. MaxCalls

BridgeTypeOK ==
  /\ worker \in [Rooms -> {"none", "joining", "waiting", "session", "live", "over", "dead"}]
  /\ term \subseteq Rooms /\ unrecorded \subseteq Rooms /\ pushedOut \subseteq Rooms
  /\ settled \in BOOLEAN
  /\ calls \in [Rooms -> Seq(Tools)]
  /\ pending \in [Rooms -> Seq(Positions)] /\ told \in [Rooms -> Seq(Positions)]
  /\ interrupted \in [Rooms -> SUBSET Positions]
  /\ rows \in Seq(Rows) /\ Len(rows) <= Newest

BridgeInit ==
  /\ worker = [r \in Rooms |-> "none"] /\ term = {}
  /\ calls = [r \in Rooms |-> <<>>]
  /\ pending = [r \in Rooms |-> <<>>] /\ told = [r \in Rooms |-> <<>>]
  /\ interrupted = [r \in Rooms |-> {}]
  /\ rows = <<>> /\ unrecorded = {} /\ pushedOut = {}
  /\ settled = FALSE

-----------------------------------------------------------------------------
(* run_bridge: the process and its room. *)

Become(r, w) == worker' = [worker EXCEPT ![r] = w]
toolVars == <<calls, pending, told, interrupted>>

(* Publishing its own track, or a missing key or tenant that ends it.      *)
Join(r) ==
  /\ worker[r] = "joining" /\ \E w \in {"waiting", "dead"} : Become(r, w)
  /\ UNCHANGED <<term, toolVars, eventVars, unrecorded, settled>>

(* on_track: the first audio track gets the one session of the process.    *)
OnTrack(r) ==
  /\ worker[r] = "waiting" /\ Become(r, "session")
  /\ UNCHANGED <<term, toolVars, eventVars, unrecorded, settled>>

(* stop is set; the session is cancelled, the room left, and with the      *)
(* process goes what the bridge remembered.                                *)
Exit(r) ==
  /\ r \in term /\ worker[r] \in {"joining", "waiting", "session", "live", "over"}
  /\ Become(r, "dead")
  /\ pending' = [pending EXCEPT ![r] = <<>>] /\ told' = [told EXCEPT ![r] = <<>>]
  /\ interrupted' = [interrupted EXCEPT ![r] = {}]
  /\ UNCHANGED <<term, calls, eventVars, unrecorded, settled>>

-----------------------------------------------------------------------------
(* AssemblyAIBridge: the events of the session.                            *)

Receiving(r) == worker[r] \in {"session", "live"}

(* record_runtime_event, as far as list_runtime_events can show it.        *)
Store(row) ==
  \/ /\ Len(rows) < Newest
     /\ rows' = Append(rows, row) /\ UNCHANGED pushedOut
  \/ /\ Len(rows) = Newest
     /\ rows' = Append(Tail(rows), row)
     /\ pushedOut' = pushedOut \cup {r \in Rooms : Head(rows) = <<r, "forbidden">>}
Shown(r) == {kind \in Kinds : \E i \in DOMAIN rows : rows[i] = <<r, kind>>}

(* The rows no verdict looks at.                                           *)
OtherRow ==
  /\ Store(Other)
  /\ UNCHANGED <<worker, term, toolVars, unrecorded, settled>>

SessionReady(r) ==
  /\ worker[r] = "session" /\ Become(r, "live")
  /\ UNCHANGED <<term, toolVars, eventVars, unrecorded, settled>>

(* Only once the session is ready it hears the caller, and answers: the    *)
(* transcripts of both, and the audio of the reply.                        *)
Transcript(r) ==
  /\ worker[r] = "live" /\ Store(<<r, "talk">>)
  /\ UNCHANGED <<worker, term, toolVars, unrecorded, settled>>

Made == Cardinality({c \in Rooms \X Positions : c[2] <= Len(calls[c[1]])})

CallId(r) == Len(calls[r]) + 1

(* The call is run first, its result kept, and then its event stored: when *)
(* that fails the session is over, and the call has no event.              *)
ToolCall(r) ==
  /\ worker[r] = "live" /\ Made < MaxCalls
  /\ \E tool \in Tools, ok \in BOOLEAN, stored \in BOOLEAN :
       /\ calls' = [calls EXCEPT ![r] = Append(@, tool)]
       /\ pending' = [pending EXCEPT ![r] = Append(@, CallId(r))]
       /\ settled' = (settled \/ (tool = "required" /\ ok))
       /\ IF stored
          THEN Store(<<r, tool>>) /\ UNCHANGED <<worker, unrecorded>>
          ELSE Become(r, "over") /\ unrecorded' = unrecorded \cup {r} /\ UNCHANGED eventVars
  /\ UNCHANGED <<term, told, interrupted>>

(* reply.done: the list is swapped for an empty one, then sent item by     *)
(* item; a send that fails loses the rest, and the session.                *)
ReplyDone_Kept(r) ==                    \* mutant: the list is sent but not emptied
  /\ worker[r] = "live" /\ pending[r] # <<>> /\ Len(told[r]) < 2 * MaxCalls
  /\ told' = [told EXCEPT ![r] = @ \o pending[r]]
  /\ UNCHANGED <<worker, term, calls, pending, interrupted, eventVars, unrecorded, settled>>
ReplyDone(r) ==
  /\ worker[r] = "live" /\ pending[r] # <<>>
  /\ pending' = [pending EXCEPT ![r] = <<>>]
  /\ \E sent \in 0 .. Len(pending[r]) :
       /\ told' = [told EXCEPT ![r] = @ \o SubSeq(pending[r], 1, sent)]
       /\ IF sent < Len(pending[r]) THEN Become(r, "over") ELSE UNCHANGED worker
  /\ UNCHANGED <<term, calls, interrupted, eventVars, unrecorded, settled>>

(* An interrupted reply takes the results nobody will ask for with it.     *)
(* Its row is stored last; a store that fails ends the session.            *)
ReplyInterrupted(r) ==
  /\ worker[r] = "live" /\ pending[r] # <<>>
  /\ interrupted' = [interrupted EXCEPT ![r] = @ \cup {pending[r][i] : i \in DOMAIN pending[r]}]
  /\ pending' = [pending EXCEPT ![r] = <<>>]
  /\ \/ Store(Other) /\ UNCHANGED worker
     \/ Become(r, "over") /\ UNCHANGED eventVars
  /\ UNCHANGED <<term, calls, told, unrecorded, settled>>

SessionError(r) ==
  /\ Receiving(r) /\ Store(<<r, "error">>) /\ Become(r, "over")
  /\ UNCHANGED <<term, toolVars, unrecorded, settled>>

(* The socket closes.  active_task stays set: this was the only session.   *)
SocketCloses(r) ==
  /\ Receiving(r) /\ Become(r, "over")
  /\ UNCHANGED <<term, toolVars, eventVars, unrecorded, settled>>

Session(r) ==
  \/ SessionReady(r) \/ Transcript(r) \/ ToolCall(r) \/ ReplyDone(r) \/ ReplyInterrupted(r)
  \/ SessionError(r) \/ SocketCloses(r)

-----------------------------------------------------------------------------
(* A result is sent at most once, in the order of the calls, and never     *)
(* after its reply was interrupted; and while the session lives, a call    *)
(* has its result sent, pending, or interrupted, and none is lost.         *)
ResultsAccounted ==
  \A r \in Rooms :
    LET sent == {told[r][i] : i \in DOMAIN told[r]}
        kept == {pending[r][i] : i \in DOMAIN pending[r]}
    IN /\ \A i, j \in DOMAIN told[r] : i < j => told[r][i] < told[r][j]
       /\ sent \cap (kept \cup interrupted[r]) = {}
       /\ worker[r] = "live" => sent \cup kept \cup interrupted[r] = 1 .. Len(calls[r])
=============================================================================
