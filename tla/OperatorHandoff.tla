--------------------------- MODULE OperatorHandoff ---------------------------
(***************************************************************************)
(* One call that is handed to an operator: the forward handler of          *)
(* TenantAgent in web mode with its status polls, or in SIP mode with its  *)
(* transfer task, the silence monitor and the end-call task beside them,   *)
(* and the final PATCH of lifecycle/shutdown.py.  The platform's operator  *)
(* queue, the operator and the caller are external.                        *)
(*                                                                         *)
(* All of it runs on one asyncio loop: a step goes from one await to the   *)
(* next.  A request to the platform is two steps, what the platform does   *)
(* with it and what the agent makes of the answer.                         *)
(***************************************************************************)
EXTENDS Integers

CONSTANTS
  Modes,           \* transfer modes of the tenants: web, sip
  Polls,           \* polls or transfer tasks a call can have, one per accepted forward
  MaxAttempts,     \* status requests of one poll (60 in the code)
  MaxLooks,        \* looks at the room in one wait (15 s / 0.5 s = 30)
  Required,        \* looks in a row that must find the operator (3)
  MaxPatches,      \* bound on transcript syncs under way at a time
  Statuses,        \* operator statuses the platform reports
  FlakyPlatform    \* BOOLEAN: status requests may fail, answers may be lost

ASSUME HandoffAssumption ==
  /\ Modes \subseteq {"web", "sip"}
  /\ MaxAttempts \in Nat \ {0} /\ MaxLooks \in Nat /\ Required \in Nat \ {0}
  /\ MaxPatches \in Nat
  /\ "in_queue" \in Statuses
  /\ Statuses \subseteq {"in_queue", "ringing", "transferred", "in_progress", "failed"}
  /\ FlakyPlatform \in BOOLEAN

VARIABLES
  mode,         \* config.transfer.transfer_mode, fixed for the call
  known,        \* the platform registered the call: call_db_id is set, fixed for the call
  forward,      \* where do_forward_to_operator stands
  poll,         \* the _poll_operator_status or _sip_transfer tasks
  monitor,      \* the silence monitor of the agent
  ending,       \* a _disconnect_when_done task is waiting, and whether the goodbye for a
                \* silent caller started it in a call accepted for transfer
  transferred,  \* agent.transferred
  completed,    \* agent.handoff_completed
  patches,      \* how many "in_progress" PATCHes are on their way
  shut,         \* on_shutdown has run
  queue,        \* the platform: state of the operator request
  record,       \* the platform: status of the call record, and ended_at set
  operator,     \* the room: an "operator:" participant is in it
  ai,           \* the room: the agent is in it
  room,         \* the room itself
  stuck,        \* history: delete_room has failed
  late,         \* history: a PATCH sent before the final one has landed after it
  filed         \* history: the platform has applied the final PATCH

agentVars == <<forward, poll, monitor, ending, transferred, completed>>
platform == <<queue, record, late, filed>>
roomVars == <<operator, ai, room, stuck>>
fixed == <<mode, known>>
vars == <<mode, known, forward, poll, monitor, ending, transferred, completed, patches, shut,
          queue, record, operator, ai, room, stuck, late, filed>>

PollAt(where, attempt, looks, seen) ==
  [at |-> where, attempt |-> attempt, looks |-> looks, seen |-> seen]
NoPoll == PollAt("none", 0, 0, 0)
PollOver == PollAt("ended", 0, 0, 0)
Records == [status : {"in_progress", "completed", "transferred"}, ended : BOOLEAN]

TypeOK ==
  /\ mode \in Modes /\ known \in BOOLEAN
  /\ forward \in {"idle", "patching", "requesting", "queued"}
  /\ poll \in [Polls -> [at : {"none", "asleep", "watching", "referring", "recording", "ended"},
                         attempt : 0 .. MaxAttempts, looks : 0 .. MaxLooks,
                         seen : 0 .. Required]]
  /\ monitor \in {"off", "on", "goodbye"}
  /\ ending \in {"none", "plain", "transferred_silence"}
  /\ transferred \in BOOLEAN /\ completed \in BOOLEAN /\ shut \in BOOLEAN
  /\ operator \in BOOLEAN /\ ai \in BOOLEAN /\ stuck \in BOOLEAN /\ late \in BOOLEAN
  /\ filed \in BOOLEAN
  /\ patches \in 0 .. MaxPatches
  /\ queue \in Statuses \cup {"none"}
  /\ record \in Records
  /\ room \in {"open", "deleted"}

Init ==
  /\ mode \in Modes
  /\ known \in BOOLEAN
  /\ forward = "idle"
  /\ poll = [p \in Polls |-> NoPoll]
  /\ monitor = "on"
  /\ ending = "none"
  /\ transferred = FALSE
  /\ completed = FALSE
  /\ patches = 0
  /\ shut = FALSE
  /\ queue = "none"
  /\ record = [status |-> "in_progress", ended |-> FALSE]
  /\ operator = FALSE
  /\ ai = TRUE
  /\ room = "open"
  /\ stuck = FALSE
  /\ late = FALSE
  /\ filed = FALSE

(* The agent process serves the call: it is in the room. *)
Serving == ai /\ room = "open" /\ ~shut
(* Tasks run on after the agent has left, until the shutdown is through. *)
Alive == ~shut

-----------------------------------------------------------------------------
(* do_forward_to_operator, in office hours or to a number that has none:   *)
(* web mode.                                                               *)

(* The monitor is stopped and the PATCH with the transfer reason is sent. *)
Forward ==
  /\ Serving /\ mode = "web" /\ known /\ forward = "idle"
  /\ monitor' = "off"
  /\ forward' = "patching"
  /\ UNCHANGED <<poll, ending, transferred, completed, patches, shut, platform, roomVars>>

(* Transfers switched off leave the call alone; out of office hours, and   *)
(* without a call record or a number to transfer to, the handler stops the *)
(* monitor and says so.                                                    *)
ForwardUnavailable ==
  /\ Serving /\ forward = "idle"
  /\ monitor' = "off"
  /\ UNCHANGED <<forward, poll, ending, transferred, completed, patches, shut, platform, roomVars>>

(* A PATCH that carries the status in_progress, also when the final one    *)
(* has overtaken it.                                                       *)
Reopens ==
  /\ record' = [record EXCEPT !.status = "in_progress"]
  /\ late' = (late \/ shut)

(* The platform applies that PATCH, or refuses it: update_call answers     *)
(* False and the handler goes on in both cases.                            *)
ForwardPatched ==
  /\ forward = "patching"
  /\ forward' = "requesting"
  /\ Reopens \/ UNCHANGED <<record, late>>
  /\ UNCHANGED <<poll, monitor, ending, transferred, completed, patches, shut, queue, filed, roomVars>>

(* POST /calls/:id/operator puts the call in the queue.  A second request  *)
(* for a queued call leaves it where it is.                                *)
OperatorRequested ==
  /\ Alive /\ forward = "requesting"
  /\ forward' = "queued"
  /\ queue' = IF queue \in {"none", "failed"} THEN "in_queue" ELSE queue
  /\ UNCHANGED <<poll, monitor, ending, transferred, completed, patches, shut, record, late, filed, roomVars>>

Spawned(p) == [poll EXCEPT ![p] = PollAt("asleep", 0, 0, 0)]

(* The 200 arrives: transferred, and a poll of its own.                    *)
ForwardAccepted(p) ==
  /\ Alive /\ forward = "queued"
  /\ poll[p].at = "none"
  /\ poll' = Spawned(p)
  /\ transferred' = TRUE
  /\ forward' = "idle"
  /\ UNCHANGED <<monitor, ending, completed, patches, shut, platform, roomVars>>

(* The request fails, or it succeeds and the answer is lost. *)
ForwardRefused ==
  /\ Alive
  /\ forward = "requesting" \/ (FlakyPlatform /\ forward = "queued")
  /\ forward' = "idle"
  /\ UNCHANGED <<poll, monitor, ending, transferred, completed, patches, shut, platform, roomVars>>

-----------------------------------------------------------------------------
(* SIP mode: the transfer is offered as soon as its task is started, the   *)
(* handler does not wait for it.                                           *)
ForwardSip(p) ==
  /\ Serving /\ mode = "sip" /\ poll[p].at = "none"
  /\ poll' = [poll EXCEPT ![p] = PollAt("referring", 0, 0, 0)]
  /\ transferred' = TRUE
  /\ monitor' = "off"
  /\ UNCHANGED <<forward, ending, completed, patches, shut, platform, roomVars>>

(* _sip_transfer: LiveKit accepts it, or there is no SIP participant, or   *)
(* a request fails: an error in the log and nothing else.                  *)
Refer(p) ==
  /\ Alive /\ poll[p].at = "referring"
  /\ \E next \in {PollAt("recording", 0, 0, 0), PollOver} : poll' = [poll EXCEPT ![p] = next]
  /\ UNCHANGED <<forward, monitor, ending, transferred, completed, patches, shut, platform, roomVars>>

(* _record_sip_transfer_initiated: its PATCH is applied, or refused, or    *)
(* there is no record to send it to.                                       *)
SipRecorded(p) ==
  /\ poll[p].at = "recording"
  /\ poll' = [poll EXCEPT ![p] = PollOver]
  /\ \/ known /\ record' = [record EXCEPT !.status = "transferred"]
     \/ UNCHANGED record
  /\ UNCHANGED <<forward, monitor, ending, transferred, completed, patches, shut, queue, late, filed, roomVars>>

-----------------------------------------------------------------------------
(* _poll_operator_status and _wait_for_operator_in_room. *)

(* The attempt that has just been made; the last one ends the poll. *)
Continue_Uncounted(p) ==    \* mutant: an attempt without an operator is not counted
  PollAt("asleep", poll[p].attempt, 0, 0)
Continue(p) ==
  LET n == poll[p].attempt + 1
  IN  IF n = MaxAttempts THEN PollOver ELSE PollAt("asleep", n, 0, 0)

(* What a status answer makes of the poll. *)
AfterStatus(p, status) ==
  CASE status = "transferred" -> PollAt("watching", poll[p].attempt, 0, 0)
    [] status \in {"unknown", "failed"} -> PollOver
    [] OTHER -> Continue(p)

PollStatus(p) ==
  /\ Alive /\ poll[p].at = "asleep"
  /\ \E status \in {queue} \cup (IF FlakyPlatform THEN {"unknown"} ELSE {}) :
       poll' = [poll EXCEPT ![p] = AfterStatus(p, IF status = "none" THEN "unknown" ELSE status)]
  /\ UNCHANGED <<forward, monitor, ending, transferred, completed, patches, shut, platform, roomVars>>

(* One look at the participants of the room, half a second apart. *)
Seen_Anyone(p) == poll[p].seen + 1             \* mutant: any participant counts
Seen_Restart(p) == IF operator THEN 1 ELSE 0   \* mutant: the row never grows
Seen(p) == IF operator THEN poll[p].seen + 1 ELSE 0

Look(p) ==
  /\ Alive /\ poll[p].at = "watching"
  /\ poll[p].looks < MaxLooks
  /\ Seen(p) < Required
  /\ poll' = [poll EXCEPT ![p] = PollAt("watching", poll[p].attempt, poll[p].looks + 1, Seen(p))]
  /\ UNCHANGED <<forward, monitor, ending, transferred, completed, patches, shut, platform, roomVars>>

(* The operator did not settle within the timeout: keep the AI, poll on. *)
LookTimeout(p) ==
  /\ Alive /\ poll[p].at = "watching"
  /\ poll[p].looks = MaxLooks
  /\ poll' = [poll EXCEPT ![p] = Continue(p)]
  /\ UNCHANGED <<forward, monitor, ending, transferred, completed, patches, shut, platform, roomVars>>

(* The look that completes the row: the AI leaves without another await.   *)
(* A disconnect that raises is swallowed and leaves the AI where it is.    *)
HandOver(p) ==
  /\ Alive /\ poll[p].at = "watching"
  /\ poll[p].looks < MaxLooks
  /\ Seen(p) >= Required
  /\ poll' = [poll EXCEPT ![p] = PollOver]
  /\ completed' = TRUE
  /\ transferred' = TRUE
  /\ monitor' = "off"
  /\ ai' \in {FALSE, ai}
  /\ UNCHANGED <<forward, ending, patches, shut, platform, operator, room, stuck>>

-----------------------------------------------------------------------------
(* Silence and the end of the call. *)

(* An agent or user state change starts a monitor if there is none. *)
SessionEvent ==
  /\ Serving /\ monitor = "off"
  /\ monitor' = "on"
  /\ UNCHANGED <<forward, poll, ending, transferred, completed, patches, shut, platform, roomVars>>

(* The caller was silent for the goodbye timeout: the goodbye is spoken... *)
SilenceGoodbye ==
  /\ Serving /\ monitor = "on"
  /\ monitor' = "goodbye"
  /\ UNCHANGED <<forward, poll, ending, transferred, completed, patches, shut, platform, roomVars>>

(* ... and do_end_call follows, as it does when the LLM calls end_call. *)
EndCall(cause) ==
  /\ Serving
  /\ monitor' = "off"
  /\ ending' = IF ending = "none" THEN cause ELSE ending
  /\ UNCHANGED <<forward, poll, transferred, completed, patches, shut, platform, roomVars>>
SilenceEnds ==
  /\ monitor = "goodbye"
  /\ EndCall(IF transferred THEN "transferred_silence" ELSE "plain")
ToolEnds == ending = "none" /\ EndCall("plain")

(* _end_call_completely: the room is deleted under everybody in it; if     *)
(* that fails the agent drops its own connection, or fails at that too.    *)
DeleteRoom ==
  /\ Alive /\ ending # "none"
  /\ ending' = "none"
  /\ monitor' = "off"
  /\ \/ room' = "deleted" /\ operator' = FALSE /\ ai' = FALSE /\ UNCHANGED stuck
     \/ stuck' = TRUE /\ ai' \in {FALSE, ai} /\ UNCHANGED <<room, operator>>
  /\ UNCHANGED <<forward, poll, transferred, completed, patches, shut, platform>>

(* _sync_transcript: a PATCH of its own task, every five turns. *)
SyncTranscript ==
  /\ Serving /\ known /\ patches < MaxPatches
  /\ patches' = patches + 1
  /\ UNCHANGED <<agentVars, shut, platform, roomVars>>

(* The platform applies it, or refuses it. *)
SyncLands ==
  /\ patches > 0
  /\ patches' = patches - 1
  /\ Reopens \/ UNCHANGED <<record, late>>
  /\ UNCHANGED <<agentVars, shut, queue, filed, roomVars>>

(* on_shutdown: what it reads from the agent decides the final record. *)
FinalRecord_Ends ==      \* mutant: the handed-over call is closed like any other
  [status |-> IF transferred THEN "transferred" ELSE "completed", ended |-> TRUE]
FinalRecord_Offered ==   \* mutant: only a finished handover counts as a transfer
  IF completed THEN [record EXCEPT !.status = "transferred"]
               ELSE [status |-> "completed", ended |-> TRUE]
FinalRecord ==
  IF completed
  THEN [record EXCEPT !.status = "transferred"]
  ELSE [status |-> IF transferred THEN "transferred" ELSE "completed", ended |-> TRUE]

(* The final PATCH is applied.  Or it is not: the platform refuses it, the *)
(* request fails (update_call answers False and nobody looks), or the call *)
(* was never registered and nothing is sent.                               *)
(* The polls end with the job; a PATCH on its way may still arrive.         *)
Shutdown ==
  /\ ~shut /\ (~ai \/ room = "deleted")
  /\ shut' = TRUE
  /\ monitor' = "off"
  /\ \/ known /\ record' = FinalRecord /\ filed' = TRUE
     \/ UNCHANGED <<record, filed>>
  /\ poll' = [p \in Polls |-> IF poll[p].at \in {"none", "recording"} THEN poll[p] ELSE PollOver]
  /\ UNCHANGED <<forward, ending, transferred, completed, patches, queue, late, roomVars>>

-----------------------------------------------------------------------------
(* The world around the agent. *)

(* The operator request moves on in the order of the status lifecycle; an  *)
(* operator who hung up or a queue timeout makes it fail.                  *)
After == [none |-> {}, in_queue |-> {"ringing", "failed"}, ringing |-> {"transferred", "failed"},
          transferred |-> {"in_progress"}, in_progress |-> {}, failed |-> {}]
QueueMoves ==
  /\ queue' \in After[queue] \cap Statuses
  /\ UNCHANGED <<agentVars, patches, shut, record, late, filed, roomVars>>

OperatorJoins ==
  /\ room = "open" /\ ~operator
  /\ queue \in {"transferred", "in_progress"}
  /\ operator' = TRUE
  /\ UNCHANGED <<agentVars, patches, shut, platform, ai, room, stuck>>

OperatorLeaves ==
  /\ operator
  /\ operator' = FALSE
  /\ UNCHANGED <<agentVars, patches, shut, platform, ai, room, stuck>>

(* The caller hangs up and the room closes. *)
CallerLeaves ==
  /\ room = "open"
  /\ room' = "deleted"
  /\ operator' = FALSE
  /\ ai' = FALSE
  /\ UNCHANGED <<agentVars, patches, shut, platform, stuck>>

(* Nothing is left to do: the call is over and its record is final. *)
Over == room = "deleted" /\ shut /\ UNCHANGED vars

PollStep(p) ==
  \/ PollStatus(p) \/ Look(p) \/ LookTimeout(p) \/ HandOver(p)
  \/ Refer(p) \/ SipRecorded(p)
Accepts(p) == ForwardAccepted(p) \/ ForwardSip(p)
Agent ==
  \/ Forward \/ ForwardUnavailable \/ ForwardPatched \/ OperatorRequested \/ ForwardRefused
  \/ \E p \in Polls : Accepts(p) \/ PollStep(p)
  \/ SessionEvent \/ SilenceGoodbye \/ SilenceEnds \/ ToolEnds \/ DeleteRoom
  \/ SyncTranscript \/ SyncLands \/ Shutdown
World == QueueMoves \/ OperatorJoins \/ OperatorLeaves \/ CallerLeaves
Next == (Agent \/ World \/ Over) /\ UNCHANGED fixed

Spec == Init /\ [][Next]_vars

(* A poll and a transfer wait for bounded times only: sleeps, and requests  *)
(* with a timeout.  So each takes its next step.  Nothing else is assumed:  *)
(* not of the other tasks, and the caller, the operator and the queue owe   *)
(* nothing.                                                                 *)
Fairness == \A p \in Polls : WF_vars(PollStep(p) /\ UNCHANGED fixed)
FairSpec == Spec /\ Fairness

-----------------------------------------------------------------------------
(* Properties. *)

(* Somebody is with the caller while the call lasts: the AI leaves an open  *)
(* room only to an operator who is in it, or because the room could not be  *)
(* deleted (_poll_operator_status, _wait_for_operator_in_room and           *)
(* _end_call_completely together).                                          *)
Ended == room = "deleted" \/ stuck
Present == IF stuck THEN {}
           ELSE (IF ai THEN {"ai"} ELSE {}) \cup (IF operator THEN {"operator"} ELSE {})
Attendance == INSTANCE CallerAttendance WITH present <- Present, over <- Ended
CallerAttended == Attendance!Spec

(* The shutdown of the AI does not close the record of a call in which an   *)
(* operator goes on talking to the caller (lifecycle/shutdown.py).          *)
LiveCallNotEnded == shut /\ room = "open" /\ operator /\ ~stuck => ~record.ended

(* A call that was accepted for transfer is never recorded as completed,    *)
(* whatever else ends it and whatever becomes of the requests.  Its final   *)
(* record says transferred, unless the final PATCH was not applied, or an   *)
(* earlier request lands after it (lifecycle/shutdown.py,                   *)
(* _record_sip_transfer_initiated, _sync_transcript).                       *)
TransferRecorded ==
  shut /\ transferred =>
    /\ record.status # "completed"
    /\ record.status = "transferred" \/ late \/ ~filed

(* A forward stops the silence monitor, and from then on the call is the    *)
(* operator's: the goodbye of a monitor that runs again after the transfer  *)
(* was accepted never hangs up on an operator who has joined.               *)
OperatorCallNotCut ==
  [][ending = "transferred_silence" /\ ending' = "none" /\ room' = "deleted" => ~operator]_vars

(* Every poll and every SIP transfer stops: attempts and the looks of every *)
(* wait are counted, also when an operator who accepted never settles in    *)
(* the room.                                                                *)
PollsEnd == \A p \in Polls : poll[p].at # "none" ~> (poll[p].at = "ended" \/ shut)

(* An operator found early enough in a wait, who stays, takes the call over *)
(* within that wait.                                                        *)
SettledOperatorTakesOver ==
  \A p \in Polls :
    (poll[p].at = "watching" /\ poll[p].looks + Required <= MaxLooks /\ operator)
      ~> (completed \/ ~ai \/ ~operator \/ shut)
=============================================================================
