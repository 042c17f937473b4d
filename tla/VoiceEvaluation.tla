--------------------------- MODULE VoiceEvaluation ---------------------------
(***************************************************************************)
(* Evaluations with real audio: the dashboard's controller admits one at a *)
(* time and runs a script for it (run_voice_evaluation.py), which resets   *)
(* the demo rows, starts a bridge for a room of its own, plays a caller    *)
(* into it, stops the bridge and judges the events of the room.            *)
(***************************************************************************)
EXTENDS VoiceBridge

CONSTANT Systems   \* operating systems the dashboard runs on
ASSUME SystemsAssumption == Systems \subseteq {"posix", "windows"}

VARIABLES
  system,   \* the one it does run on
  overdue,  \* the 120 seconds are over, subprocess.run has not come back yet
  status,   \* of the controller: idle, running, passed, failed
  current,  \* the evaluation it is or was running, 0 for none; its room
  runner    \* the script of each evaluation

evaluationVars == <<system, overdue, status, current, runner>>
vars == <<bridgeVars, evaluationVars>>

Alive == {"resetting", "starting", "calling", "stopping", "raising", "judging"}

TypeOK ==
  /\ BridgeTypeOK
  /\ system \in Systems /\ overdue \in BOOLEAN
  /\ status \in {"idle", "running", "passed", "failed"}
  /\ current \in 0 .. MaxRooms
  /\ runner \in [Rooms -> Alive \cup {"none", "passed", "failed", "killed"}]

Init ==
  /\ BridgeInit
  /\ system \in Systems /\ overdue = FALSE
  /\ status = "idle" /\ current = 0
  /\ runner = [r \in Rooms |-> "none"]

-----------------------------------------------------------------------------
(* EvaluationController. *)

(* POST /api/evaluations/start; while one runs it is refused.              *)
Start_Unlocked ==                       \* mutant: the second of two requests is admitted too
  /\ current < MaxRooms
  /\ current' = current + 1 /\ status' = "running"
  /\ runner' = [runner EXCEPT ![current'] = "resetting"]
  /\ UNCHANGED <<bridgeVars, system, overdue>>
Start ==
  /\ status # "running" /\ current < MaxRooms
  /\ current' = current + 1 /\ status' = "running"
  /\ runner' = [runner EXCEPT ![current'] = "resetting"]
  /\ UNCHANGED <<bridgeVars, system, overdue>>

(* The bridge inherits the pipe the script writes to, and holds it open.   *)
PipeHeld == worker[current] \notin {"none", "dead"}

(* subprocess.run reads the output to its end. *)
Collect ==
  /\ status = "running" /\ ~overdue
  /\ runner[current] \in {"passed", "failed"} /\ ~PipeHeld
  /\ status' = runner[current]
  /\ UNCHANGED <<bridgeVars, system, overdue, current, runner>>

(* After 120 seconds the script is killed: its finally does not run, and   *)
(* the bridge lives on.                                                    *)
TimeOut ==
  /\ status = "running" /\ ~overdue
  /\ overdue' = TRUE
  /\ runner' = [runner EXCEPT ![current] = IF @ \in Alive THEN "killed" ELSE @]
  /\ UNCHANGED <<bridgeVars, system, status, current>>

(* The exception reaches the controller: on POSIX once the killed script   *)
(* is reaped, on Windows subprocess.run first reads the pipe to its end,   *)
(* without a time limit.  (A synthesizer of the killed script ends by      *)
(* itself.)                                                                *)
GiveUp_Unreported ==                    \* mutant: the exception ends the thread
  /\ overdue /\ (system = "windows" => ~PipeHeld)
  /\ overdue' = FALSE
  /\ UNCHANGED <<bridgeVars, system, status, current, runner>>
GiveUp ==
  /\ overdue /\ (system = "windows" => ~PipeHeld)
  /\ overdue' = FALSE /\ status' = "failed"
  /\ UNCHANGED <<bridgeVars, system, current, runner>>

-----------------------------------------------------------------------------
(* run_voice_evaluation.py *)

Step(r, from, to) == runner[r] = from /\ runner' = [runner EXCEPT ![r] = to]

(* reset_demo_fixture, after which the store holds the scenario's start.   *)
Reset(r) ==
  /\ Step(r, "resetting", "starting")
  /\ settled' = FALSE
  /\ UNCHANGED <<worker, term, toolVars, eventVars, unrecorded, system, overdue, status, current>>

(* Resetting or synthesizing the caller may raise, before any bridge runs. *)
Breaks(r) ==
  /\ runner[r] \in {"resetting", "starting"} /\ runner' = [runner EXCEPT ![r] = "failed"]
  /\ UNCHANGED <<bridgeVars, system, overdue, status, current>>

StartBridge(r) ==
  /\ Step(r, "starting", "calling") /\ Become(r, "joining")
  /\ UNCHANGED <<term, toolVars, eventVars, unrecorded, settled, system, overdue, status, current>>

(* publish_caller is in the room; the bridge hears it and it the bridge.   *)
Heard(r) == runner[r] = "calling" /\ OnTrack(r) /\ UNCHANGED evaluationVars

(* The caller leaves, or raises: either way the bridge is terminated.      *)
HangUp(r) ==
  /\ Step(r, "calling", "stopping") \/ Step(r, "calling", "raising")
  /\ term' = term \cup {r}
  /\ UNCHANGED <<worker, toolVars, eventVars, unrecorded, settled, system, overdue, status, current>>

(* worker.wait(timeout=10): the bridge is gone, or TimeoutExpired.         *)
Stopped_AtOnce(r) ==                    \* mutant: the events are read without waiting
  /\ \/ Step(r, "stopping", "judging")
     \/ Step(r, "raising", "failed")
  /\ UNCHANGED <<bridgeVars, system, overdue, status, current>>
Stopped(r) ==
  /\ worker[r] = "dead"
  /\ Step(r, "stopping", "judging") \/ Step(r, "raising", "failed")
  /\ UNCHANGED <<bridgeVars, system, overdue, status, current>>
StillRunning(r) ==
  /\ worker[r] # "dead"
  /\ runner[r] \in {"stopping", "raising"} /\ runner' = [runner EXCEPT ![r] = "failed"]
  /\ UNCHANGED <<bridgeVars, system, overdue, status, current>>

(* evaluate: the checks on the events of the room, among the newest rows   *)
(* of all rooms.                                                           *)
Passed(r) ==
  /\ {"talk", "required"} \subseteq Shown(r)
  /\ {"forbidden", "error"} \cap Shown(r) = {}
Judge(r) ==
  /\ Step(r, "judging", IF Passed(r) THEN "passed" ELSE "failed")
  /\ UNCHANGED <<bridgeVars, system, overdue, status, current>>

-----------------------------------------------------------------------------
Controller == Start \/ Collect \/ TimeOut \/ GiveUp
Runner(r) ==
  \/ Reset(r) \/ Breaks(r) \/ StartBridge(r) \/ Heard(r) \/ HangUp(r)
  \/ Stopped(r) \/ StillRunning(r) \/ Judge(r)
Bridge(r) == (Join(r) \/ Session(r) \/ Exit(r)) /\ UNCHANGED evaluationVars

Elsewhere == OtherRow /\ UNCHANGED evaluationVars

Next == Controller \/ Elsewhere \/ \E r \in Rooms : Runner(r) \/ Bridge(r)

(* The controller's own thread is the only thing that is sure to go on:    *)
(* its timer goes off, and a wait that can end does.                       *)
Spec == Init /\ [][Next]_vars /\ WF_vars(Collect \/ TimeOut \/ GiveUp)

-----------------------------------------------------------------------------
(* A verdict of "passed" is true of the room, and stays true: the required *)
(* tool ran, the newest rows show no error, and a forbidden tool ran only  *)
(* if its event could not be stored or was pushed out of the newest rows   *)
(* by later ones (bridge.py:137-148, store.py:291-296).  The bridge is     *)
(* gone before its events are judged, so neither can follow.               *)
PassIsEarned ==
  \A r \in Rooms : runner[r] = "passed" =>
    LET ran == {calls[r][i] : i \in DOMAIN calls[r]}
    IN /\ "required" \in ran /\ "error" \notin Shown(r)
       /\ "forbidden" \in ran => r \in unrecorded \cup pushedOut

(* Never two scripts at once: the rows one of them is judged by are not    *)
(* reset by another, and what the controller reports is the current one's. *)
OneRunner == \A r \in Rooms : runner[r] \in Alive => status = "running" /\ r = current

(* Whatever the script, the bridge and the voice session do, the           *)
(* controller becomes free for the next evaluation, again and again; but   *)
(* on Windows a bridge that outlives its killed script and never ends      *)
(* keeps it busy for good.                                                 *)
ControllerFrees ==
  \/ []<>(status # "running")
  \/ <>[](system = "windows" /\ overdue /\ PipeHeld)

(* What the dashboard says of an evaluation (dashboard.py:21): one that    *)
(* passed has verified the final state, the refund that was asked for.     *)
PassVerifiesState ==
  \A r \in Rooms : runner[r] = "passed" /\ r = current => settled
=============================================================================
