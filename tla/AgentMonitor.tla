----------------------------- MODULE AgentMonitor -----------------------------
(***************************************************************************)
(* The monitor beside the agent (scripts/agent_monitor.py): once an        *)
(* interval it checks the agent's health, places a probe call in a room of *)
(* its own, classifies a failure by the stage it struck at, tells the team *)
(* and remembers the outcome in a file.  Every run starts from that file,  *)
(* and any of its steps may fail or be cut short by a crash.               *)
(*                                                                         *)
(* An error message is the set of what the classifier looks for in it.     *)
(***************************************************************************)
EXTENDS Naturals, Sequences

Modes == {"always", "failures_only", "failures_and_recovery", "first_24h_all"}

(* _StageTracker, in the order a probe passes through. *)
Stages == <<"health_check", "livekit_validate_config", "livekit_api_init",
            "livekit_room_create", "livekit_token_mint", "livekit_room_connect",
            "livekit_dispatch", "agent_join_wait", "probe_send", "response_wait", "success">>
Nth(stage) == CHOOSE i \in DOMAIN Stages : Stages[i] = stage
Hints == {"http", "quota", "429", "auth", "5xx", "unjoined", "unanswered", "network", "missing"}
(* What a message may say of the agent itself, at any stage. *)
Claims == {"unjoined", "unanswered"}

VARIABLES
  mode,    \* MONITOR_NOTIFY_MODE, fixed when the monitor starts
  file,    \* the state file: missing, or the last_status saved in it
  early,   \* less than first_success_hours since the started_at of the file
  phase,   \* run_once: asleep, probing, judged, told, saving
  known,   \* last_status as loaded
  stage,   \* of the probe
  joined,  \* the agent has joined the probe's room
  heard,   \* response_fut: the agent's text came after the probe was sent
  result,  \* of the probe: none, ok, or a category of failure
  claims,  \* history: what the message of that failure said of the agent
  agent,   \* the agent and what it depends on: well, or out of order
  notice,  \* history: the status last told to the team
  unsaved  \* history: the status last told has not reached the file

monitorVars == <<mode, file, early, phase, known, stage, joined, heard, result, claims, agent, notice,
                 unsaved>>
run == <<phase, known>>
probe == <<stage, joined, heard, result, claims>>

Categories ==
  {"health_check_unhealthy", "health_check_unreachable", "livekit_quota_exhausted",
   "livekit_rate_limited", "livekit_auth_failed", "livekit_server_error", "agent_not_joined",
   "agent_not_responded", "network_error", "config_missing", "unknown_error"}

MonitorTypeOK ==
  /\ file \in {"missing", "none", "ok", "failure"} /\ known \in {"none", "ok", "failure"}
  /\ early \in BOOLEAN /\ joined \in BOOLEAN /\ heard \in BOOLEAN
  /\ phase \in {"asleep", "probing", "judged", "told", "saving"}
  /\ stage \in {Stages[i] : i \in DOMAIN Stages}
  /\ result \in Categories \cup {"none", "ok"}
  /\ claims \subseteq Claims
  /\ agent \in BOOLEAN /\ unsaved \in BOOLEAN /\ mode \in Modes /\ notice \in {"none", "ok", "failure"}

MonitorInit ==
  /\ mode \in Modes /\ file = "missing" /\ early = TRUE
  /\ phase = "asleep" /\ known = "none"
  /\ stage = "health_check" /\ joined = FALSE /\ heard = FALSE /\ result = "none"
  /\ claims = {} /\ agent \in BOOLEAN /\ notice = "none" /\ unsaved = FALSE

-----------------------------------------------------------------------------
(* classify_failure: the first branch that matches.  The stage of the      *)
(* health check goes first, whatever codes its message carries.            *)

Classify_CodesFirst(at, hints) ==       \* mutant: the HTTP codes are looked at before the stage
  CASE "429" \in hints -> "livekit_rate_limited"
    [] "auth" \in hints /\ "429" \notin hints -> "livekit_auth_failed"
    [] at = "health_check" -> IF "http" \in hints THEN "health_check_unhealthy" ELSE "health_check_unreachable"
    [] OTHER -> "unknown_error"
Classify(at, hints) ==
  LET First(branches) == branches[CHOOSE i \in DOMAIN branches :
                           branches[i][1] /\ \A j \in 1 .. i - 1 : ~branches[j][1]][2]
  IN First(<<
       <<at = "health_check" /\ "http" \in hints, "health_check_unhealthy">>,
       <<at = "health_check", "health_check_unreachable">>,
       <<"quota" \in hints, "livekit_quota_exhausted">>,
       <<"429" \in hints, "livekit_rate_limited">>,
       <<"auth" \in hints, "livekit_auth_failed">>,
       <<"5xx" \in hints, "livekit_server_error">>,
       <<at = "agent_join_wait" \/ "unjoined" \in hints, "agent_not_joined">>,
       <<at = "response_wait" \/ "unanswered" \in hints, "agent_not_responded">>,
       <<"network" \in hints, "network_error">>,
       <<"missing" \in hints, "config_missing">>,
       <<TRUE, "unknown_error">> >>)

(* should_notify, of an outcome, on the status the state file held. *)
Status(r) == IF r = "ok" THEN "ok" ELSE "failure"
OnChange == Status(result) = "failure" \/ known = "failure"
ShouldNotify ==
  CASE mode = "always" -> TRUE
    [] mode = "failures_only" -> Status(result) = "failure"
    [] mode = "failures_and_recovery" -> OnChange
    [] OTHER -> early \/ OnChange

-----------------------------------------------------------------------------
(* run_once: load_state and ensure_state_started. *)
Load ==
  /\ phase = "asleep"
  /\ known' = IF file = "missing" THEN "none" ELSE file
  /\ phase' = "probing"
  /\ stage' = "health_check" /\ joined' = FALSE /\ heard' = FALSE /\ result' = "none"
  /\ claims' = {}
  /\ UNCHANGED <<file, early, agent, notice, unsaved>>

(* run_livekit_text_probe: a stage is left for the next one; the agent has *)
(* to have joined, and to have said something after the probe was sent.    *)
AdvanceProbe ==
  /\ phase = "probing" /\ result = "none" /\ stage # "success"
  /\ stage = "health_check" => agent
  /\ stage = "agent_join_wait" => joined
  /\ stage = "response_wait" => heard
  /\ stage' = Stages[Nth(stage) + 1]
  /\ UNCHANGED <<file, early, run, joined, heard, result, claims, agent, notice, unsaved>>

AgentJoins ==
  /\ phase = "probing" /\ stage \in {"livekit_dispatch", "agent_join_wait"} /\ agent
  /\ ~joined /\ joined' = TRUE
  /\ UNCHANGED <<file, early, run, stage, heard, result, claims, agent, notice, unsaved>>

(* on_transcription counts a text from the moment the probe is being sent. *)
AgentSpeaks ==
  /\ phase = "probing" /\ stage \in {"probe_send", "response_wait"} /\ joined /\ agent
  /\ ~heard /\ heard' = TRUE
  /\ UNCHANGED <<file, early, run, stage, joined, result, claims, agent, notice, unsaved>>

(* The stage raises or times out; run_probe answers with its category.     *)
ProbeFails_NoTimeout ==                 \* mutant: the agent is waited for as long as it takes
  /\ phase = "probing" /\ stage \notin {"success", "agent_join_wait"}
  /\ stage = "response_wait" => ~heard
  /\ \E hints \in SUBSET Hints : result' = Classify(stage, hints) /\ claims' = hints \cap Claims
  /\ phase' = "judged"
  /\ UNCHANGED <<file, early, known, stage, joined, heard, agent, notice, unsaved>>
ProbeFails ==
  /\ phase = "probing" /\ stage # "success"
  /\ stage = "agent_join_wait" => ~joined
  /\ stage = "response_wait" => ~heard
  /\ \E hints \in SUBSET Hints : result' = Classify(stage, hints) /\ claims' = hints \cap Claims
  /\ phase' = "judged"
  /\ UNCHANGED <<file, early, known, stage, joined, heard, agent, notice, unsaved>>

ProbeSucceeds ==
  /\ phase = "probing" /\ stage = "success"
  /\ result' = "ok" /\ phase' = "judged"
  /\ UNCHANGED <<file, early, known, stage, joined, heard, claims, agent, notice, unsaved>>

(* send_telegram comes before update_state.                                *)
Tell_UpdateFirst ==                     \* mutant: the outcome is saved, then told
  /\ phase = "judged" /\ ShouldNotify /\ file' = Status(result)
  /\ notice' \in {Status(result), notice} /\ phase' = "asleep"
  /\ UNCHANGED <<early, known, probe, agent, unsaved>>
Tell ==
  /\ phase = "judged" /\ ShouldNotify
  /\ notice' = Status(result) /\ unsaved' = TRUE /\ phase' = "told"
  /\ UNCHANGED <<file, early, known, probe, agent>>

(* The message cannot be sent: the run raises, and is forgotten.           *)
TellFails ==
  /\ phase = "judged" /\ ShouldNotify
  /\ phase' = "asleep"
  /\ UNCHANGED <<file, early, known, probe, agent, notice, unsaved>>

NothingToTell ==
  /\ phase = "judged" /\ ~ShouldNotify
  /\ phase' = "told"
  /\ UNCHANGED <<file, early, known, probe, agent, notice, unsaved>>

(* save_state: the new state is written beside the file, then replaces it. *)
WriteTmp ==
  /\ phase = "told"
  /\ phase' = "saving"
  /\ UNCHANGED <<file, early, known, probe, agent, notice, unsaved>>

Replace ==
  /\ phase = "saving"
  /\ file' = Status(result) /\ phase' = "asleep"
  /\ unsaved' = (unsaved /\ Status(result) # notice)
  /\ UNCHANGED <<early, known, probe, agent, notice>>

(* The process dies, or the disk refuses: run_loop or the container starts *)
(* the next run.                                                           *)
Cut ==
  /\ phase # "asleep"
  /\ phase' = "asleep"
  /\ UNCHANGED <<file, early, known, probe, agent, notice, unsaved>>

-----------------------------------------------------------------------------
AgentChanges ==
  /\ agent' = ~agent
  /\ UNCHANGED <<file, early, run, probe, notice, unsaved>>
WindowEnds ==
  /\ file # "missing" /\ early /\ early' = FALSE
  /\ UNCHANGED <<file, run, probe, agent, notice, unsaved>>

Probing == AdvanceProbe \/ AgentJoins \/ AgentSpeaks \/ ProbeFails \/ ProbeSucceeds
Reporting == Load \/ Probing \/ Tell \/ TellFails \/ NothingToTell \/ WriteTmp \/ Replace
MonitorNext == (Reporting \/ Cut \/ AgentChanges \/ WindowEnds) /\ UNCHANGED mode

(* The loop goes on, every wait of a probe has its timeout, and a message  *)
(* that is sent again and again gets through.                              *)
MonitorSpec ==
  /\ MonitorInit /\ [][MonitorNext]_monitorVars
  /\ WF_monitorVars(Reporting /\ UNCHANGED mode) /\ SF_monitorVars(Tell /\ UNCHANGED mode)

-----------------------------------------------------------------------------
(* The team is told of a recovery: while the file says "ok" the last thing *)
(* they heard is not a failure, however often sending failed meanwhile;    *)
(* but for a status that was told and then lost with its run (the send     *)
(* comes before the save, agent_monitor.py:790-797), and where recoveries  *)
(* are not asked for.                                                      *)
RecoveryTold ==
  mode # "failures_only" /\ file = "ok" /\ notice = "failure" => unsaved

(* A failure is blamed on what failed: on the health check exactly when it *)
(* was that; on the agent's absence or its silence only when it was not    *)
(* there, or there and silent, or when the message itself said so          *)
(* (agent_monitor.py:254, 266); and nothing is called healthy that was not *)
(* heard after the probe.                                                  *)
BlameFits ==
  /\ (result \in {"health_check_unhealthy", "health_check_unreachable"})
       <=> (result \notin {"none", "ok"} /\ stage = "health_check")
  /\ result = "agent_not_joined" => ~joined \/ "unjoined" \in claims
  /\ result = "agent_not_responded" => (joined /\ ~heard) \/ "unanswered" \in claims
  /\ result = "ok" => joined /\ heard

(* An agent that stays out of order is reported, whatever the monitor goes *)
(* through, as long as runs are not cut short for ever.                    *)
OutageReported == <>[](~agent) /\ <>[][~Cut]_monitorVars => []<>(notice = "failure")
=============================================================================
