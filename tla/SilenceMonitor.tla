--------------------------- MODULE SilenceMonitor ---------------------------
(***************************************************************************)
(* Who notices that the caller has gone silent: the clock each main agent  *)
(* keeps (ErrorRecoveryHandler), the task that reads it (SilenceMonitor),  *)
(* the session events that set it, and the agents that take over from one  *)
(* another while the older ones' clocks and tasks live on.                 *)
(*                                                                         *)
(* Everything runs on one asyncio loop; a step goes from one await to the  *)
(* next.  Time passes in intervals of the monitor, and only when no task   *)
(* is ready to run; an LLM turn and a swap of agents take that long too.   *)
(***************************************************************************)
EXTENDS Integers

CONSTANTS
  MaxAgents,   \* bound on the agents one call creates
  Prompt,      \* silence.prompt_timeout, in intervals of the monitor
  Goodbye      \* silence.goodbye_timeout, in intervals of the monitor

ASSUME SilenceAssumption ==
  /\ MaxAgents \in Nat \ {0}
  /\ Prompt \in Nat \ {0} /\ Goodbye \in Nat /\ Prompt < Goodbye

Ids == 1 .. MaxAgents
Unset == -1

VARIABLES
  user,      \* the SDK's user state
  busy,      \* the SDK's agent state: thinking or speaking, else listening
  turn,      \* the turn of the agent: none, owed, running, handed to another agent
  voice,     \* agents on whose behalf something is said: prompt, goodbye, greeting
  made,      \* agents created so far: 1 .. made
  current,   \* session.current_agent
  subs,      \* the appeal agents among them
  entry,     \* on_enter of each agent: due, greeting, done
  clock,     \* each agent's ErrorState
  idle,      \* agents with a pending _silence_idle_task
  monitor,   \* each agent's SilenceMonitor task
  wasActive, \* monitors with _session_was_active
  warned,    \* history: a prompt was tried since the caller last spoke
  ended      \* do_end_call has run

sdk == <<user, busy, turn, voice>>
agents == <<made, current, subs>>
tasks == <<entry, idle, monitor, wasActive>>
vars == <<user, busy, turn, voice, made, current, subs, entry, clock, idle, monitor, wasActive,
          warned, ended>>

Clocks == [age : Unset .. Goodbye, sent : BOOLEAN, speaking : BOOLEAN, talking : BOOLEAN]
Clock(age, sent, speaking, talking) ==
  [age |-> age, sent |-> sent, speaking |-> speaking, talking |-> talking]
NewClock == Clock(Unset, FALSE, FALSE, FALSE)

(* An appeal agent has neither a clock of its own nor tasks that read one. *)
TypeOK ==
  /\ user \in {"listening", "speaking", "away"}
  /\ busy \in BOOLEAN /\ warned \in BOOLEAN /\ ended \in BOOLEAN
  /\ turn \in {"none", "owed", "running", "handed"}
  /\ made \in Ids /\ current \in 1 .. made /\ subs \subseteq 2 .. made
  /\ voice \subseteq (1 .. made) \ subs /\ idle \subseteq (1 .. made) \ subs
  /\ wasActive \subseteq (1 .. made) \ subs
  /\ entry \in [Ids -> {"done", "due", "greeting"}]
  /\ clock \in [Ids -> Clocks]
  /\ monitor \in [Ids -> {"none", "asleep", "due", "probed", "prompting", "parting"}]
  /\ \A a \in Ids : a \in subs \/ a > made => monitor[a] = "none" /\ entry[a] = "done"

Init ==
  /\ user = "listening" /\ busy = FALSE /\ turn = "none" /\ voice = {}
  /\ made = 1 /\ current = 1 /\ subs = {}
  /\ entry = [a \in Ids |-> IF a = 1 THEN "due" ELSE "done"]
  /\ clock = [a \in Ids |-> NewClock]
  /\ idle = {}
  /\ monitor = [a \in Ids |-> "none"]
  /\ wasActive = {}
  /\ warned = FALSE /\ ended = FALSE

-----------------------------------------------------------------------------
(* ErrorRecoveryHandler. *)

Reset_Kept(c) == [c EXCEPT !.age = 0]   \* mutant: the prompt counts for the next silence
Reset(c) == Clock(0, FALSE, c.speaking, c.talking)

Busy(c) == [c EXCEPT !.speaking = TRUE]
(* A real end of speaking starts the window anew. *)
Idle(c) == Clock(IF c.speaking THEN 0 ELSE c.age, c.sent, FALSE, c.talking)
Talking(c, on) == [c EXCEPT !.talking = on]

WindowOpen(c) == ~c.speaking /\ ~c.talking

(* check_silence_timeout of an open window. *)
Verdict(c) ==
  CASE c.age = Unset -> "arm"
    [] c.age >= Goodbye -> "goodbye"
    [] c.age >= Prompt /\ c.age < Goodbye /\ ~c.sent -> "prompt"
    [] OTHER -> "none"

Older(c) == [c EXCEPT !.age = IF @ \in {Unset, Goodbye} THEN @ ELSE @ + 1]

-----------------------------------------------------------------------------
(* What the session does, and what its event handlers make of it. *)

Active == user = "speaking" \/ busy \/ voice # {}

(* The agents the handlers act for: the current one, if it has a clock. *)
Watched == {current} \ subs

Watch(f(_)) == clock' = [a \in Ids |-> IF a \in Watched THEN f(clock[a]) ELSE clock[a]]
Started(S) == [a \in Ids |-> IF a \in S /\ monitor[a] = "none" THEN "asleep" ELSE monitor[a]]

(* Tasks of the loop that have nothing to wait for; and the agent state is *)
(* what is said, as soon as it is.                                         *)
Ready(a) ==
  \/ monitor[a] \in {"due", "probed"}
  \/ monitor[a] \in {"prompting", "parting"} /\ a \notin voice
  \/ entry[a] = "due" \/ (entry[a] = "greeting" /\ a \notin voice)
  \/ a \in idle /\ ~Active
Settled ==
  /\ \A a \in Ids : ~Ready(a)
  /\ turn \in {"none", "owed"} => (busy <=> voice # {})

(* The caller speaks; what is being said is interrupted or goes on. *)
UserSpeaks ==
  /\ ~ended /\ user # "speaking"
  /\ user' = "speaking"
  /\ voice' \in {voice, {}}
  /\ LET Heard(c) == Reset(Talking(c, TRUE)) IN Watch(Heard)
  /\ monitor' = Started(Watched)
  /\ warned' = FALSE
  /\ UNCHANGED <<busy, turn, agents, entry, idle, wasActive, ended>>

(* The caller stops; a turn of the agent may follow. *)
UserStops ==
  /\ ~ended /\ user = "speaking"
  /\ user' = "listening"
  /\ turn' \in {turn, "owed"}
  /\ LET Heard(c) == Reset(Talking(c, FALSE)) IN Watch(Heard)
  /\ monitor' = Started(Watched)
  /\ UNCHANGED <<busy, voice, agents, entry, idle, wasActive, warned, ended>>

(* The SDK calls a caller away who has been silent for some time. *)
UserAway ==
  /\ ~ended /\ user = "listening" /\ ~busy
  /\ user' = "away"
  /\ LET Heard(c) == Reset(Talking(c, FALSE)) IN Watch(Heard)
  /\ monitor' = Started(Watched)
  /\ UNCHANGED <<busy, turn, voice, agents, entry, idle, wasActive, warned, ended>>

(* A busy state of the agent cancels the task that would mark it idle. *)
Pending == idle \ Watched

Answering_Late(c) == Reset(c)           \* mutant: thinking is not a busy state
Answering(c) == Busy(Reset(c))

(* The turn of the caller is complete: on_user_turn_completed, then thinking. *)
TurnBegins ==
  /\ ~ended /\ Settled /\ turn = "owed" /\ user # "speaking" /\ voice = {}
  /\ turn' = "running" /\ busy' = TRUE
  /\ Watch(Answering)
  /\ monitor' = Started(Watched)
  /\ idle' = Pending
  /\ UNCHANGED <<user, voice, agents, entry, wasActive, warned, ended>>

(* Something said without a turn makes the agent state speaking. *)
VoiceBegins ==
  /\ ~ended /\ voice # {} /\ ~busy
  /\ busy' = TRUE
  /\ Watch(Busy)
  /\ monitor' = Started(Watched)
  /\ idle' = Pending
  /\ UNCHANGED <<user, turn, voice, agents, entry, wasActive, warned, ended>>

(* The agent state is listening again: a task waits for the session to be  *)
(* inactive before the clock says so.                                      *)
AgentIdle ==
  /\ ~ended /\ busy /\ voice = {}
  /\ busy' = FALSE
  /\ turn' = IF turn \in {"running", "handed"} THEN "none" ELSE turn
  /\ monitor' = Started(Watched)
  /\ idle' = idle \cup Watched
  /\ UNCHANGED <<user, voice, agents, entry, clock, wasActive, warned, ended>>

(* That task: the session is inactive, or has not been for its timeout.    *)
IdleTask(a) ==
  /\ ~ended /\ a \in idle
  /\ idle' = idle \ {a}
  /\ clock' = [clock EXCEPT ![a] = Idle(@)]
  /\ UNCHANGED <<sdk, agents, entry, monitor, wasActive, warned, ended>>

(* What is said has been said. *)
SpeechEnds(a) ==
  /\ ~ended /\ a \in voice
  /\ voice' = voice \ {a}
  /\ UNCHANGED <<user, busy, turn, agents, tasks, clock, warned, ended>>

-----------------------------------------------------------------------------
(* From one agent to the next: a tool of the running turn returns an agent. *)

Swap(S) ==
  /\ ~ended /\ Settled /\ turn = "running" /\ busy
  /\ made < MaxAgents
  /\ made' = made + 1 /\ current' = made + 1
  /\ subs' = subs \cup S
  /\ turn' = "handed"
  /\ UNCHANGED <<user, busy, voice, clock, idle, monitor, wasActive, warned, ended>>

ToAppeal ==
  /\ current \notin subs
  /\ Swap({made + 1})
  /\ UNCHANGED entry
ToMain ==       \* a return from the appeal agent, or a language switch
  /\ Swap({})
  /\ entry' = [entry EXCEPT ![made + 1] = "due"]

Armed(c) == Reset(Idle(c))

(* on_enter: the monitor starts; the agent waits for the caller, or first  *)
(* greets.                                                                 *)
Enter(a) ==
  /\ ~ended /\ entry[a] = "due"
  /\ monitor' = Started({a})
  /\ \/ /\ entry' = [entry EXCEPT ![a] = "done"]
        /\ clock' = [clock EXCEPT ![a] = Armed(@)]
        /\ UNCHANGED voice
     \/ /\ entry' = [entry EXCEPT ![a] = "greeting"]
        /\ clock' = [clock EXCEPT ![a] = Busy(@)]
        /\ voice' = voice \cup {a}
  /\ UNCHANGED <<user, busy, turn, agents, idle, wasActive, warned, ended>>

Greeted(a) ==
  /\ ~ended /\ entry[a] = "greeting" /\ a \notin voice
  /\ entry' = [entry EXCEPT ![a] = "done"]
  /\ clock' = [clock EXCEPT ![a] = Armed(@)]
  /\ UNCHANGED <<sdk, agents, idle, monitor, wasActive, warned, ended>>

-----------------------------------------------------------------------------
(* SilenceMonitor._monitor_loop. *)

At(a, where) == monitor' = [monitor EXCEPT ![a] = where]

(* An interval passes, if no task holds the loop. *)
Tick ==
  /\ ~ended /\ Settled
  /\ clock' = [a \in Ids |-> Older(clock[a])]
  /\ monitor' = [a \in Ids |-> IF monitor[a] = "asleep" THEN "due" ELSE monitor[a]]
  /\ UNCHANGED <<sdk, agents, entry, idle, wasActive, warned, ended>>

Quiet_Timeout == TRUE                   \* mutant: a probe that times out passes
Quiet == ~Active

Probe(a) ==
  /\ ~ended /\ monitor[a] = "due"
  /\ wasActive' = IF Quiet THEN wasActive ELSE wasActive \cup {a}
  /\ At(a, IF Quiet THEN "probed" ELSE "asleep")
  /\ UNCHANGED <<sdk, agents, entry, clock, idle, warned, ended>>

(* The clock as the check finds it: fresh if the session was active before. *)
Seen(a) == IF a \in wasActive THEN Reset(clock[a]) ELSE clock[a]
ClearedActive_Never(a) == wasActive     \* mutant: the flag stays up
ClearedActive(a) == wasActive \ {a}

Check(a, verdict) ==
  /\ ~ended /\ monitor[a] = "probed"
  /\ wasActive' = ClearedActive(a)
  /\ verdict = IF WindowOpen(Seen(a)) THEN Verdict(Seen(a)) ELSE "none"
  /\ UNCHANGED <<user, busy, turn, agents, entry>>

(* do_end_call; of an agent that no longer runs, it only stops the monitor. *)
EndCall(a) ==
  /\ At(a, "none")
  /\ idle' = idle \ {a}
  /\ ended' = (a = current)

Waits(a) ==
  /\ \E verdict \in {"none", "arm"} :
       /\ Check(a, verdict)
       /\ clock' = [clock EXCEPT ![a] = IF verdict = "arm" THEN [Seen(a) EXCEPT !.age = 0]
                                                           ELSE Seen(a)]
  /\ At(a, "asleep")
  /\ UNCHANGED <<voice, idle, warned, ended>>

(* session.say may raise: nothing is said, and the prompt counts as sent. *)
Prompts(a) ==
  /\ Check(a, "prompt")
  /\ LET asking == Busy([Seen(a) EXCEPT !.sent = TRUE]) IN
     \/ /\ clock' = [clock EXCEPT ![a] = asking]
        /\ At(a, "prompting")
        /\ voice' = voice \cup {a}
     \/ /\ clock' = [clock EXCEPT ![a] = Idle(asking)]
        /\ At(a, "asleep")
        /\ UNCHANGED voice
  /\ warned' = TRUE
  /\ UNCHANGED <<idle, ended>>

(* If it raises here, the call ends without a goodbye. *)
Parts(a) ==
  /\ Check(a, "goodbye")
  /\ \/ /\ clock' = [clock EXCEPT ![a] = Busy(Seen(a))]
        /\ At(a, "parting")
        /\ voice' = voice \cup {a}
        /\ UNCHANGED <<idle, ended>>
     \/ /\ clock' = [clock EXCEPT ![a] = Idle(Busy(Seen(a)))]
        /\ EndCall(a)
        /\ UNCHANGED voice
  /\ UNCHANGED warned

(* The playout is over. *)
Prompted(a) ==
  /\ ~ended /\ monitor[a] = "prompting" /\ a \notin voice
  /\ clock' = [clock EXCEPT ![a] = Idle(@)]
  /\ At(a, "asleep")
  /\ UNCHANGED <<sdk, agents, entry, idle, wasActive, warned, ended>>

Parted(a) ==
  /\ ~ended /\ monitor[a] = "parting" /\ a \notin voice
  /\ clock' = [clock EXCEPT ![a] = Idle(@)]
  /\ EndCall(a)
  /\ UNCHANGED <<sdk, agents, entry, wasActive, warned>>

Over == ended /\ UNCHANGED vars

Step(a) ==
  \/ IdleTask(a) \/ Enter(a) \/ Greeted(a)
  \/ Probe(a) \/ Waits(a) \/ Prompts(a) \/ Parts(a) \/ Prompted(a) \/ Parted(a)
Next ==
  \/ UserSpeaks \/ UserStops \/ UserAway
  \/ TurnBegins \/ VoiceBegins \/ AgentIdle
  \/ ToAppeal \/ ToMain \/ Tick
  \/ \E a \in Ids : SpeechEnds(a) \/ Step(a)
  \/ Over

Spec == Init /\ [][Next]_vars

(* Ready tasks run, time passes, speech and turns come to an end.  The      *)
(* caller owes nothing, nor does the LLM.                                   *)
Fairness ==
  /\ WF_vars(Tick) /\ WF_vars(AgentIdle)
  /\ \A a \in Ids : WF_vars(Step(a)) /\ WF_vars(SpeechEnds(a))
FairSpec == Spec /\ Fairness

-----------------------------------------------------------------------------
(* Properties. *)

(* A monitor starts to speak only while nobody does: neither the caller,    *)
(* nor the agent, nor another monitor (is_silence_window_open).             *)
SpeaksOnlyInSilence ==
  [][\A a \in Ids : Prompts(a) \/ Parts(a) => ~Active]_vars

(* The call is not given up before the caller was asked, since they last    *)
(* spoke and by whichever agent, whether they are there; or an agent tried  *)
(* to ask, and its session.say raised.                                      *)
PromptBeforeGoodbye == [][\A a \in Ids : Parts(a) => warned]_vars

(* The monitors of agents the call has left are never stopped; what keeps   *)
(* them from speaking into the call is the busy mark the swap left behind.  *)
OnlyCurrentSpeaks == [][\A a \in Ids : Prompts(a) \/ Parts(a) => a = current]_vars

(* A caller who stays silent with a main agent is hung up on, although each *)
(* prompt, each answer and the SDK's "away" start the clock again.          *)
SilentCallerEnds == <>[](user # "speaking" /\ current \notin subs) => <>ended
=============================================================================
