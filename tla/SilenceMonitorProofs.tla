------------------------ MODULE SilenceMonitorProofs ------------------------
(***************************************************************************)
(* Proofs about SilenceMonitor, for any number of agents and any timeouts: *)
(* its types, that only the agent in charge speaks into silence, and that  *)
(* it is silence it speaks into.                                           *)
(***************************************************************************)
EXTENDS SilenceMonitor, TLAPS

USE SilenceAssumption DEF SilenceAssumption

(* An agent that was left: its clock is marked busy and stays so, since no *)
(* task of its own is under way and no event reaches it.                   *)
Still(a) ==
  /\ clock[a].speaking /\ entry[a] = "done" /\ a \notin idle
  /\ monitor[a] \notin {"prompting", "parting"}

LeftAlone ==
  /\ \A a \in 1 .. made : a # current /\ a \notin subs => Still(a)
  /\ turn = "running" /\ current \notin subs => Still(current)

(* A monitor that has found the session inactive: the caller alone may have *)
(* become active since, and then the clock knows.                           *)
StillQuiet ==
  /\ entry[current] = "due" => monitor[current] \in {"none", "asleep"}
  /\ monitor[current] = "probed" =>
       ~busy /\ voice = {} /\ (user = "speaking" => clock[current].talking)

IInv == TypeOK /\ LeftAlone /\ StillQuiet

-----------------------------------------------------------------------------
(* What the operations of the error handler make of a clock. *)

LEMMA ClockTypes ==
  ASSUME NEW c \in Clocks
  PROVE  /\ Reset(c) \in Clocks /\ Busy(c) \in Clocks /\ Idle(c) \in Clocks
         /\ Older(c) \in Clocks /\ Armed(c) \in Clocks /\ Answering(c) \in Clocks
         /\ \A on \in BOOLEAN : Talking(c, on) \in Clocks /\ Reset(Talking(c, on)) \in Clocks
<1>1. Reset(c) \in Clocks
  BY DEF Clocks, Clock, Reset, Unset
<1>2. \A d \in Clocks : Busy(d) \in Clocks
  BY DEF Clocks, Busy
<1>3. Idle(c) \in Clocks
  BY DEF Clocks, Clock, Idle, Unset
<1>4. Older(c) \in Clocks
  BY DEF Clocks, Older, Unset
<1>5. Armed(c) \in Clocks
  BY <1>3 DEF Clocks, Clock, Reset, Armed, Unset
<1>6. Answering(c) \in Clocks
  BY <1>1, <1>2 DEF Answering
<1>7. ASSUME NEW on \in BOOLEAN PROVE Talking(c, on) \in Clocks /\ Reset(Talking(c, on)) \in Clocks
  BY DEF Clocks, Clock, Reset, Talking, Unset
<1> QED BY <1>1, <1>2, <1>3, <1>4, <1>5, <1>6, <1>7

LEMMA ClockFields ==
  ASSUME NEW c \in Clocks
  PROVE  /\ Reset(c).speaking = c.speaking /\ Reset(c).talking = c.talking
         /\ Busy(c).speaking = TRUE /\ Busy(c).talking = c.talking
         /\ Idle(c).talking = c.talking
         /\ Older(c).speaking = c.speaking /\ Older(c).talking = c.talking
         /\ Answering(c).speaking = TRUE /\ Answering(c).talking = c.talking
         /\ \A on \in BOOLEAN : /\ Reset(Talking(c, on)).speaking = c.speaking
                                /\ Reset(Talking(c, on)).talking = on
  BY DEF Clocks, Clock, Reset, Busy, Idle, Older, Answering, Talking, Unset

-----------------------------------------------------------------------------
(* Types. *)

MonitorStates == {"none", "asleep", "due", "probed", "prompting", "parting"}

LEMMA WatchedIs == TypeOK => Watched \in SUBSET ((1 .. made) \ subs)
  BY DEF TypeOK, Watched

LEMMA StartedIs ==
  ASSUME TypeOK, NEW S \in SUBSET ((1 .. made) \ subs)
  PROVE  /\ Started(S) \in [Ids -> MonitorStates]
         /\ \A a \in Ids : \/ Started(S)[a] = monitor[a]
                           \/ a \in S /\ monitor[a] = "none" /\ Started(S)[a] = "asleep"
         /\ \A a \in Ids : a \in subs \/ a > made => Started(S)[a] = "none"
  BY DEF TypeOK, Started, MonitorStates, Ids

(* A session event: the clock of the current agent, the monitor, no more. *)
LEMMA EventTypes ==
  ASSUME TypeOK, NEW f \in [Ids -> Clocks],
         monitor' = Started(Watched),
         UNCHANGED <<made, current, subs, entry>>,
         clock' = [a \in Ids |-> IF a \in Watched THEN f[a] ELSE clock[a]] \/ clock' = clock,
         user' \in {"listening", "speaking", "away"}, busy' \in BOOLEAN, warned' \in BOOLEAN,
         ended' \in BOOLEAN, turn' \in {"none", "owed", "running", "handed"},
         voice' \subseteq voice, idle' \subseteq idle \cup Watched, wasActive' = wasActive
  PROVE  TypeOK'
  BY WatchedIs, StartedIs DEF TypeOK, MonitorStates

LEMMA SeenIs ==
  ASSUME TypeOK, NEW a \in Ids
  PROVE  /\ Seen(a) \in Clocks /\ [Seen(a) EXCEPT !.age = 0] \in Clocks
         /\ [Seen(a) EXCEPT !.sent = TRUE] \in Clocks
         /\ Seen(a).speaking = clock[a].speaking /\ Seen(a).talking = clock[a].talking
<1>1. clock[a] \in Clocks
  BY DEF TypeOK
<1>2. /\ Seen(a) \in Clocks
      /\ Seen(a).speaking = clock[a].speaking /\ Seen(a).talking = clock[a].talking
  BY <1>1, ClockTypes, ClockFields DEF Seen
<1>3. \A c \in Clocks : [c EXCEPT !.age = 0] \in Clocks
  BY DEF Clocks, Unset
<1>4. \A c \in Clocks : [c EXCEPT !.sent = TRUE] \in Clocks
  BY DEF Clocks
<1> QED BY <1>2, <1>3, <1>4

(* What the monitor makes of the clock it speaks by, said or not. *)
LEMMA SpokenBy ==
  ASSUME TypeOK, NEW a \in Ids
  PROVE  /\ Prompts(a) => \E c \in Clocks : clock' = [clock EXCEPT ![a] = c]
         /\ Parts(a) => \E c \in Clocks : clock' = [clock EXCEPT ![a] = c]
<1>1. /\ Busy([Seen(a) EXCEPT !.sent = TRUE]) \in Clocks
      /\ Idle(Busy([Seen(a) EXCEPT !.sent = TRUE])) \in Clocks
      /\ Busy(Seen(a)) \in Clocks /\ Idle(Busy(Seen(a))) \in Clocks
  BY SeenIs, ClockTypes
<1> QED BY <1>1 DEF Prompts, Parts

(* A check is one of an agent's own monitor. *)
LEMMA CheckTypes ==
  ASSUME TypeOK, NEW a \in Ids, NEW v, Check(a, v), NEW c \in Clocks,
         NEW m \in MonitorStates, UNCHANGED <<made, current, subs>>,
         clock' = [clock EXCEPT ![a] = c], At(a, m),
         voice' \in {voice, voice \cup {a}}, warned' \in BOOLEAN,
         idle' \subseteq idle, ended' \in BOOLEAN
  PROVE  TypeOK'
<1>1. a \in (1 .. made) \ subs
  BY DEF Check, TypeOK, Ids
<1>2. clock' \in [Ids -> Clocks]
  BY DEF TypeOK
<1>3. /\ monitor' \in [Ids -> MonitorStates]
      /\ \A b \in Ids : b \in subs \/ b > made => monitor'[b] = "none"
  <2>1. monitor \in [Ids -> MonitorStates]
    BY DEF TypeOK, MonitorStates
  <2>2. monitor' \in [Ids -> MonitorStates]
    BY <2>1 DEF At
  <2>3. ASSUME NEW b \in Ids, b \in subs \/ b > made PROVE monitor'[b] = "none"
    <3>1. b # a
      BY <1>1, <2>3 DEF TypeOK, Ids
    <3>2. monitor[b] = "none"
      BY <2>3 DEF TypeOK
    <3> QED BY <2>1, <3>1, <3>2 DEF At
  <2> QED BY <2>2, <2>3
<1>4. /\ voice' \subseteq (1 .. made') \ subs' /\ idle' \subseteq (1 .. made') \ subs'
      /\ wasActive' \subseteq (1 .. made') \ subs'
      /\ made' \in Ids /\ current' \in 1 .. made' /\ subs' \subseteq 2 .. made'
  BY <1>1 DEF Check, ClearedActive, TypeOK
<1>5. /\ user' \in {"listening", "speaking", "away"}
      /\ busy' \in BOOLEAN /\ ended' \in BOOLEAN
      /\ turn' \in {"none", "owed", "running", "handed"}
      /\ entry' \in [Ids -> {"done", "due", "greeting"}]
      /\ \A b \in Ids : b \in subs' \/ b > made' => monitor'[b] = "none" /\ entry'[b] = "done"
  BY <1>3 DEF Check, TypeOK
<1> QED BY <1>2, <1>3, <1>4, <1>5 DEF TypeOK, MonitorStates

LEMMA TypeStep == TypeOK /\ [Next]_vars => TypeOK'
<1>. SUFFICES ASSUME TypeOK, [Next]_vars PROVE TypeOK'
  OBVIOUS
<1>. USE DEF sdk, agents, tasks
<1>c. clock \in [Ids -> Clocks]
  BY DEF TypeOK
<1>1. CASE UserSpeaks
  <2>. DEFINE f == [a \in Ids |-> Reset(Talking(clock[a], TRUE))]
  <2>1. f \in [Ids -> Clocks]
    BY <1>c, ClockTypes
  <2>2. clock' = [a \in Ids |-> IF a \in Watched THEN f[a] ELSE clock[a]]
    BY <1>1 DEF UserSpeaks, Watch
  <2>. HIDE DEF f
  <2> QED BY <1>1, <2>1, <2>2, EventTypes DEF UserSpeaks, TypeOK
<1>2. CASE UserStops \/ UserAway
  <2>. DEFINE f == [a \in Ids |-> Reset(Talking(clock[a], FALSE))]
  <2>1. f \in [Ids -> Clocks]
    BY <1>c, ClockTypes
  <2>2. clock' = [a \in Ids |-> IF a \in Watched THEN f[a] ELSE clock[a]]
    BY <1>2 DEF UserStops, UserAway, Watch
  <2>. HIDE DEF f
  <2>3. CASE UserStops
    BY <2>3, <2>1, <2>2, EventTypes DEF UserStops, TypeOK
  <2>4. CASE UserAway
    BY <2>4, <2>1, <2>2, EventTypes DEF UserAway, TypeOK
  <2> QED BY <1>2, <2>3, <2>4
<1>3. CASE TurnBegins
  <2>. DEFINE f == [a \in Ids |-> Answering(clock[a])]
  <2>1. f \in [Ids -> Clocks]
    BY <1>c, ClockTypes
  <2>2. clock' = [a \in Ids |-> IF a \in Watched THEN f[a] ELSE clock[a]]
    BY <1>3 DEF TurnBegins, Watch
  <2>. HIDE DEF f
  <2> QED BY <1>3, <2>1, <2>2, EventTypes DEF TurnBegins, Pending, TypeOK
<1>4. CASE VoiceBegins
  <2>. DEFINE f == [a \in Ids |-> Busy(clock[a])]
  <2>1. f \in [Ids -> Clocks]
    BY <1>c, ClockTypes
  <2>2. clock' = [a \in Ids |-> IF a \in Watched THEN f[a] ELSE clock[a]]
    BY <1>4 DEF VoiceBegins, Watch
  <2>. HIDE DEF f
  <2> QED BY <1>4, <2>1, <2>2, EventTypes DEF VoiceBegins, Pending, TypeOK
<1>5. CASE AgentIdle
  BY <1>5, <1>c, EventTypes DEF AgentIdle, TypeOK
<1>6. CASE ToAppeal
  BY <1>6 DEF ToAppeal, Swap, TypeOK, Ids
<1>7. CASE ToMain
  BY <1>7 DEF ToMain, Swap, TypeOK, Ids
<1>8. CASE Tick
  BY <1>8, <1>c, ClockTypes DEF Tick, TypeOK
<1>9. ASSUME NEW a \in Ids, SpeechEnds(a) PROVE TypeOK'
  BY <1>9 DEF SpeechEnds, TypeOK
<1>10. ASSUME NEW a \in Ids, Step(a) PROVE TypeOK'
  <2>1. CASE IdleTask(a)
    BY <2>1, <1>c, ClockTypes DEF IdleTask, TypeOK
  <2>2. CASE Enter(a)
    <3>1. a \in (1 .. made) \ subs
      BY <2>2 DEF Enter, TypeOK, Ids
    <3>2. clock' \in [Ids -> Clocks]
      BY <2>2, <1>c, ClockTypes DEF Enter
    <3>3. /\ monitor' \in [Ids -> MonitorStates]
          /\ \A b \in Ids : b \in subs \/ b > made => monitor'[b] = "none"
      BY <2>2, <3>1, StartedIs DEF Enter
    <3>4. /\ entry' \in [Ids -> {"done", "due", "greeting"}]
          /\ \A b \in Ids : b \in subs \/ b > made => entry'[b] = "done"
      BY <2>2, <3>1 DEF Enter, TypeOK
    <3>5. voice' \subseteq (1 .. made) \ subs
      BY <2>2, <3>1 DEF Enter, TypeOK
    <3> QED BY <2>2, <3>2, <3>3, <3>4, <3>5 DEF Enter, TypeOK, MonitorStates
  <2>3. CASE Greeted(a)
    BY <2>3, <1>c, ClockTypes DEF Greeted, TypeOK
  <2>4. CASE Probe(a)
    BY <2>4 DEF Probe, At, TypeOK, Ids
  <2>5. CASE Waits(a)
    <3>1. PICK v \in {"none", "arm"} :
            /\ Check(a, v)
            /\ clock' = [clock EXCEPT ![a] = IF v = "arm" THEN [Seen(a) EXCEPT !.age = 0]
                                                           ELSE Seen(a)]
      BY <2>5 DEF Waits
    <3>2. PICK c \in Clocks : clock' = [clock EXCEPT ![a] = c]
      BY <3>1, SeenIs
    <3> QED BY <2>5, <3>1, <3>2, CheckTypes DEF Waits, Check, TypeOK, MonitorStates
  <2>6. CASE Prompts(a)
    <3>1. PICK c \in Clocks : clock' = [clock EXCEPT ![a] = c]
      BY <2>6, SpokenBy
    <3>2. PICK m \in {"prompting", "asleep"} : At(a, m)
      BY <2>6 DEF Prompts
    <3>3. Check(a, "prompt") /\ UNCHANGED <<made, current, subs, idle, ended>>
      BY <2>6 DEF Prompts, Check
    <3>4. voice' \in {voice, voice \cup {a}} /\ warned' \in BOOLEAN /\ ended' \in BOOLEAN
      BY <2>6, <3>3 DEF Prompts, TypeOK
    <3> QED BY <3>1, <3>2, <3>3, <3>4, CheckTypes DEF MonitorStates
  <2>7. CASE Parts(a)
    <3>1. PICK c \in Clocks : clock' = [clock EXCEPT ![a] = c]
      BY <2>7, SpokenBy
    <3>2. PICK m \in {"parting", "none"} : At(a, m)
      BY <2>7 DEF Parts, EndCall
    <3>3. Check(a, "goodbye") /\ UNCHANGED <<made, current, subs>> /\ idle' \subseteq idle
      BY <2>7 DEF Parts, EndCall, Check
    <3>4. voice' \in {voice, voice \cup {a}} /\ warned' \in BOOLEAN /\ ended' \in BOOLEAN
      BY <2>7 DEF Parts, EndCall, TypeOK
    <3> QED BY <3>1, <3>2, <3>3, <3>4, CheckTypes DEF MonitorStates
  <2>8. CASE Prompted(a)
    BY <2>8, <1>c, ClockTypes DEF Prompted, At, TypeOK
  <2>9. CASE Parted(a)
    BY <2>9, <1>c, ClockTypes DEF Parted, EndCall, At, TypeOK
  <2> QED BY <1>10, <2>1, <2>2, <2>3, <2>4, <2>5, <2>6, <2>7, <2>8, <2>9 DEF Step
<1>11. CASE UNCHANGED vars
  BY <1>11 DEF vars, TypeOK
<1> QED BY <1>1, <1>2, <1>3, <1>4, <1>5, <1>6, <1>7, <1>8, <1>9, <1>10, <1>11 DEF Next, Over

LEMMA TypeInit == Init => TypeOK
<1>. SUFFICES ASSUME Init PROVE TypeOK
  OBVIOUS
<1>1. NewClock \in Clocks
  BY DEF Clocks, Clock, NewClock, Unset
<1>2. clock \in [Ids -> Clocks]
  BY <1>1 DEF Init
<1>3. /\ entry \in [Ids -> {"done", "due", "greeting"}]
      /\ monitor \in [Ids -> MonitorStates]
      /\ \A a \in Ids : a \in subs \/ a > made => monitor[a] = "none" /\ entry[a] = "done"
  BY DEF Init, MonitorStates, Ids
<1>4. made \in Ids /\ current \in 1 .. made
  BY DEF Init, Ids
<1>5. subs \subseteq 2 .. made /\ voice = {} /\ idle = {} /\ wasActive = {}
  BY DEF Init
<1> QED BY <1>2, <1>3, <1>4, <1>5 DEF Init, TypeOK, MonitorStates

(* Handlers, tasks and swaps keep clocks, monitors and agents in their      *)
(* types; an agent without a clock has no task that reads one.             *)
THEOREM SilenceTypeOK == Spec => []TypeOK
<1> QED BY TypeInit, TypeStep, PTL DEF Spec

-----------------------------------------------------------------------------
(* Agents that were left. *)

LEMMA BusyKept ==
  ASSUME NEW c \in Clocks
  PROVE  /\ Busy(c).speaking /\ Answering(c).speaking
         /\ c.speaking => /\ Older(c).speaking /\ [c EXCEPT !.age = 0].speaking
                          /\ \A on \in BOOLEAN : Reset(Talking(c, on)).speaking
  BY DEF Clocks, Clock, Reset, Busy, Older, Answering, Talking

(* A clock that is marked busy lets no monitor speak. *)
LEMMA BusyIsMute ==
  ASSUME TypeOK, NEW a \in Ids, clock[a].speaking
  PROVE  ~Prompts(a) /\ ~Parts(a)
  BY SeenIs DEF Prompts, Parts, Check, WindowOpen

(* No step disturbs an agent that is left, or about to be. *)
LEMMA StillStep ==
  ASSUME TypeOK, [Next]_vars, NEW a \in Ids, a =< made, a \notin subs, Still(a),
         a # current \/ (turn = "running" /\ turn' # "none")
  PROVE  Still(a)'
<1>. USE DEF sdk, agents, tasks
<1>c. clock[a] \in Clocks /\ clock[a].speaking /\ clock \in [Ids -> Clocks]
  BY DEF TypeOK, Still
<1>m. \A S : Started(S)[a] \notin {"prompting", "parting"}
  BY DEF Started, Still
<1>1. CASE UserSpeaks
  <2>1. clock'[a] \in {clock[a], Reset(Talking(clock[a], TRUE))}
    BY <1>1 DEF UserSpeaks, Watch
  <2>2. clock'[a].speaking
    BY <2>1, <1>c, BusyKept
  <2> QED BY <1>1, <1>m, <2>2 DEF UserSpeaks, Still
<1>2. CASE UserStops \/ UserAway
  <2>1. clock'[a] \in {clock[a], Reset(Talking(clock[a], FALSE))}
    BY <1>2 DEF UserStops, UserAway, Watch
  <2>2. clock'[a].speaking
    BY <2>1, <1>c, BusyKept
  <2> QED BY <1>2, <1>m, <2>2 DEF UserStops, UserAway, Still
<1>3. CASE TurnBegins
  <2>1. clock'[a] \in {clock[a], Answering(clock[a])}
    BY <1>3 DEF TurnBegins, Watch
  <2>2. clock'[a].speaking
    BY <2>1, <1>c, BusyKept
  <2> QED BY <1>3, <1>m, <2>2 DEF TurnBegins, Pending, Still
<1>4. CASE VoiceBegins
  <2>1. clock'[a] \in {clock[a], Busy(clock[a])}
    BY <1>4 DEF VoiceBegins, Watch
  <2>2. clock'[a].speaking
    BY <2>1, <1>c, BusyKept
  <2> QED BY <1>4, <1>m, <2>2 DEF VoiceBegins, Pending, Still
<1>5. CASE AgentIdle
  BY <1>5, <1>m DEF AgentIdle, Watched, Still
<1>6. CASE ToAppeal \/ ToMain
  <2>1. a # made + 1
    BY DEF TypeOK, Ids
  <2> QED BY <1>6, <2>1 DEF ToAppeal, ToMain, Swap, Still, TypeOK
<1>7. CASE Tick
  <2>1. clock'[a] = Older(clock[a])
    BY <1>7 DEF Tick
  <2>2. clock'[a].speaking
    BY <2>1, <1>c, BusyKept
  <2>3. monitor'[a] \notin {"prompting", "parting"}
    BY <1>7 DEF Tick, Still
  <2> QED BY <1>7, <2>2, <2>3 DEF Tick, Still
<1>8. ASSUME NEW b \in Ids, SpeechEnds(b) PROVE Still(a)'
  BY <1>8 DEF SpeechEnds, Still
<1>9. ASSUME NEW b \in Ids, Step(b) PROVE Still(a)'
  <2>1. CASE IdleTask(b)
    BY <2>1, <1>c DEF IdleTask, Still
  <2>2. CASE Enter(b)
    BY <2>2, <1>c, <1>m DEF Enter, Still, TypeOK
  <2>3. CASE Greeted(b)
    BY <2>3, <1>c DEF Greeted, Still, TypeOK
  <2>4. CASE Probe(b)
    BY <2>4 DEF Probe, At, Still, TypeOK
  <2>5. CASE Waits(b)
    <3>1. clock'[a].speaking
      <4>1. clock'[a] \in {clock[a], Seen(a), [Seen(a) EXCEPT !.age = 0]}
        BY <2>5, <1>c DEF Waits
      <4>2. Seen(a) \in Clocks /\ Seen(a).speaking
        BY <1>c, SeenIs
      <4> QED BY <4>1, <4>2, <1>c, BusyKept
    <3> QED BY <2>5, <3>1 DEF Waits, Check, At, Still, TypeOK
  <2>6. CASE Prompts(b)
    <3>1. a # b
      BY <2>6, <1>c, BusyIsMute
    <3> QED BY <2>6, <3>1, <1>c DEF Prompts, Check, At, Still, TypeOK
  <2>7. CASE Parts(b)
    <3>1. a # b
      BY <2>7, <1>c, BusyIsMute
    <3> QED BY <2>7, <3>1, <1>c DEF Parts, EndCall, Check, At, Still, TypeOK
  <2>8. CASE Prompted(b)
    BY <2>8, <1>c DEF Prompted, At, Still, TypeOK
  <2>9. CASE Parted(b)
    BY <2>9, <1>c DEF Parted, EndCall, At, Still, TypeOK
  <2> QED BY <1>9, <2>1, <2>2, <2>3, <2>4, <2>5, <2>6, <2>7, <2>8, <2>9 DEF Step
<1>10. CASE UNCHANGED vars
  BY <1>10 DEF vars, Still
<1> QED BY <1>1, <1>2, <1>3, <1>4, <1>5, <1>6, <1>7, <1>8, <1>9, <1>10 DEF Next, Over

(* How the turns and the agents of a call follow one another. *)
LEMMA TurnSteps ==
  ASSUME [Next]_vars
  PROVE  \/ TurnBegins
         \/ ToAppeal \/ ToMain
         \/ UNCHANGED agents /\ (turn' = "running" => turn = "running")
  BY DEF Next, Step, Over, vars, sdk, agents, tasks, UserSpeaks, UserStops, UserAway, VoiceBegins,
         AgentIdle, Tick, SpeechEnds, IdleTask, Enter, Greeted, Probe, Waits, Prompts, Parts,
         Check, Prompted, Parted

(* A turn finds the agent with nothing under way, and leaves it busy. *)
LEMMA TurnIsStill ==
  ASSUME TypeOK, TurnBegins, current \notin subs
  PROVE  Still(current)'
<1>1. clock[current] \in Clocks /\ current \in Ids /\ current \in Watched
  BY DEF TypeOK, Watched, Ids
<1>2. clock'[current] = Answering(clock[current])
  BY <1>1 DEF TurnBegins, Watch
<1>3. clock'[current].speaking
  BY <1>1, <1>2, BusyKept
<1>4. entry[current] = "done" /\ monitor[current] \notin {"prompting", "parting"}
  BY <1>1 DEF TurnBegins, Settled, Ready, TypeOK
<1> QED BY <1>1, <1>3, <1>4 DEF TurnBegins, Pending, Started, Still, agents

LEMMA LeftStep ==
  ASSUME TypeOK, LeftAlone, [Next]_vars
  PROVE  LeftAlone'
<1>1. CASE TurnBegins
  <2>1. ASSUME NEW a \in 1 .. made, a # current, a \notin subs PROVE Still(a)'
    BY <2>1, StillStep DEF LeftAlone, TypeOK, Ids
  <2> QED BY <1>1, <2>1, TurnIsStill DEF LeftAlone, TurnBegins, agents
<1>2. CASE ToAppeal \/ ToMain
  <2>1. /\ turn = "running" /\ turn' = "handed" /\ made' = made + 1 /\ current' = made + 1
        /\ subs \subseteq subs'
    BY <1>2 DEF ToAppeal, ToMain, Swap
  <2>2. ASSUME NEW a \in 1 .. made, a \notin subs PROVE Still(a)'
    BY <2>1, <2>2, StillStep DEF LeftAlone, TypeOK, Ids
  <2> QED BY <2>1, <2>2 DEF LeftAlone, TypeOK, Ids
<1>3. CASE UNCHANGED agents /\ (turn' = "running" => turn = "running")
  <2>1. ASSUME NEW a \in 1 .. made, a # current, a \notin subs PROVE Still(a)'
    BY <2>1, StillStep DEF LeftAlone, TypeOK, Ids
  <2>2. ASSUME turn' = "running", current \notin subs PROVE Still(current)'
    <3>1. current \in Ids /\ current =< made
      BY DEF TypeOK, Ids
    <3>2. turn = "running" /\ turn' # "none" /\ Still(current)
      BY <1>3, <2>2 DEF LeftAlone
    <3>3. \A a \in Ids : a = current => Still(a)'
      BY <2>2, <3>1, <3>2, StillStep
    <3> QED BY <1>3, <3>1, <3>3 DEF Still, agents
  <2>3. turn' = "running" /\ current \notin subs => Still(current)'
    BY <2>2
  <2>4. \A a \in 1 .. made : a # current /\ a \notin subs => Still(a)'
    BY <2>1
  <2>5. UNCHANGED <<made, current, subs>>
    BY <1>3 DEF agents
  <2> QED BY <2>3, <2>4, <2>5 DEF LeftAlone
<1> QED BY <1>1, <1>2, <1>3, TurnSteps

LEMMA SpeakerIsCurrent ==
  ASSUME TypeOK, LeftAlone, NEW a \in Ids, Prompts(a) \/ Parts(a)
  PROVE  a = current
<1>1. monitor[a] = "probed"
  BY DEF Prompts, Parts, Check
<1>2. a =< made /\ a \notin subs
  BY <1>1 DEF TypeOK, Ids
<1> QED BY <1>2, BusyIsMute DEF LeftAlone, Still, TypeOK, Ids

(* The monitor of an agent the call has left never speaks into it: what    *)
(* keeps it silent is the busy mark the swap of agents left on its clock.  *)
THEOREM OnlyTheCurrentSpeaks == Spec => OnlyCurrentSpeaks
<1>1. Init => TypeOK /\ LeftAlone
  BY TypeInit DEF Init, LeftAlone
<1>2. TypeOK /\ LeftAlone /\ [Next]_vars => (TypeOK /\ LeftAlone)'
  BY TypeStep, LeftStep
<1>3. TypeOK /\ LeftAlone => \A a \in Ids : Prompts(a) \/ Parts(a) => a = current
  BY SpeakerIsCurrent
<1> QED BY <1>1, <1>2, <1>3, PTL DEF Spec, OnlyCurrentSpeaks

-----------------------------------------------------------------------------
(* Silence, between the probe of the session and the words. *)

LEMMA TalkingKept ==
  ASSUME NEW c \in Clocks, c.talking
  PROVE  /\ Idle(c).talking /\ Armed(c).talking /\ Busy(c).talking
         /\ Answering(c).talking /\ Reset(c).talking
         /\ [c EXCEPT !.age = 0].talking /\ [c EXCEPT !.sent = TRUE].talking
  BY DEF Clocks, Clock, Idle, Armed, Busy, Answering, Reset

(* An agent that has not been entered yet is the current one. *)
LEMMA DueIsCurrent ==
  ASSUME TypeOK, LeftAlone, NEW a \in Ids, entry[a] = "due"
  PROVE  a = current
  BY DEF TypeOK, LeftAlone, Still, Ids

LEMMA QuietStep ==
  ASSUME IInv, [Next]_vars
  PROVE  StillQuiet'
<1>. USE DEF sdk, agents, tasks
<1>c. clock[current] \in Clocks /\ clock \in [Ids -> Clocks] /\ current \in Ids
  BY DEF IInv, TypeOK, Ids
<1>m. /\ \A S : (Started(S)[current] = "probed" => monitor[current] = "probed")
      /\ \A S : monitor[current] \in {"none", "asleep"}
                => Started(S)[current] \in {"none", "asleep"}
  BY <1>c DEF Started
<1>1. CASE UserSpeaks
  <2>1. ASSUME monitor[current] = "probed" PROVE clock'[current].talking
    <3>1. current \in Watched
      BY <1>c, <2>1 DEF Watched, IInv, TypeOK
    <3>2. clock'[current] = Reset(Talking(clock[current], TRUE))
      BY <1>1, <1>c, <3>1 DEF UserSpeaks, Watch
    <3>3. \A d \in Clocks : Reset(Talking(d, TRUE)).talking
      BY DEF Clocks, Clock, Reset, Talking
    <3> QED BY <3>2, <3>3, <1>c
  <2> QED BY <1>1, <1>m, <2>1 DEF UserSpeaks, StillQuiet, IInv
<1>2. CASE UserStops \/ UserAway
  BY <1>2, <1>m DEF UserStops, UserAway, StillQuiet, IInv
<1>3. CASE TurnBegins
  BY <1>3, <1>m, <1>c DEF TurnBegins, Settled, Ready, StillQuiet, IInv
<1>4. CASE VoiceBegins
  BY <1>4, <1>m DEF VoiceBegins, StillQuiet, IInv
<1>5. CASE AgentIdle
  BY <1>5, <1>m DEF AgentIdle, StillQuiet, IInv
<1>6. CASE ToAppeal \/ ToMain
  <2>1. current' \in Ids /\ monitor'[current'] = "none"
    BY <1>6 DEF ToAppeal, ToMain, Swap, IInv, TypeOK, Ids
  <2> QED BY <2>1 DEF StillQuiet
<1>7. CASE Tick
  <2>1. monitor[current] \notin {"due", "probed"} /\ entry[current] # "due"
    BY <1>7, <1>c DEF Tick, Settled, Ready
  <2> QED BY <1>7, <1>c, <2>1 DEF Tick, StillQuiet
<1>8. ASSUME NEW a \in Ids, SpeechEnds(a) PROVE StillQuiet'
  BY <1>8 DEF SpeechEnds, StillQuiet, IInv
<1>9. ASSUME NEW a \in Ids, Step(a) PROVE StillQuiet'
  <2>1. CASE IdleTask(a)
    <3>1. clock'[current] \in {clock[current], Idle(clock[current])}
      BY <2>1, <1>c DEF IdleTask
    <3> QED BY <2>1, <1>c, <3>1, TalkingKept DEF IdleTask, StillQuiet, IInv
  <2>2. CASE Enter(a)
    <3>1. a = current
      BY <2>2, DueIsCurrent DEF Enter, IInv
    <3>2. monitor[current] # "probed" /\ entry'[current] # "due"
      BY <2>2, <1>c, <3>1 DEF Enter, StillQuiet, IInv, TypeOK
    <3> QED BY <2>2, <1>m, <3>2 DEF Enter, StillQuiet
  <2>3. CASE Greeted(a)
    <3>1. clock'[current] \in {clock[current], Armed(clock[current])}
      BY <2>3, <1>c DEF Greeted
    <3>2. entry'[current] = "due" => entry[current] = "due"
      BY <2>3, <1>c DEF Greeted, IInv, TypeOK
    <3> QED BY <2>3, <1>c, <3>1, <3>2, TalkingKept DEF Greeted, StillQuiet, IInv
  <2>4. CASE Probe(a)
    BY <2>4, <1>c DEF Probe, At, Quiet, Active, StillQuiet, IInv, TypeOK
  <2>5. CASE Waits(a)
    BY <2>5, <1>c DEF Waits, Check, At, StillQuiet, IInv, TypeOK
  <2>6. CASE Prompts(a) \/ Parts(a)
    <3>1. a = current /\ entry[current] # "due"
      BY <2>6, SpeakerIsCurrent DEF IInv, StillQuiet, Prompts, Parts, Check
    <3>2. monitor'[current] \in {"prompting", "parting", "asleep", "none"}
      BY <2>6, <3>1, <1>c DEF Prompts, Parts, EndCall, At, IInv, TypeOK
    <3>3. UNCHANGED <<entry, current>>
      BY <2>6 DEF Prompts, Parts, Check
    <3> QED BY <3>1, <3>2, <3>3 DEF StillQuiet
  <2>7. CASE Prompted(a)
    <3>1. clock'[current] \in {clock[current], Idle(clock[current])}
      BY <2>7, <1>c DEF Prompted
    <3> QED BY <2>7, <1>c, <3>1, TalkingKept DEF Prompted, At, StillQuiet, IInv, TypeOK
  <2>8. CASE Parted(a)
    <3>1. clock'[current] \in {clock[current], Idle(clock[current])}
      BY <2>8, <1>c DEF Parted
    <3> QED BY <2>8, <1>c, <3>1, TalkingKept DEF Parted, EndCall, At, StillQuiet, IInv, TypeOK
  <2> QED BY <1>9, <2>1, <2>2, <2>3, <2>4, <2>5, <2>6, <2>7, <2>8 DEF Step
<1>10. CASE UNCHANGED vars
  BY <1>10 DEF vars, StillQuiet, IInv
<1> QED BY <1>1, <1>2, <1>3, <1>4, <1>5, <1>6, <1>7, <1>8, <1>9, <1>10 DEF Next, Over

(* A monitor that speaks has found the session inactive an await earlier;  *)
(* it is still so, or the clock would have told it.                        *)
THEOREM SilenceIsKept == Spec => SpeaksOnlyInSilence
<1>1. Init => IInv
  BY TypeInit DEF Init, IInv, LeftAlone, StillQuiet, TypeOK
<1>2. IInv /\ [Next]_vars => IInv'
  BY TypeStep, LeftStep, QuietStep DEF IInv
<1>3. ASSUME IInv, NEW a \in Ids, Prompts(a) \/ Parts(a) PROVE ~Active
  <2>1. a = current /\ monitor[a] = "probed"
    BY <1>3, SpeakerIsCurrent DEF IInv, Prompts, Parts, Check
  <2>2. ~clock[a].talking
    BY <1>3, SeenIs DEF Prompts, Parts, Check, WindowOpen, IInv
  <2> QED BY <1>3, <2>1, <2>2 DEF IInv, StillQuiet, Active
<1>4. IInv => \A a \in Ids : Prompts(a) \/ Parts(a) => ~Active
  BY <1>3
<1> QED BY <1>1, <1>2, <1>4, PTL DEF Spec, SpeaksOnlyInSilence

-----------------------------------------------------------------------------
(* The prompt comes before the goodbye. *)

(* Clocks no handler has touched: of agents to come, of appeal agents, and *)
(* of a current agent whose monitor has not been started.                  *)
Untouched ==
  /\ \A a \in Ids : a > made \/ a \in subs => clock[a] = NewClock
  /\ ~ended /\ monitor[current] = "none" =>
       clock[current] = NewClock /\ current \notin idle /\ entry[current] # "greeting"

(* While something is said for the current agent, its clock is marked busy *)
(* as soon as the agent state is.                                          *)
Voiced ==
  /\ turn \in {"running", "handed"} => busy
  /\ entry[current] = "due" => current \notin voice /\ (busy => current \notin idle)
  /\ current \in voice /\ busy => clock[current].speaking /\ current \notin idle

(* An open window that is old enough has had its prompt. *)
Excused(c, limit) == WindowOpen(c) /\ c.age >= limit => c.sent

(* A sent prompt is one the caller has not answered, and every window has  *)
(* had its prompt in time, unless the session was active meanwhile; at a   *)
(* check the window may be one interval older.                             *)
Asked ==
  /\ clock[current].sent => warned
  /\ monitor[current] \in {"asleep", "prompting"} /\ current \notin wasActive
       => Excused(clock[current], Prompt)
  /\ monitor[current] \in {"due", "probed"} /\ current \notin wasActive
       => Excused(clock[current], Goodbye)

LEMMA ExcusedBy ==
  ASSUME NEW c \in Clocks, NEW limit \in {Prompt, Goodbye}
  PROVE  /\ Excused(Reset(c), limit) /\ Excused(Busy(c), limit)
         /\ Excused(Answering(c), limit) /\ Excused(Armed(c), limit)
         /\ Excused(NewClock, limit) /\ Excused([c EXCEPT !.age = 0], limit)
         /\ Excused(c, limit) => Excused(Idle(c), limit)
         /\ Excused(c, Prompt) => Excused(Older(c), Goodbye)
<1>1. Excused(Reset(c), limit) /\ Excused(Busy(c), limit) /\ Excused(Answering(c), limit)
  BY DEF Clocks, Clock, Reset, Busy, Answering, Excused, WindowOpen
<1>2. Excused(Armed(c), limit) /\ Excused(NewClock, limit) /\ Excused([c EXCEPT !.age = 0], limit)
  BY DEF Clocks, Clock, Reset, Idle, Armed, NewClock, Unset, Excused, WindowOpen
<1>3. Excused(c, limit) => Excused(Idle(c), limit)
  BY DEF Clocks, Clock, Idle, Excused, WindowOpen
<1>4. Excused(c, Prompt) => Excused(Older(c), Goodbye)
  BY DEF Clocks, Older, Unset, Excused, WindowOpen
<1> QED BY <1>1, <1>2, <1>3, <1>4

LEMMA SentBy ==
  ASSUME NEW c \in Clocks
  PROVE  /\ ~Reset(c).sent /\ ~Answering(c).sent /\ ~Armed(c).sent /\ ~NewClock.sent
         /\ Busy(c).sent => c.sent
         /\ Idle(c).sent => c.sent
         /\ Older(c).sent => c.sent
         /\ [c EXCEPT !.age = 0].sent => c.sent
  BY DEF Clocks, Clock, Reset, Busy, Idle, Older, Answering, Armed, NewClock, Unset

(* Whatever changes a clock or its monitor, it is an agent's own. *)
LEMMA StepOwner ==
  ASSUME TypeOK, NEW a \in Ids, Step(a)
  PROVE  a =< made /\ a \notin subs /\ ~ended /\ UNCHANGED <<made, current, subs>>
<1>1. ~ended /\ UNCHANGED agents
  BY DEF Step, IdleTask, Enter, Greeted, Probe, Waits, Prompts, Parts, Check, Prompted, Parted
<1>2. monitor[a] # "none" \/ entry[a] # "done" \/ a \in idle
  BY DEF Step, IdleTask, Enter, Greeted, Probe, Waits, Prompts, Parts, Check, Prompted, Parted
<1>3. CASE a \in idle
  BY <1>1, <1>3 DEF agents, TypeOK
<1>4. CASE a \notin idle
  <2>1. ~(a \in subs \/ a > made)
    BY <1>2, <1>4 DEF TypeOK
  <2>2. a =< made
    BY <2>1 DEF TypeOK, Ids
  <2> QED BY <1>1, <2>1, <2>2 DEF agents
<1> QED BY <1>3, <1>4

LEMMA StepClocks ==
  ASSUME TypeOK, NEW a \in Ids, Step(a), NEW b \in Ids, b # a
  PROVE  clock'[b] = clock[b] /\ monitor'[b] = monitor[b] /\ entry'[b] = entry[b]
<1>. USE DEF TypeOK, sdk, agents, tasks
<1>1. CASE IdleTask(a)
  BY <1>1 DEF IdleTask
<1>2. CASE Enter(a)
  BY <1>2 DEF Enter, Started
<1>3. CASE Greeted(a)
  BY <1>3 DEF Greeted
<1>4. CASE Probe(a)
  BY <1>4 DEF Probe, At
<1>5. CASE Waits(a)
  BY <1>5 DEF Waits, Check, ClearedActive, At
<1>6. CASE Prompts(a)
  BY <1>6 DEF Prompts, Check, ClearedActive, At
<1>7. CASE Parts(a)
  BY <1>7 DEF Parts, EndCall, Check, ClearedActive, At
<1>8. CASE Prompted(a)
  BY <1>8 DEF Prompted, At
<1>9. CASE Parted(a)
  BY <1>9 DEF Parted, EndCall, At
<1> QED BY <1>1, <1>2, <1>3, <1>4, <1>5, <1>6, <1>7, <1>8, <1>9 DEF Step

LEMMA StepSets ==
  ASSUME TypeOK, NEW a \in Ids, Step(a), NEW b \in Ids, b # a
  PROVE  /\ b \in idle' <=> b \in idle
         /\ b \in voice' <=> b \in voice
         /\ b \in wasActive' <=> b \in wasActive
<1>. USE DEF sdk, agents, tasks
<1>1. CASE IdleTask(a)
  BY <1>1 DEF IdleTask
<1>2. CASE Enter(a)
  BY <1>2 DEF Enter, Started
<1>3. CASE Greeted(a)
  BY <1>3 DEF Greeted
<1>4. CASE Probe(a)
  BY <1>4 DEF Probe, At
<1>5. CASE Waits(a)
  BY <1>5 DEF Waits, Check, ClearedActive, At
<1>6. CASE Prompts(a)
  BY <1>6 DEF Prompts, Check, ClearedActive, At
<1>7. CASE Parts(a)
  BY <1>7 DEF Parts, EndCall, Check, ClearedActive, At
<1>8. CASE Prompted(a)
  BY <1>8 DEF Prompted, At
<1>9. CASE Parted(a)
  BY <1>9 DEF Parted, EndCall, At
<1> QED BY <1>1, <1>2, <1>3, <1>4, <1>5, <1>6, <1>7, <1>8, <1>9 DEF Step

(* The session's events: they reach the current agent, if it has a clock. *)
Event == UserSpeaks \/ UserStops \/ UserAway \/ TurnBegins \/ VoiceBegins \/ AgentIdle

LEMMA EventSteps ==
  ASSUME TypeOK, Event
  PROVE  /\ UNCHANGED <<made, current, subs, entry, wasActive, ended>>
         /\ monitor' = Started(Watched)
         /\ voice' \subseteq voice /\ idle' \subseteq idle \cup Watched
         /\ \A b \in Ids : b \notin Watched => clock'[b] = clock[b]
  BY DEF Event, UserSpeaks, UserStops, UserAway, TurnBegins, VoiceBegins, AgentIdle, Watch,
         Pending, agents, TypeOK

LEMMA Started1 ==
  ASSUME TypeOK, current \notin subs
  PROVE  /\ Started(Watched)[current] # "none"
         /\ \A S : monitor[current] # "none" => Started(S)[current] = monitor[current]
         /\ monitor[current] = "none" => Started(Watched)[current] = "asleep"
<1>1. current \in Ids /\ current \in Watched
  BY DEF Watched, TypeOK, Ids
<1> QED BY <1>1 DEF Started

LEMMA UntouchedStep ==
  ASSUME IInv, Untouched, [Next]_vars
  PROVE  Untouched'
<1>. TypeOK
  BY DEF IInv
<1>c. current \in Ids /\ current =< made
  BY DEF TypeOK, Ids
<1>1. CASE Event
  <2>1. ASSUME NEW a \in Ids, a > made' \/ a \in subs' PROVE clock'[a] = NewClock
    <3>1. a > made \/ a \in subs
      BY <1>1, <2>1, EventSteps
    <3>2. a \notin Watched
      BY <3>1, <1>c DEF Watched, TypeOK, Ids
    <3> QED BY <1>1, <3>1, <3>2, EventSteps DEF Untouched
  <2>2. CASE current \in subs
    <3>1. Watched = {}
      BY <2>2 DEF Watched
    <3>2. clock' [current'] = NewClock /\ current' \notin idle' /\ entry'[current'] # "greeting"
      BY <1>1, <1>c, <2>2, <3>1, EventSteps DEF Untouched, TypeOK
    <3> QED BY <2>1, <3>2 DEF Untouched
  <2>3. CASE current \notin subs
    <3>1. monitor'[current'] # "none"
      BY <1>1, <2>3, EventSteps, Started1
    <3> QED BY <2>1, <3>1 DEF Untouched
  <2> QED BY <2>2, <2>3
<1>2. CASE ToAppeal \/ ToMain
  <2>1. /\ made' = made + 1 /\ current' = made + 1 /\ made + 1 \in Ids
        /\ subs' \subseteq subs \cup {made + 1} /\ UNCHANGED <<clock, idle>>
        /\ entry'[made + 1] # "greeting"
    BY <1>2 DEF ToAppeal, ToMain, Swap, TypeOK, Ids
  <2>2. clock[made + 1] = NewClock /\ made + 1 \notin idle
    BY <2>1 DEF Untouched, TypeOK, Ids
  <2> QED BY <2>1, <2>2 DEF Untouched, TypeOK, Ids
<1>3. CASE Tick
  <2>1. Older(NewClock) = NewClock
    BY DEF Older, NewClock, Clock
  <2>2. \A a \in Ids : clock'[a] = Older(clock[a])
    BY <1>3 DEF Tick
  <2>3. monitor'[current] = "none" => monitor[current] = "none"
    BY <1>3, <1>c DEF Tick
  <2> QED BY <1>3, <1>c, <2>1, <2>2, <2>3 DEF Tick, Untouched, agents
<1>4. ASSUME NEW a \in Ids, SpeechEnds(a) PROVE Untouched'
  BY <1>4 DEF SpeechEnds, Untouched, agents, tasks
<1>5. ASSUME NEW a \in Ids, Step(a) PROVE Untouched'
  <2>1. ASSUME NEW b \in Ids, b > made' \/ b \in subs' PROVE clock'[b] = NewClock
    <3>1. a =< made /\ a \notin subs /\ (b > made \/ b \in subs)
      BY <1>5, <2>1, StepOwner
    <3>2. b # a
      BY <3>1 DEF TypeOK, Ids
    <3> QED BY <1>5, <3>1, <3>2, StepClocks DEF Untouched
  <2>2. CASE a # current
    BY <1>5, <1>c, <2>1, <2>2, StepOwner, StepClocks, StepSets DEF Untouched
  <2>3. CASE a = current /\ monitor'[current] # "none"
    BY <1>5, <2>1, <2>3, StepOwner DEF Untouched
  <2>4. CASE a = current /\ monitor'[current] = "none"
    <3>1. CASE monitor[current] = "none"
      <4>1. ~Enter(a)
        BY <2>4, <1>c, Started1, StartedIs DEF Enter, Started
      <4> QED BY <1>5, <2>4, <3>1, <4>1 DEF Step, IdleTask, Greeted, Probe, Waits, Prompts, Parts,
                     Check, Prompted, Parted, Untouched
    <3>2. CASE monitor[current] # "none"
      <4>1. EndCall(a)
        BY <1>5, <1>c, <2>4, <3>2 DEF Step, IdleTask, Enter, Greeted, Probe, Waits, Prompts, Parts,
           Check, Prompted, Parted, At, Started, tasks, TypeOK
      <4>2. ended' /\ current' = current
        BY <1>5, <2>4, <4>1, StepOwner DEF EndCall
      <4> QED BY <2>1, <4>2 DEF Untouched
    <3> QED BY <3>1, <3>2
  <2> QED BY <2>2, <2>3, <2>4
<1>6. CASE UNCHANGED vars
  BY <1>6 DEF vars, Untouched
<1> QED BY <1>1, <1>2, <1>3, <1>4, <1>5, <1>6 DEF Next, Event, Over

(* What a session event makes of the current clock. *)
LEMMA EventClock ==
  ASSUME TypeOK, Event
  PROVE  clock'[current] \in {clock[current], Reset(Talking(clock[current], TRUE)),
                             Reset(Talking(clock[current], FALSE)),
                             Answering(clock[current]), Busy(clock[current])}
<1>1. current \in Ids
  BY DEF TypeOK, Ids
<1> QED BY <1>1 DEF Event, UserSpeaks, UserStops, UserAway, TurnBegins, VoiceBegins, AgentIdle, Watch

LEMMA EventVoice ==
  ASSUME TypeOK, Voiced, Event
  PROVE  Voiced'
<1>. USE DEF agents, tasks
<1>c. current \in Ids /\ clock[current] \in Clocks
  BY DEF TypeOK, Ids
<1>1. clock[current].speaking => clock'[current].speaking
  BY <1>c, EventClock, BusyKept
<1>2. CASE UserSpeaks \/ UserStops \/ UserAway
  <2>1. /\ UNCHANGED <<busy, current, entry, idle>> /\ voice' \subseteq voice
        /\ turn' \in {turn, "owed"}
    BY <1>2 DEF UserSpeaks, UserStops, UserAway
  <2> QED BY <1>1, <2>1 DEF Voiced
<1>3. CASE TurnBegins \/ VoiceBegins
  <2>1. /\ UNCHANGED <<current, voice, entry>> /\ idle' = Pending /\ busy'
        /\ voice # {} => VoiceBegins
    BY <1>3 DEF TurnBegins, VoiceBegins
  <2>2. entry[current] = "due" \/ current \in voice => current \in Watched
    BY <1>c DEF TypeOK, Watched
  <2>3. current \in voice => clock'[current] = Busy(clock[current])
    BY <1>c, <2>1, <2>2 DEF VoiceBegins, Watch
  <2>4. current \in voice => clock'[current].speaking
    BY <1>c, <2>3, BusyKept
  <2> QED BY <2>1, <2>2, <2>4 DEF Voiced, Pending
<1>4. CASE AgentIdle
  BY <1>4 DEF AgentIdle, Voiced
<1> QED BY <1>2, <1>3, <1>4 DEF Event

LEMMA StepSession ==
  ASSUME NEW a \in Ids, Step(a)
  PROVE  UNCHANGED <<user, busy, turn>>
  BY DEF Step, IdleTask, Enter, Greeted, Probe, Waits, Prompts, Parts, Check, Prompted, Parted, sdk

LEMMA StepVoice ==
  ASSUME IInv, Voiced, Step(current)
  PROVE  Voiced'
<1>. USE DEF sdk, agents, tasks
<1>. TypeOK
  BY DEF IInv
<1>c. current \in Ids /\ clock[current] \in Clocks
  BY DEF TypeOK, Ids
<1>s. UNCHANGED <<busy, turn, current>>
  BY <1>c, StepSession, StepOwner
<1>1. CASE IdleTask(current)
  BY <1>1, <1>s DEF IdleTask, Voiced
<1>2. CASE Enter(current)
  <2>1. CASE clock'[current] = Busy(clock[current])
    BY <1>2, <1>c, <1>s, <2>1, BusyKept DEF Enter, Voiced, TypeOK
  <2>2. CASE UNCHANGED voice /\ entry' = [entry EXCEPT ![current] = "done"]
    BY <1>2, <1>c, <1>s, <2>2 DEF Enter, Voiced, TypeOK
  <2> QED BY <1>2, <1>c, <2>1, <2>2 DEF Enter, TypeOK
<1>3. CASE Greeted(current)
  BY <1>3, <1>c, <1>s DEF Greeted, Voiced, TypeOK
<1>4. CASE Probe(current)
  BY <1>4, <1>s DEF Probe, Voiced
<1>5. CASE Waits(current)
  <2>1. clock'[current] \in {Seen(current), [Seen(current) EXCEPT !.age = 0]}
    BY <1>5, <1>c DEF Waits, TypeOK
  <2>2. clock[current].speaking => clock'[current].speaking
    BY <1>c, <2>1, SeenIs, BusyKept
  <2> QED BY <1>5, <1>s, <2>2 DEF Waits, Check, Voiced
<1>6. CASE Prompts(current) \/ Parts(current)
  <2>1. ~busy /\ entry[current] # "due" /\ UNCHANGED entry
    BY <1>6 DEF Prompts, Parts, Check, IInv, StillQuiet
  <2> QED BY <1>s, <2>1 DEF Voiced
<1>7. CASE Prompted(current) \/ Parted(current)
  BY <1>7, <1>s DEF Prompted, Parted, EndCall, Voiced
<1> QED BY <1>1, <1>2, <1>3, <1>4, <1>5, <1>6, <1>7 DEF Step

LEMMA VoicedStep ==
  ASSUME IInv, Voiced, [Next]_vars
  PROVE  Voiced'
<1>. USE DEF sdk, agents, tasks
<1>. TypeOK
  BY DEF IInv
<1>c. current \in Ids /\ clock[current] \in Clocks
  BY DEF TypeOK, Ids
<1>1. CASE Event
  BY <1>1, EventVoice
<1>2. CASE ToAppeal \/ ToMain
  <2>1. /\ turn' = "handed" /\ busy' /\ current' = made + 1 /\ UNCHANGED <<voice, idle>>
    BY <1>2 DEF ToAppeal, ToMain, Swap
  <2>2. made + 1 \notin voice /\ made + 1 \notin idle
    BY DEF TypeOK, Ids
  <2> QED BY <2>1, <2>2 DEF Voiced
<1>3. CASE Tick
  <2>1. clock[current].speaking => clock'[current].speaking
    BY <1>3, <1>c, BusyKept DEF Tick
  <2> QED BY <1>3, <2>1 DEF Tick, Voiced
<1>4. ASSUME NEW a \in Ids, SpeechEnds(a) PROVE Voiced'
  BY <1>4 DEF SpeechEnds, Voiced
<1>5. ASSUME NEW a \in Ids, Step(a) PROVE Voiced'
  <2>1. CASE a = current
    BY <1>5, <2>1, StepVoice
  <2>2. CASE a # current
    BY <1>5, <1>c, <2>2, StepSession, StepOwner, StepClocks, StepSets DEF Voiced
  <2> QED BY <2>1, <2>2
<1>6. CASE UNCHANGED vars
  BY <1>6 DEF vars, Voiced
<1> QED BY <1>1, <1>2, <1>3, <1>4, <1>5, <1>6 DEF Next, Event, Over

LEMMA EventAsked ==
  ASSUME TypeOK, Untouched, Asked, Event
  PROVE  Asked'
<1>c. current \in Ids /\ clock[current] \in Clocks
  BY DEF TypeOK, Ids
<1>1. UNCHANGED <<current, wasActive, ended>> /\ ~ended /\ monitor' = Started(Watched)
  BY EventSteps DEF Event, UserSpeaks, UserStops, UserAway, TurnBegins, VoiceBegins, AgentIdle
<1>2. clock'[current] # clock[current] =>
        Excused(clock'[current], Prompt) /\ Excused(clock'[current], Goodbye)
  BY <1>c, EventClock, ExcusedBy, ClockTypes
<1>3. monitor[current] = "none" =>
        Excused(clock[current], Prompt) /\ Excused(clock[current], Goodbye)
  BY <1>c, <1>1, ExcusedBy DEF Untouched
<1>4. monitor'[current] = monitor[current] \/ monitor[current] = "none"
  BY <1>c, <1>1 DEF Started
<1>5. clock'[current].sent => warned'
  <2>1. CASE UserSpeaks
    <3>1. CASE current \in Watched
      <4>1. clock'[current] = Reset(Talking(clock[current], TRUE))
        BY <1>c, <2>1, <3>1 DEF UserSpeaks, Watch
      <4>2. Talking(clock[current], TRUE) \in Clocks
        BY <1>c, ClockTypes
      <4>3. ~clock'[current].sent
        BY <4>1, <4>2, SentBy
      <4> QED BY <4>3
    <3>2. CASE current \notin Watched
      <4>1. clock'[current] = NewClock
        BY <1>c, <3>2, EventSteps DEF Untouched, Watched
      <4> QED BY <4>1, <1>c, SentBy
    <3> QED BY <3>1, <3>2
  <2>2. CASE ~UserSpeaks
    <3>1. warned' = warned
      BY <2>2 DEF Event, UserStops, UserAway, TurnBegins, VoiceBegins, AgentIdle
    <3>2. /\ Talking(clock[current], TRUE) \in Clocks
          /\ Talking(clock[current], FALSE) \in Clocks
      BY <1>c, ClockTypes
    <3>3. /\ ~Reset(Talking(clock[current], TRUE)).sent
          /\ ~Reset(Talking(clock[current], FALSE)).sent
          /\ ~Answering(clock[current]).sent
          /\ Busy(clock[current]).sent => clock[current].sent
      BY <1>c, <3>2, SentBy
    <3>4. clock'[current].sent => clock[current].sent
      BY <3>3, EventClock
    <3> QED BY <3>1, <3>4 DEF Asked
  <2> QED BY <2>1, <2>2
<1> QED BY <1>1, <1>2, <1>3, <1>4, <1>5 DEF Asked

LEMMA VerdictNone ==
  ASSUME NEW c \in Clocks, Verdict(c) = "none"
  PROVE  Excused(c, Prompt)
  BY DEF Verdict, Excused, Clocks

LEMMA StepAsked ==
  ASSUME IInv, Untouched, Asked, Step(current)
  PROVE  Asked'
<1>. USE DEF sdk, agents, tasks
<1>. TypeOK
  BY DEF IInv
<1>c. current \in Ids /\ clock[current] \in Clocks
  BY DEF TypeOK, Ids
<1>s. current' = current
  BY <1>c, StepOwner
<1>1. CASE IdleTask(current) \/ Prompted(current) \/ Parted(current)
  <2>1. clock'[current] = Idle(clock[current]) /\ UNCHANGED <<warned, wasActive>>
    BY <1>1, <1>c DEF IdleTask, Prompted, Parted, TypeOK
  <2>2. \/ monitor'[current] \in {monitor[current], "none"}
        \/ monitor[current] = "prompting" /\ monitor'[current] = "asleep"
    BY <1>1, <1>c DEF IdleTask, Prompted, Parted, EndCall, At, TypeOK
  <2>3. clock'[current].sent => warned'
    BY <1>c, <2>1, SentBy DEF Asked
  <2>4. \A limit \in {Prompt, Goodbye} :
          Excused(clock[current], limit) => Excused(clock'[current], limit)
    BY <1>c, <2>1, ExcusedBy
  <2> QED BY <1>s, <2>1, <2>2, <2>3, <2>4 DEF Asked
<1>2. CASE Enter(current) \/ Greeted(current)
  <2>1. clock'[current] \in {Armed(clock[current]), Busy(clock[current])} /\ warned' = warned
    BY <1>2, <1>c DEF Enter, Greeted, TypeOK
  <2>2. clock'[current].sent => warned'
    BY <1>c, <2>1, SentBy DEF Asked
  <2>3. \A limit \in {Prompt, Goodbye} : Excused(clock'[current], limit)
    BY <1>c, <2>1, ExcusedBy
  <2> QED BY <1>s, <2>2, <2>3 DEF Asked
<1>3. CASE Probe(current)
  <2>1. /\ monitor[current] = "due" /\ UNCHANGED <<clock, warned>>
        /\ \/ monitor'[current] = "probed" /\ wasActive' = wasActive
           \/ monitor'[current] = "asleep" /\ current \in wasActive'
    BY <1>3, <1>c DEF Probe, At, TypeOK
  <2> QED BY <1>s, <2>1 DEF Asked
<1>4. Seen(current) \in Clocks /\ (Seen(current).sent => clock[current].sent)
  BY <1>c, SeenIs, SentBy DEF Seen
<1>5. CASE Waits(current)
  <2>1. PICK v \in {"none", "arm"} :
          /\ Check(current, v)
          /\ clock' = [clock EXCEPT ![current] = IF v = "arm" THEN [Seen(current) EXCEPT !.age = 0]
                                                              ELSE Seen(current)]
    BY <1>5 DEF Waits
  <2>2. monitor'[current] = "asleep" /\ warned' = warned
    BY <1>5, <1>c DEF Waits, At, TypeOK
  <2>3. CASE v = "arm"
    <3>1. clock'[current] = [Seen(current) EXCEPT !.age = 0]
      BY <1>c, <2>1, <2>3 DEF TypeOK
    <3> QED BY <1>s, <1>4, <2>2, <3>1, ExcusedBy, SentBy DEF Asked
  <2>4. CASE v = "none"
    <3>1. clock'[current] = Seen(current)
      BY <1>c, <2>1, <2>4 DEF TypeOK
    <3>2. CASE WindowOpen(Seen(current))
      <4>1. Excused(Seen(current), Prompt)
        BY <1>4, <2>1, <2>4, <3>2, VerdictNone DEF Check
      <4> QED BY <1>s, <1>4, <2>2, <3>1, <4>1 DEF Asked
    <3>3. CASE ~WindowOpen(Seen(current))
      BY <1>s, <1>4, <2>2, <3>1, <3>3 DEF Asked, Excused
    <3> QED BY <3>2, <3>3
  <2> QED BY <2>3, <2>4
<1>6. CASE Prompts(current)
  <2>. DEFINE asked == [Seen(current) EXCEPT !.sent = TRUE]
  <2>1. asked \in Clocks /\ Busy(asked) \in Clocks
    BY <1>c, SeenIs, ClockTypes
  <2>2. clock'[current] \in {Busy(asked), Idle(Busy(asked))} /\ warned'
    BY <1>6, <1>c DEF Prompts, TypeOK
  <2>3. monitor'[current] \in {"prompting", "asleep"}
    BY <1>6, <1>c DEF Prompts, At, TypeOK
  <2>. HIDE DEF asked
  <2>4. Excused(Busy(asked), Prompt) /\ Excused(Idle(Busy(asked)), Prompt)
    BY <2>1, ExcusedBy
  <2> QED BY <1>s, <2>2, <2>3, <2>4 DEF Asked
<1>7. CASE Parts(current)
  <2>1. clock'[current] \in {Busy(Seen(current)), Idle(Busy(Seen(current)))} /\ warned' = warned
    BY <1>7, <1>c DEF Parts, TypeOK
  <2>2. monitor'[current] \in {"parting", "none"}
    BY <1>7, <1>c DEF Parts, EndCall, At, TypeOK
  <2>3. Busy(Seen(current)) \in Clocks
    BY <1>4, ClockTypes
  <2>4. clock'[current].sent => warned'
    BY <1>4, <2>1, <2>3, SentBy DEF Asked
  <2> QED BY <1>s, <2>2, <2>4 DEF Asked
<1> QED BY <1>1, <1>2, <1>3, <1>5, <1>6, <1>7 DEF Step

LEMMA AskedStep ==
  ASSUME IInv, Untouched, Voiced, Asked, [Next]_vars
  PROVE  Asked'
<1>. USE DEF sdk, agents, tasks
<1>. TypeOK
  BY DEF IInv
<1>c. current \in Ids /\ clock[current] \in Clocks
  BY DEF TypeOK, Ids
<1>1. CASE Event
  BY <1>1, EventAsked
<1>2. CASE ToAppeal \/ ToMain
  <2>1. /\ current' = made + 1 /\ made + 1 \in Ids /\ made + 1 > made
        /\ UNCHANGED <<clock, monitor>>
    BY <1>2 DEF ToAppeal, ToMain, Swap, TypeOK, Ids
  <2>2. clock[made + 1] = NewClock /\ monitor[made + 1] = "none"
    BY <2>1 DEF Untouched, TypeOK
  <2> QED BY <1>c, <2>1, <2>2, SentBy DEF Asked
<1>3. CASE Tick
  <2>1. clock'[current] = Older(clock[current]) /\ UNCHANGED <<current, wasActive, warned>>
    BY <1>3, <1>c DEF Tick
  <2>2. clock'[current].sent => warned'
    BY <1>c, <2>1, SentBy DEF Asked
  <2>3. CASE monitor[current] = "prompting"
    <3>1. current \in voice
      BY <1>3, <1>c, <2>3 DEF Tick, Settled, Ready
    <3>2. busy
      BY <1>3, <3>1 DEF Tick, Settled, Voiced, TypeOK
    <3>3. clock'[current].speaking
      BY <1>c, <2>1, <3>1, <3>2, BusyKept DEF Voiced
    <3>4. monitor'[current] = "prompting"
      BY <1>3, <1>c, <2>3 DEF Tick
    <3> QED BY <2>1, <2>2, <3>3, <3>4 DEF Asked, Excused, WindowOpen
  <2>4. CASE monitor[current] # "prompting"
    <3>1. monitor[current] \notin {"due", "probed"}
      BY <1>3, <1>c DEF Tick, Settled, Ready
    <3>2. \/ monitor[current] = "asleep" /\ monitor'[current] = "due"
          \/ monitor'[current] \notin {"asleep", "due", "probed", "prompting"}
      BY <1>3, <1>c, <2>4, <3>1 DEF Tick, TypeOK
    <3> QED BY <1>c, <2>1, <2>2, <3>2, ExcusedBy DEF Asked
  <2> QED BY <2>3, <2>4
<1>4. ASSUME NEW a \in Ids, SpeechEnds(a) PROVE Asked'
  BY <1>4 DEF SpeechEnds, Asked
<1>5. ASSUME NEW a \in Ids, Step(a) PROVE Asked'
  <2>1. CASE a = current
    BY <1>5, <2>1, StepAsked
  <2>2. CASE a # current
    <3>1. warned => warned'
      BY <1>5 DEF Step, IdleTask, Enter, Greeted, Probe, Waits, Prompts, Parts, Check, Prompted, Parted
    <3> QED BY <1>5, <1>c, <2>2, <3>1, StepOwner, StepClocks, StepSets DEF Asked
  <2> QED BY <2>1, <2>2
<1>6. CASE UNCHANGED vars
  BY <1>6 DEF vars, Asked
<1> QED BY <1>1, <1>2, <1>3, <1>4, <1>5, <1>6 DEF Next, Event, Over

(* No caller is hung up on whom no agent asked, or tried to ask, since     *)
(* they last spoke: a window cannot run from before the prompt past the    *)
(* goodbye between two checks, whatever opened and closed it meanwhile.    *)
THEOREM AskedBeforeParting == Spec => PromptBeforeGoodbye
<1>. DEFINE Inv == IInv /\ Untouched /\ Voiced /\ Asked
<1>1. Init => Inv
  <2>. SUFFICES ASSUME Init PROVE Inv
    OBVIOUS
  <2>1. IInv /\ clock[current] = NewClock /\ monitor[current] = "none" /\ entry[current] = "due"
    BY TypeInit DEF Init, IInv, LeftAlone, StillQuiet, TypeOK, Ids
  <2>2. ~NewClock.sent
    BY DEF NewClock, Clock
  <2> QED BY <2>1, <2>2 DEF Init, Untouched, Voiced, Asked
<1>2. Inv /\ [Next]_vars => Inv'
  BY TypeStep, LeftStep, QuietStep, UntouchedStep, VoicedStep, AskedStep DEF IInv
<1>3. ASSUME Inv, NEW a \in Ids, Parts(a) PROVE warned
  <2>1. a = current /\ monitor[a] = "probed" /\ clock[a] \in Clocks
    BY <1>3, SpeakerIsCurrent DEF IInv, Parts, Check, TypeOK
  <2>2. WindowOpen(Seen(a)) /\ Verdict(Seen(a)) = "goodbye"
    BY <1>3 DEF Parts, Check
  <2>3. Seen(a).age >= Goodbye
    BY <2>2 DEF Verdict
  <2>4. Seen(a) = clock[a] /\ a \notin wasActive
    BY <2>3, <2>1 DEF Seen, Reset, Clock
  <2> QED BY <1>3, <2>1, <2>2, <2>3, <2>4 DEF Asked, Excused
<1>4. Inv => \A a \in Ids : Parts(a) => warned
  BY <1>3
<1>. HIDE DEF Inv
<1> QED BY <1>1, <1>2, <1>4, PTL DEF Spec, PromptBeforeGoodbye
=============================================================================
