# RelayDesk / voice-agent verification

TLA+ models of the voice agent in this repository, TLC configurations that check
them on small instances, and TLAPS proofs of what matters most. Everything is
translated from the Python under `src/`; line numbers are in `PROJECT.json`
(`map`). Paths below are relative to the Python package `src/src/` unless they
start with `docs/`, `scripts/` or `tests/`.

The repository holds two systems that share one configuration registry:

* the **LiveKit agent** (`main.py`, `agents/`, `tools/`, `lifecycle/`,
  `pipeline/`, `api/`): one job per phone call, a chain of agent objects driven
  by an LLM, a platform that keeps the call's record and queues it for a human
  operator;
* the **RelayDesk bridge** (`assemblyai_voice/`, `relaydesk/`): a worker that
  connects a LiveKit room with the AssemblyAI Voice Agent, executes the model's
  tool calls against a business database, and a dashboard that starts
  evaluations of it.

## 1. Inventory

| Component | State it keeps | Operations | Talks to | What is hard |
|---|---|---|---|---|
| Business store `relaydesk/store.py`, `postgres_store.py` | tables charges, memberships, action_keys | refund_duplicate, restore_access, reads, seed at start | dispatcher, evaluation script, other processes on the same database | read-then-write in several processes, lost commit answers, resets between runs |
| Tool dispatcher `assemblyai_voice/tools.py`, specialists `relaydesk/orchestration.py` | the case being worked on (table cases) | eight tools, allow-list check, evidence log | model (tool calls), store | owner checked in one transaction and used in another, mutation done but evidence not |
| Voice bridge `assemblyai_voice/bridge.py` | pending tool results, ready event, the one active task | receive and forward loops | AssemblyAI socket, LiveKit room, dispatcher | interruption against tool results, end of the socket |
| Evaluation `relaydesk/dashboard.py`, `scripts/run_voice_evaluation.py` | one run at a time; the events of a room | start, run, time out, judge | runner script, bridge, store | a timeout leaves children behind, events judged while they are written |
| Operator handoff `agents/tenant_agent.py` | transferred, handoff_completed, poll tasks, monitor | forward (web, SIP), poll, wait for operator, end call, transcript sync | platform, room, shutdown | polls against queue, several tasks that may end the call, late requests |
| Agent chain `agents/sub_agents/`, `agents/factory.py`, `select_language`, `collect_csat`, `end_call` | current agent, flags on each agent object | hand to appeal and back, language switch, submit an appeal | session, platform, shutdown | state copied by hand from agent to agent |
| Transfer guardian `tools/platform/escalate.py`, `transfer_guardian.py` | proposed reason, count of requests, metadata | request, confirm | agent chain, operator handoff | two-step protocol across agents, loop break, out-of-hours gate |
| Transcript, context window, flows `lifecycle/session_events.py`, `context/`, `flows/` | history lists, recent turns and a summary, the active flow | commit a turn, sync, compress, start a flow | agents, platform | one turn written by two handlers, lists shared or copied at a swap |
| Shutdown and call record `lifecycle/shutdown.py`, `call_tracker.py` | the final record | final PATCH | platform, the first agent | reads an agent that may not be the last, and runs beside tasks |
| Silence monitor `resilience/`, session events | per-agent clock, monitor task, idle task | prompt, goodbye, hang up | session, agent | event handlers, two kinds of tasks and a sampled clock |
| Streaming speech `navai_ws_stt.py`, `navai_ws_tts.py` | one socket per utterance | begin, frames, end, receive, abort | session, speech server | which error emits which event; retry after audio was heard |
| Request/response speech (Yandex, NavAI, custom), greeting override `gemini_live_stt.py` | pieces of a text, attempts at a greeting | split, fetch, recognize, fall back | session, vendors | order of pieces, which recognizer still has to be asked |
| Configuration `config/loader.py`, `registry.py`, `routing.py` | tenants by slug and phone, experiments, platform cache | load, resolve, reload | files, platform, entrypoint | rollback of a reload, stale cache, colliding numbers |
| Entrypoint `main.py`, `utils/phone.py`, `utils/monitor_probe.py` | the call | start-up of one call | all of the above | partial failure on the way, a record without an end |
| Platform client `api/platform_client.py` | none | one request each, with retries | platform | lost answers of requests that are not idempotent |
| Agent monitor `scripts/agent_monitor.py` | a state file | probe, classify, notify, save | the agent, LiveKit, Telegram | told but not saved, saved but not told |
| Semantic memory `relaydesk/semantic_memory.py` | one embedding per case | index, search | store, embedder | a slow embedding overwrites a newer one |
| Observability | counters and timelines | record, snapshot to a file | health server | several processes write one file |
| Retrieval, plugins, registry, utilities, scripts, data | none to speak of | - | vendors | wire formats |

What makes the modelled ones correct, in words:

* **Store**: a purchase is refunded at most once and only when it was charged
  twice; the original charge survives; a repeated request returns a first result
  that is still true.
* **Dispatcher**: no tool runs on a case whose specialist may not use it; what a
  case says was done was done; facts and evidence of a case are lost only where
  two processes write it.
* **Bridge and evaluation**: every tool result reaches the session once, in
  order, unless the caller interrupted its reply; a passed evaluation was earned,
  as far as the rows it read go; evaluations do not overlap, and end unless a bridge
  that never ends holds the controller up (on Windows).
* **Handoff**: somebody is with the caller while the call lasts; the AI leaves
  once the operator is there; polls stop; the record of an accepted transfer never
  says completed, and says transferred if the final PATCH is applied last.
* **Agents and guardian**: one appeal per call, unless the call loses sight of
  one it has filed; a confirm belongs to an unspent prompt; no agent holds a
  caller back for more than the threshold of requests; a record that says
  transferred says why.
* **Conversation**: the final transcript tells the call, or, of a call handed over,
  the last sync tells all but its latest turns; a sync tells every turn the caller
  gave a main agent; between the parts of the window nothing falls but short turns.
* **Silence monitor**: it speaks only into silence, for the agent in charge
  alone, asks (or tries to) before it gives up, and does give up on a caller who
  stays silent.
* **Speech**: one transcript per utterance and of that utterance, none missing
  without its reason; the caller hears one reading of a reply; nothing hangs.
* **Configuration and entrypoint**: a number reaches who claims it or nobody; the
  cache hands out nothing older than its time; the record says what runs and is
  closed unless something named was lost.
* **Monitor**: a lasting outage is reported, a recovery is told, and a failure is
  blamed on the stage it struck.

The hazards of all components, each at its line, with the properties that cover
them, are the list `hazards` in `PROJECT.json`.

## 2. Modules

```
RefundLedger  <== implements ==  RelayDeskStore  <-- ToolDispatcher  <-- ToolDispatcherProofs
                             (MCRelayDeskStore, MCToolDispatcher: instances for TLC)

VoiceBridge  <-- VoiceEvaluation  <-- VoiceEvaluationProofs  (the bridges, the controller and its script)
AgentMonitor <-----------------------/

ConfigLoader <-- CallEntry <-- MCCallEntry, CallEntryProofs  (the entrypoints on the loader of their process)
Conversation <-- MCConversation, ConversationProofs

CallerAttendance  <== implements ==  OperatorHandoff   <- OperatorHandoffProofs
                                     AgentHandoffs     <- AgentHandoffsProofs
                                     SilenceMonitor    <- SilenceMonitorProofs

SpeechStream, ChunkedStream, Recognizer, PieceStream  <-- SpeechProviders <-- SpeechProvidersProofs
```

An arrow is EXTENDS. A module that another one extends names its parts so that both
sets can be told apart: `StoreInit`, `StoreNext`, `StoreSpec` of `RelayDeskStore`,
`BridgeInit` of `VoiceBridge`, `MonitorSpec` of `AgentMonitor`.

A call of the LiveKit agent is looked at from several sides. Where they meet, one
module keeps the detail and the others its interface: `CallEntry` has the call
until it is live and again when its record is closed; `Conversation` has what is
said and kept; `OperatorHandoff` has the races of one agent's forward with its
polls and knows the silence monitor as a task that is on, off or saying goodbye,
and syncs as requests that land some time; `AgentHandoffs` has the chain of
agents and takes a forward as one step; `SilenceMonitor` has the clocks, tasks and
events over the same chain, and ends when it hangs up; `SpeechProviders` is below
all of them.

### RelayDeskStore, RefundLedger

`RelayDeskStore` models the tables as functions (`None`: no row) and each process
that has opened the database as a worker with a program counter. A call is split
where another process can get in between: the read of `action_keys`, the read of
the charges, and the part from the first UPDATE to COMMIT, which holds the write
lock of SQLite or the row lock of PostgreSQL and publishes nothing earlier. A
commit may succeed and its acknowledgement be lost. `Start` is `_initialize`
with its seed, `Crash` loses the process and its transaction. Threads of one
process are serialised by the store's `RLock`, so a worker is a process.
`ResetBilling` and `ResetAccess` are the fixture reset of
`scripts/run_voice_evaluation.py`; `Capture` and `Enrol` stand for the systems
that own those tables.

`RefundLedger` says the promise without keys or processes: settling a purchase
flips one of at least two captured charges, once. The refinement mapping reads
captured, refunded and settled off the tables.

### ToolDispatcher

Extends the store and adds the table `cases` and one tool call per worker:
`ToolCall`, the allow-list `Check`, the handler (a read, `CreateCase`,
`RouteRead`/`RouteWrite`, or a store call taken step by step), then
`RecordRead`/`RecordWrite` of `record_case_event`, and `Raise` wherever a store
access may raise. What a case tool commits is not always answered: the commit's
acknowledgement may be lost, or the `get_case` that follows it may raise
(`Acknowledge`), and then an error is answered for what was done. What the model asks for is unconstrained. `owners`, `mutated`
and `raced` are history variables; `raced` holds the cases on which a write of a
row has landed that was read before somebody else's write. Payloads are reduced
to what the case keeps: which action, a replay or not, ok or not.

### VoiceBridge, VoiceEvaluation

`VoiceBridge` is a process per room with its one session. The events of the
session are actions; a tool call runs, is put on the pending list and stores its
event in one action, because the receive loop does not await in between, except
that storing may raise and end the session. `reply.done` swaps the list for an
empty one and sends it item by item, and any send may fail. Results are positions
in the list of calls, so order and repetition can be told. SIGTERM ends a process
with what it remembered.

`VoiceEvaluation` adds the controller of the dashboard and one script per
evaluation: reset, start the bridge, play a caller, terminate it, wait ten
seconds, judge. The verdict is read off the newest rows of all rooms
(`list_runtime_events`, 300 of them: `Newest`), of which the script keeps its
room's; rows come from the bridges and from elsewhere (`OtherRow`), and the history
variable `pushedOut` has the rooms whose forbidden call is no longer among the
newest. Rows are ordered by when they were stored, which stands for `created_at`.
The controller's timeout kills the script alone; its bridge lives on while the next
evaluation is admitted, and may still call tools and store events. That bridge
inherited the pipe the controller reads. On POSIX `subprocess.run` gives up after
the kill; on Windows it reads the pipe to its end first, without a limit
(`overdue`, `PipeHeld`, `GiveUp`). A tool is one the scenario requires or one it
forbids; ToolDispatcher has what tools do.

### OperatorHandoff, CallerAttendance

One call from the first forward to the final PATCH: `do_forward_to_operator` in
web and in SIP mode, its polls, `_wait_for_operator_in_room`, the SIP transfer
task and its record, the silence goodbye, the end-call task, the transcript syncs
and `on_shutdown`. Everything runs on one asyncio loop, so an action is the code
from one await to the next; a request to the platform is two actions, what the
platform does and what the agent makes of the answer. The queue, the operator and
the caller are external. The final PATCH may not be applied: `update_call` answers
False or raises and `on_shutdown` swallows it, or the platform never registered the
call (`known` is FALSE, no `call_db_id`) and nothing is sent at all. Leaving the
room after a completed handover may raise and be swallowed too: then the AI stays
beside the operator. Three history variables keep the failures the code takes no
care of apart from what it promises: `stuck` (the room could not be deleted), `late`
(a PATCH sent before the final one landed after it) and `filed` (the final one was
applied).
`CallerAttendance` is the promise without tasks: the AI leaves an open room only
to an operator in it; a stuck room counts as over.

### AgentHandoffs

The objects a call goes through, numbered in the order they are created, with
the flags that live on them as sets of agents. One action is one tool call up to
its return (`transfer_to_appeal`, `cancel_and_return`, `confirm_and_submit`,
`request_escalation`, `confirm_escalation`, `select_language`, `collect_csat`,
`end_call`), and the shutdown callback, which reads agent 1. The submission of an
appeal awaits the platform and is two actions. A forward to the operator is
atomic here: its inner races are OperatorHandoff's. `Threshold` is the code's
`_LOOP_BREAK_THRESHOLD`, 2: the second request goes through unconfirmed. Several
comments speak of three strikes; that is a finding. `slips` counts how often the
call lost sight of an appeal on file: a lost answer, an answer without an id, a
language switch.

### Conversation

A turn of the caller is two steps: the callback of the current agent, which
writes it to that agent's list, its window and, every so many turns, to the
platform; and the commit, whose handler writes it to the first agent's list
unless that list ends with it already. Replies are committed at any time, also
between the two. Lists are objects (`lists`), so that a language switch shares one
and a return from a sub-agent copies one. `Compress` and `AddTurn` are the context
window. A window is the numbers of its recent turns and the set of the turns its
summary quotes: of the turns a compression lets go, the latest `Questions` that are
not `Short` (10 characters or fewer); how a quote is cut and worded is left out. A
flow is what decides whether the question about the last call is put to the LLM.
`HandOver` is the first agent's handover to an operator: `End` then closes the call
without a transcript, as `on_shutdown` does for `handoff_completed`. A handover by a
later agent sets a flag that shutdown does not read. The history variables `said` and `told` keep what was committed and what
the callbacks of main agents were given. A sync's request is a snapshot taken in the turn's step; the order in
which requests land is OperatorHandoff's matter, and a swap of agents is atomic.

### SilenceMonitor

Each main agent has a clock (`ErrorState`: how long ago the baseline was, prompt
sent, agent speaking, user speaking), a monitor task, an idle task and an
`on_enter`; an appeal agent has none of them. The session's two state handlers
act on the clock of `session.current_agent`, and start a monitor if it has none;
the older agents' clocks and tasks live on. The monitor's loop is the steps
`Tick` (the sleep), `Probe` (`wait_for_inactive`), the check with one of three
outcomes (`Waits`, `Prompts`, `Parts`), and the end of the playout (`Prompted`,
`Parted`). `session.say` may raise: nothing is heard, the `finally` clears the busy
mark, and the loop goes on as if it had been said: a prompt counts as sent, and
after a goodbye the call is ended; the second `is_silence_window_open` follows the first without an await
and is one with it. Ages are counted in intervals of the monitor: absolute times
do not matter, only which threshold a clock has passed.

The timing assumption is `Settled`: time passes, turns begin and agents are
swapped only when no task is ready to run and the agent state says what is being
said. An interval is 2 s; the loop takes milliseconds, and an LLM turn takes
longer than a task that only has to be scheduled. Without it a model could
let half a minute go by between two lines of a handler.

### SpeechStream, ChunkedStream, Recognizer, PieceStream, SpeechProviders

`SpeechStream` is the recognizer over a WebSocket: the detector's queue, the task
that owns the socket and stands at one of its awaits, and a receive loop per
segment with its server. What is emitted is kept per segment; the fields
`_final_emitted` and `_last_interim` belong to the stream, as in the code.
`ChunkedStream` is synthesis with the retry rule: an attempt that raises is run
again by the SDK into the same channel. `Recognizer` is recognition by request
with the greeting override before it. `PieceStream` holds the two splitters as
a walk over the words of a text, each with a length and an ending: `Step` takes a
word into the part being read and, where the sentence or phrase completes, the
part into the piece being filled; a phrase too long for a piece fills pieces of
its own meanwhile. The stream asks for one piece after another. `SpeechProviders` composes them as `VoiceFactory` does, one
recognizer and one synthesizer per call, with barge-in between the two; streaming
kinds are explored together and request kinds together, since they share no state.

### ConfigLoader, CallEntry

`ConfigLoader` has the registry of a process, computed from a directory as
`_load_all_configs` does: single tenants, cohorts, what claims a phone last. A file
is named by its place in the directory. The code indexes the slugs of cohorts in
the order it meets their phones, a set; so a slug two cohorts share, and the
default where there are cohorts only, are left open. It has the
reload with its rollback, the cache of platform answers, and one lookup per call,
split at the await of the platform. `CallEntry` is `entrypoint` from the job to
the connected session and on to the final update: routing policy, history,
warm-up, the call record, building, start, and what raises or gets lost at each.
`RecordTellsRun` and the routing property relate what the platform is told with
what runs. Calls outside `Entrypoints` only look up: they are there to overlap on
the cache. `Restart` loses the process with everything in it.

### AgentMonitor

`run_once` from the state file to the state file: the stages of the probe in
their order, `classify_failure` as its ordered list of branches over what a
message contains (also where its wording alone decides: "did not join", "did not
respond"; the history variable `claims` has what it said), the notification rule in each mode, the send and the two steps
of saving. `Cut` ends a run anywhere. Two history variables say what the team was
last told and whether that reached the file.

## 3. What the runs show

Runs expected to pass:

| Run | Question | Bounds and why they are enough |
|---|---|---|
| `store_safety` | refunds and restores of two processes with crashes, lost answers, resets, new rows: the store properties and the refinement of RefundLedger | 2 workers, 2 operations with 2 and 3 charges, 2 projects: every conflict is between two processes on one key, and three charges let a second refund be possible at all |
| `dispatcher` | two bridge processes on one case: boundaries of the specialists, evidence; what is lost is lost to a race of two processes | 4 calls: create, route, a guarded tool and one that races with it; 2 facts, 1 case |
| `handoff` | two accepted forwards, in web or SIP mode, with polls, silence, end of call and shutdown in any order, and a final PATCH that may not be applied; polls stop, and a settled operator takes over | 2 polls, 2 attempts, 3 looks with 2 needed: an operator may come, go and come back within a wait; 1 transcript sync |
| `agents` | the chain, the guardian, appeals and the record, multilingual, with lost answers | 4 agents (main, appeal, main, and one more), threshold 2 as in the code, 2 submissions; a second appeal after a language switch takes a fifth agent and is left to the theorem |
| `conversation` | turns, replies, switches, sub-agents and a handover in every order: the transcript, the syncs and the window | 4 items of two texts, one of them short, 4 agents, a sync every 2 turns, a window of 1 with slack 1 and 1 quote: the third turn compresses it, with none, one or two turns worth a quote. States that differ only in the flow and the injection flag of agents that were left, or in the count of questions asked, which no step and no property of this run reads, are one (`VIEW`) |
| `silence` | who speaks into silence, and that a silent caller is let go | 3 agents: a current one and two left behind, or an appeal agent between two main ones; prompt after 1 interval, goodbye after 2; either may fail to be said |
| `speech` | every kind of provider under failures, timeouts, barge-in and tear-down | 2 segments: what outlives the first meets the second; 3 queued events; 1 retry of 1 chunk; 2 turns, 2 tries at the greeting; all texts of up to 3 words of two lengths, of which pieces of 5 hold one long word or two short ones |
| `evaluation` | two evaluations and their bridges, one of which may outlive its killed script | 2 rooms, 2 tool calls: two results can be pending in one reply, or one in each room; the 2 newest rows, so that the third pushes one out; POSIX and Windows |
| `monitor` | run after run of the monitor in each mode, cut short anywhere | none: the state is finite |
| `call_start` | calls of a process from job to closed record beside the lookups of another, over five directories | 1 followed call after another and 1 that only looks up; one phone in two spellings; cache time 1, one configuration per phone that comes and goes; a tenant, none, an experiment, a cohort that does not validate and a collision; one language (several are left to the theorem) |

`call_start` explores single-tenant deployments, strict or not: others look for
the number in fewer places and never fall back. Its requests take no time
(`Flight = 0`), though answers of overlapping ones may arrive in either order; a
later answer is what makes a cache entry.

The constants of the code that are shrunk: 60 poll attempts (2 in the runs), 30
looks per wait and 3 in a row (3 and 2), 300 newest rows (2), a silence prompt after
15 s and a goodbye after 30 s at an interval of 2 s (1 and 2 intervals: what
matters is that a clock can be below, between and above the two), a sync every 5
turns (2), a window of 5 with slack 2 and 3 quotes (1, 1 and 1). The proofs hold for
every value of those of their modules.

Runs expected to find a violation; each is a finding in `PROJECT.json` with the
sentence of the repository it contradicts:

| Run | What happens |
|---|---|
| `operator_cut` | a forward is accepted and stops the monitor; the next session event starts one again; it says goodbye to a caller who waits in silence; the operator joins while it speaks, and is cut off when it hangs up |
| `history_twice` | a language switch makes the model ask about the previous call again |

Other claims of the repository that the code refutes are stated as formulas in
the modules and can be checked by adding them to the module's configuration (the
findings without a run quote the sentences):

| Formula | Add to | What TLC finds |
|---|---|---|
| `FactsNeverLost` (PROPERTY) | `dispatcher` | two processes route a case: the later UPDATE erases a confirmed fact |
| `ErrorMeansUnchanged` (INVARIANT) | `dispatcher`, with `Workers = {w1}` | a refund is committed and answered "failed safely" because its evidence could not be recorded |
| `AtMostOneAppeal` (INVARIANT) | `agents`, with `Outcomes = {"filed"}` | a language switch after the appeal was filed makes an agent that does not know of it, and a second one is filed |
| `FinalTellsTheCall` (INVARIANT) | `agents`, with `AppealConfigured = FALSE`, `MaxAgents = 2` | shutdown reads the first agent: a handover or a rating on a later one is not in the record |
| `EndCallHangsUp` (INVARIANT) | `agents` | end_call from the appeal agent hangs nothing up |
| `PassVerifiesState` (INVARIANT) | `evaluation` | an evaluation passes although its refund was refused |

Other findings need no formula. Among them the loop break of the transfer
guardian: the code breaks at the second request (`transfer_guardian.py:44`), and
`docs/ARCHITECTURE.md:143` and the test of it agree, while `escalate.py`,
`factory.py`, `base_sub_agent.py` and the head of the same test file say three.
`LoopBreakInTime` is about the threshold the code has, and proved for any.

Every property of a passing run has a mutant: a plausible slip in a mapped
definition (named `<definition>_<slip>` beside it) under which TLC finds the
property violated.

### Limits of the code the models make visible

These are not findings, as no document promises more, or a property already says
exactly how far the promise goes.

RelayDesk:

* a refund may be asked for without an inspection, and on a case without a
  customer: both rules are prompt text, no guard (`tools.py:119`);
* a restore of a membership that does not exist stores its failure under the key;
  the same key then answers with that failure also when the membership exists by
  then (`store.py:191`);
* an interrupted reply throws away results of tools that have run
  (`bridge.py:129`), and a bridge has one session: after its socket closed nobody
  in the room is served again (`bridge.py:179`);
* a case tool that has committed answers an error when the read after the commit
  raises or the acknowledgement is lost (`store.py:201`, `218`, `257`);
* the verdict of an evaluation sees the newest 300 rows of all rooms
  (`run_voice_evaluation.py:117`): a forbidden call that others have pushed out is
  not held against it, which `PassIsEarned` excuses as `pushedOut`;
* on Windows the controller stays "running" after its timeout for as long as the
  bridge the killed script left behind lives (`dashboard.py:84-92`);
  `ControllerFrees` excuses exactly this.

Handoff and agents:

* a room that cannot be deleted leaves the caller alone in it (`stuck`), and a
  PATCH on its way when the final one is sent may reopen the record (`late`);
* a final PATCH that fails is logged and forgotten (`shutdown.py:263`,
  `platform_client.py:303`): the record keeps what it said before, in_progress as
  a rule (`filed`);
* when `transferred` passes between two status polls the operator is never looked
  for, and the AI stays in the call;
* in SIP mode the transfer counts as offered when its task is started: a call
  whose REFER failed is recorded as transferred all the same (`tenant_agent.py:671`);
* lost answers and retries of an appeal file another one (`slips`); every agent
  counts requests from zero, so a caller who is handed on starts again;
* metadata is buffered before anything was transferred;
* while the appeal agent is in charge there is no silence monitor: a silent caller
  is not hung up on (`SilentCallerEnds` speaks of main agents for this reason);
* a goodbye the caller answers still hangs up (`Parted`);
* a prompt whose `session.say` raises counts as sent: the next thing a silent
  caller may hear is the goodbye, and if that raises too, nothing
  (`silence_monitor.py:150`). `PromptBeforeGoodbye` therefore speaks of prompts
  that were tried.

Conversation:

* after a return from a sub-agent, syncs lack the agent's replies from then on,
  which go to the first agent's list, and the turns of a second appeal;
* the final PATCH names the language of the first agent;
* a call handed over keeps the transcript of its last sync: up to four turns of the
  caller for each agent are in no record (`shutdown.py:229-246`);
* turns of 10 characters or fewer are in no summary (`window.py:115`), and when all
  the turns let go are such, the summary is empty;
* an unknown flow ends the flow that runs (`start_flow.py:37`).

Speech:

* a phrase too long for a piece is spoken before the shorter phrase it follows
  (`yandex_tts.py:124-157`; `Overtaken` is exactly that case);
* a send that fails aborts the segment without a final transcript
  (`navai_ws_stt.py:436`), where a receive that fails still yields one (463-464);
* Gemini Live's turn has no timeout: nothing is promised of it in `SpeechSettles`.

Configuration, entrypoint and monitor:

* of two cohorts that claim one phone the last one wins, though
  `_group_experiments` speaks of no phone collisions (`loader.py:197`); only a
  collision with a single tenant is refused;
* the platform is asked for a configuration with the legacy key only: without it
  a number no file claims is nobody's (`hasKey`);
* after the platform answers 404 the expired cache entry stays, and a later outage
  brings it back (`FetchFails` is outside `FreshConfig` for this reason);
* a reload drops a tenant whose file no longer parses; nothing in `src/` calls
  `reload()`. The cache is shared as far as calls share a process: LiveKit runs
  jobs in processes of their own by default;
* a call to a SIP URI is routed by the number in it, and recorded under
  "unknown";
* building that raises before the shutdown callback is registered leaves the
  record open (`registered` in `RecordAccounted`);
* a failure whose message says "did not respond" is put down to an agent that did
  not respond, although it may never have joined (`agent_monitor.py:266`);
* a greeting that comes late counts as the agent's answer to the probe; and
  `utils/monitor_probe.py` looks for rooms with the prefix `navai-monitor-`, while
  the script names its rooms `voice-agent-monitor-`.

## 4. Fairness

Safety runs use none.

* `OperatorHandoff!FairSpec`: weak fairness of the steps of each poll and transfer,
  which wait for sleeps and for requests with a timeout, and then the loop runs
  them. Nothing is assumed of the other tasks, of the caller, the operator or the
  platform's queue.
* `SilenceMonitor!FairSpec`: ready tasks run, time passes (`Tick`), what is being
  said comes to its end, and so does a turn of the agent. Nothing is assumed of the
  caller, who may speak, stop or be called away for ever, nor of the start of a
  turn.
* `SpeechProviders`: every wait of the code for a server has a timeout, so the
  recognizer's task, an attempt at synthesis, a request and the reading of pieces
  go on (weak fairness); the detector hears the end of what it heard begin, though
  its queue may be full now and then (strong fairness). Nothing is assumed of the
  receive loops, of the server, and of Gemini Live.
* `CallEntry`: weak fairness of a call's steps and of its request to the platform,
  which has a timeout. Nothing is assumed of the end of a call.
* `VoiceEvaluation`: weak fairness of the controller's own wait, which ends with the
  script and its pipe or by itself after 120 s, and of what follows once
  `subprocess.run` may raise. Nothing is assumed of the script, the bridge or the
  voice session: a bridge that never ends may hold a Windows controller for ever.
* `AgentMonitor`: the loop goes on and every wait of a probe has a timeout (weak
  fairness); a message that is sent again and again gets through (strong fairness
  of `Tell`). `OutageReported` claims nothing of an agent that comes and goes, nor
  of runs that are cut short for ever.

## 5. What is proved

All proofs are checked by TLAPS without further assumptions than the named
ASSUMEs of the modules.

* `ToolDispatcherProofs` - first the store alone, for any workers, operations,
  charges and projects: `StoreTypeOK`, `RefundMatchesKey`, `OriginalChargeKept`,
  `RestoreReplayIsTrue`, `RefundUndoneOnlyWithKey` and `ImplementsLedger`. Types
  are not inductive enough: a commit acts on a charge picked earlier. The
  invariant `StoreInv` adds `Targeted` (a running call has a target of its kind),
  `Pending` (before its UPDATE a process holds an existing charge of its operation
  that has another one beside it) and `DemoRefund` (a refund of the demo purchase is
  of the charge the fixture resets, so forgetting the key and recapturing that
  charge belong together). Then the dispatcher, for any processes, cases, facts and
  calls: `DispatcherImplementsStore` (every behaviour of it is one of the store, so
  whatever holds of the store holds below it: `StoreStaysTrue`), `TypeOK`,
  `EvidenceNeedsOwner`, `ResultIsEvidenced`, `LostOnlyToRace`. `Control` says what a
  worker holds at each point of its call; `Owned` that a call past the check has an
  owner to answer for it, in the case and in the row it has read, and that owners
  are forgotten only by a new case, which no call can name yet.
* `OperatorHandoffProofs` - for any number of polls and limits and either mode:
  `HandoffTypeOK`, `LiveCallStaysOpen`, `TransferStaysRecorded`,
  `CallerStaysAttended` (the refinement of CallerAttendance). They rest on
  `Departure` (the agent is out of an open room only after a completed handover or
  a failed deletion) and `Closed` (what the shutdown wrote, if it was applied, still
  agrees with the flags it read, or a late PATCH has landed; nothing else closes a
  record or completes it).
* `AgentHandoffsProofs` - for any number of agents and any threshold:
  `AgentsTypeOK`, `AppealsNotNested`, `ConfirmNeedsPrompt`, `LoopBreaksInTime`,
  `AppealsAreAccounted`, `TransfersExplained`. Each proof first says which steps
  change the variables it is about. `Counted` ties the prompts to the count of
  the agent in charge, and says that agents still to come have counted nothing;
  `Filing` says that after a last unseen appeal the owner in charge knows its id
  and nothing is under way; `Explained` says that whatever makes the first agent
  look transferred has left metadata on it.
* `SilenceMonitorProofs` - for any number of agents and any two timeouts, the
  goodbye after the prompt: `SilenceTypeOK`, `OnlyTheCurrentSpeaks`,
  `SilenceIsKept`, `AskedBeforeParting`. An agent that was left is `Still`: its
  clock is marked busy and nothing of its own is under way, because a swap happens
  only in a running turn and a turn begins only when the agent's tasks have
  settled. `StillQuiet` says that after a probe only the caller can become active,
  and that the clock of the current agent knows it. For the order of prompt and
  goodbye three parts are added: `Untouched` (a clock without a monitor has not
  started), `Voiced` (while something is said the clock is marked busy as soon as
  the agent state is, so no playout ages a window) and `Asked` (a window older
  than the prompt has had it; at a check it may be one interval older, and the
  goodbye is at least that much later).

* `VoiceEvaluationProofs` - for any number of evaluations and calls: `OneRunner`,
  `PassIsEarned`, `ResultsAccounted` and `TypeOK`, which needs the calls counted by
  room and position (`RoomLeft`). The verdict rests on `Judged` (a script that
  judges has seen its bridge gone, and a bridge that is gone writes no event),
  `Witnessed` (a row is of a call, and a forbidden call without one is of a room whose
  event could not be stored or was pushed out) and `Timed` (no script lives while
  the controller is overdue). The results rest on `Accounted`: what was sent, and
  after it what is pending, are increasing positions of calls and apart from the
  interrupted ones (`InOrder`), together they are all calls while the session lives
  (`Complete`), and a session that is not ready has called nothing (`Fresh`, which
  needs `Unstarted`: a bridge is started once, by a script that had none).
  The same module holds the proofs about `AgentMonitor`, the other judge from
  outside, for every mode: `BlameFits` and `RecoveryTold`. `MonitorInv` adds what a
  probe has passed before it reached its stage (`StagesPassed`), that a run goes by the
  status the file holds (`Run`) and, where recoveries are told, that a failure told
  and not taken back is in the file or was never saved, and that a run which found
  it there takes it back before it saves (`Remembered`). `Classified` shows of the
  whole table of branches that its first match is a category of the stage or one
  the message claims in so many words.
* `ConversationProofs` - for any items, any number of agents, turns and syncs and any
  window: `ConversationTypeOK`, `TranscriptTells`, `SyncsTellMainTurns`,
  `SummaryAdjoins`. What a request tells follows from what the lists tell when it is
  taken, `ListsTell`: the first agent's list has all that was committed, in its order
  and nothing else but the turn under way; and the list of the agent in charge, or of
  the one it returns to (`Home`), has the turns main agents were given. `Chain` says
  who shares whose list: the first agent keeps the first one, a sub-agent returns to
  an earlier main agent. `FinalLast` says that nothing follows the final request, and
  `SyncLag` that what has been said since the last sync is counted by the agents
  (`unsynced`), each short of its next one. For the window, its recent turns are a
  run of the latest numbers, and what is quoted is compared by number. The
  module first shows what appending, sharing and copying a list do to the order
  `Within` is about.
* `SpeechProvidersProofs` - for any bounds: `OneFinalOfItsOwn`, `EveryTurnAnswered`,
  `OneReading`, with its half about streaming, `OneTake`, and `TypeOK`. The fields of the
  stream belong to whatever segment it is in, so the invariant of the first two is
  about what the detector's queue may hold: after a start comes a stop before the next start (`Alternating`),
  also at the end when the detector hears nobody (`ClosedOff`), and a session that is
  open between two events meets its stop first (`ClosesFirst`). Hence a segment
  begins only when no session and no receive loop is left (`Session`), and
  `_final_emitted` is about the segment it is read for (`Finals`). For the types,
  `InSegment` says that the segments begun and the starts still queued stay within the
  utterances of the call, so that what is open is of one of them. Nothing is assumed
  of the number of segments or the length of the queue but that they are numbers.
  `SaidInOrder`, the other half of `OneReading`, holds of texts of any length with
  words of any size, for both splitters. It goes word by word: the pieces closed so
  far, the one being filled and the part being read are rows (`Rows`) that hold the
  words up to here and nothing else, any earlier one standing in a relation to any
  later one. The relation is "different" for every text (no word twice, none lost) and
  "smaller" for those without an `Overtaken` phrase; for these `Bare` is needed, that
  nothing is being filled while all phrases of a long sentence so far were too long
  themselves. `ReadOut` carries it through the reading.
* `CallEntryProofs` - for any calls, phones, directories, policies and times:
  `RecordAccounted`, `RecordTellsRun`, `FreshConfig`, `RoutedToClaimant`.
  `Steps` and `OwnOrStays` say that a call and its record change by its own actions
  and a restart alone, and `DoneStays` that a lookup that is done is not touched while its call is there.
  `Recorded` ties id, lost answers and the state of the record together; `Settled`
  holds what is decided before the record is created. For the cache, `Timely` bounds
  the times: a request is at most `Flight` old, its answer was still the platform's
  when it was sent (`Brought`), and what the cache keeps was the platform's at most
  `Flight` before it came (`Kept`). For routing, `Indexed` says that the indexes are
  those of the directory last loaded, whatever reloads failed in between; of any
  directory that loads, `SingleClaims` and `CohortClaims` show that a phone found in
  the indexes is claimed by what they give, and one not found by nobody.

Every safety property of a passing run is stated by a theorem. Induction over the
words of a text and the files of a directory is done by a least counterexample
(`UpTo`, `FirstPlace`, `LastPlace`), from well-foundedness of the numbers. What `Size` computes, a fold over words, is never
reasoned about: the proofs about pieces hold for any measure of length.

Only model-checked:

* liveness, as TLAPS 1.4.5 proves none under fairness and no ENABLED: `PollsEnd`,
  `SettledOperatorTakesOver`, `SilentCallerEnds`, `SpeechSettles`, `ControllerFrees`,
  `OutageReported`, `CallSettles`;
* everything the violation runs show.

The entrypoint and the loader have no `TypeOK`: what their proofs need of types is
part of the invariants (`Shape`, `Clocked`).

## 6. Not modelled

* **Semantic memory**: indexing reads, embeds and writes in three steps, so the
  older of two packets may be written last (`semantic_memory.py:60`). Nothing in
  `src/` calls `index_case`, so no behaviour of the program reaches it.
* **Observability**: counters and timelines no decision of a call reads. The
  telephony snapshot is written by every call process under one name.
* **Plugins** for recognition, synthesis and language (Speechmatics, Azure, OpenAI
  and others) are configured by constructors and run in the SDK; that building one
  may raise is in `CallEntry`.
* **Retrieval**: a query to an external vector store, stateless for the call. (Its
  manager calls itself idempotent per tenant and collection, and keys by tenant.)
* **Left out for good**: vendor wire formats, prompts and wording, phone-number
  and region parsing beyond what routing tells apart, metrics, provisioning
  scripts, data files. They are sequential conversions for which a model says no
  more than a unit test.
* Of modelled components: the table `runtime_events` and the list queries of the
  store, telephony timings of the session events, the weights of experiment
  variants, the merge of configuration defaults, field collection of the appeal
  form, and the dashboard's page. The components' notes in `PROJECT.json` say so
  one by one.
