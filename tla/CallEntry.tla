------------------------------ MODULE CallEntry ------------------------------
(***************************************************************************)
(* A call from its job to its record (main.py, config/routing.py,          *)
(* utils/phone.py, utils/monitor_probe.py, lifecycle/, the calls part of   *)
(* api/platform_client.py) on the loader of its process: the entrypoint    *)
(* routes the called phone to a tenant, fetches the caller's history,      *)
(* builds the pipeline, creates the call record and starts the session;    *)
(* the shutdown callback closes the record.  A step goes from one await to *)
(* the next; requests fail or lose their answer; building may raise; the   *)
(* process may die.                                                        *)
(***************************************************************************)
EXTENDS ConfigLoader

CONSTANTS
  Languages,   \* languages.available of the tenants
  DefaultLanguage,
  Policies,    \* deployments: strict, single
  Entrypoints, \* the calls that are followed from job to record
  Kinds        \* who calls: a "phone", an "unknown" number, the "console" or a "probe"

ASSUME EntryAssumption ==
  Entrypoints \subseteq Calls /\ Policies \subseteq [strict : BOOLEAN, single : BOOLEAN]

Raws == [form : Forms, number : Phones]
Others == Calls \ Entrypoints   \* calls of which only the lookup is followed

VARIABLES
  policy,   \* MULTI_TENANT_STRICT_ROUTING and SINGLE_TENANT_MODE
  call,     \* the entrypoint of each call
  record    \* the platform: the record of a call

entryVars == <<policy, call, record>>
vars == <<loaderVars, entryVars>>

NoRecord == [status |-> "none"]
NewCall == [pc |-> "idle", kind |-> "phone", raw |-> NoPhone, config |-> NoConfig,
            fallback |-> FALSE, language |-> DefaultLanguage, id |-> FALSE,
            registered |-> FALSE, lost |-> FALSE]

InitEntry ==
  /\ policy \in Policies
  /\ call = [c \in Entrypoints |-> NewCall]
  /\ record = [c \in Entrypoints |-> NoRecord]

Init == InitLoader /\ InitEntry

(* The configuration a call runs under, and what is recorded of it.        *)
Tenant(config) == IF config.kind = "file" THEN config.file.slug ELSE config.kind
Meta(config) == IF config.kind = "file" THEN config.meta ELSE NoExperiment

(* The platform client's own normalization: a URI is not a phone to it.    *)
RecordedPhone(raw) == IF raw.form = "uri" \/ raw = NoPhone THEN "unknown" ELSE raw.number

At(c, pc) == call[c].pc = pc
Goes(c, pc) == call' = [call EXCEPT ![c].pc = pc]

-----------------------------------------------------------------------------
(* The job arrives: extract_called_phone looks in the job's metadata, then *)
(* the room's, then, in single-tenant mode, in the environment.            *)
CalledPhone(job, room, env) ==
  IF job # NoPhone THEN job ELSE IF room # NoPhone THEN room
  ELSE IF policy.single THEN env ELSE NoPhone

Arrive(c) ==
  /\ At(c, "idle")
  /\ \E kind \in Kinds, job, room, env \in Raws \cup {NoPhone} :
       LET raw == CalledPhone(job, room, env)
       IN  call' = [call EXCEPT ![c].pc = "routing", ![c].kind = kind, ![c].raw = raw]
  /\ UNCHANGED <<loaderVars, policy, record>>

(* resolve_tenant_for_call: ask the loader when a phone was found.         *)
Ask(c) ==
  /\ At(c, "routing") /\ call[c].raw # NoPhone
  /\ ResolvePhone(c, call[c].raw)
  /\ UNCHANGED entryVars

(* ... and fail closed, or fall back to the default tenant when a          *)
(* single-tenant deployment is not strict.                                 *)
Answer(c) == IF call[c].raw = NoPhone THEN NoConfig ELSE lookup[c].config
Answered(c) == At(c, "routing") /\ (call[c].raw = NoPhone \/ lookup[c].state = "done")
FallsBack_EvenStrict == policy.single   \* mutant: the strict flag is not asked
FallsBack == policy.single /\ ~policy.strict

Route(c) ==
  /\ Answered(c) /\ Answer(c) # NoConfig
  /\ call' = [call EXCEPT ![c].pc = "history", ![c].config = Answer(c)]
  /\ UNCHANGED <<loaderVars, policy, record>>

Block(c) ==
  /\ Answered(c) /\ Answer(c) = NoConfig /\ ~FallsBack
  /\ Goes(c, "blocked")
  /\ UNCHANGED <<loaderVars, policy, record>>

RouteToDefault(c) ==
  /\ Answered(c) /\ Answer(c) = NoConfig /\ FallsBack
  /\ \E default \in Defaults :
       call' = [call EXCEPT ![c].pc = "history", ![c].config = default, ![c].fallback = TRUE]
  /\ UNCHANGED <<loaderVars, policy, record>>

-----------------------------------------------------------------------------
(* get_caller_history: only of a known phone; any failure is no history.   *)
(* A remembered language is used when the tenant has it.  Then the         *)
(* pipeline is built for it, which may raise.                              *)
HistoryArrives(c) ==
  /\ At(c, "history")
  /\ \E remembered \in IF call[c].kind = "phone" THEN Languages \cup {"none", "unknown"} ELSE {"none"} :
       call' = [call EXCEPT ![c].pc = "warming", ![c].language =
                  IF remembered \in Languages THEN remembered ELSE DefaultLanguage]
  /\ UNCHANGED <<loaderVars, policy, record>>

PipelineRaises(c) ==
  /\ At(c, "history")
  /\ Goes(c, "dead")
  /\ UNCHANGED <<loaderVars, policy, record>>

(* kb_manager.warmup: that it failed, or was done by an earlier call of the *)
(* tenant, changes nothing for the call.                                   *)
WarmUp(c) ==
  /\ At(c, "warming")
  /\ Goes(c, IF call[c].kind \in {"console", "probe"} THEN "building" ELSE "creating")
  /\ UNCHANGED <<loaderVars, policy, record>>

(* create_call: the platform creates the record; the answer may be lost,   *)
(* or the request never arrive, or not be made for want of a tenant key.   *)
CreateRecord(c) ==
  /\ At(c, "creating")
  /\ record' = [record EXCEPT ![c] =
       [status |-> "in_progress", tenant |-> Tenant(call[c].config),
        meta |-> Meta(call[c].config), language |-> call[c].language,
        phone |-> RecordedPhone(call[c].raw)]]
  /\ \E id \in BOOLEAN :
       call' = [call EXCEPT ![c].pc = "building", ![c].id = id, ![c].lost = ~id]
  /\ UNCHANGED <<loaderVars, policy>>

CreateFails(c) ==
  /\ At(c, "creating")
  /\ Goes(c, "building")
  /\ UNCHANGED <<loaderVars, policy, record>>

(* Tracing, the session and its events are built, the shutdown callbacks   *)
(* registered last.                                                        *)
Build(c) ==
  /\ At(c, "building")
  /\ call' = [call EXCEPT ![c].pc = "starting", ![c].registered = TRUE]
  /\ UNCHANGED <<loaderVars, policy, record>>

BuildRaises(c) ==
  /\ At(c, "building")
  /\ Goes(c, "dead")
  /\ UNCHANGED <<loaderVars, policy, record>>

(* session.start, then ctx.connect.                                        *)
StartSession(c) ==
  /\ At(c, "starting") /\ Goes(c, "connecting")
  /\ UNCHANGED <<loaderVars, policy, record>>

Connect(c) ==
  /\ At(c, "connecting") /\ Goes(c, "live")
  /\ UNCHANGED <<loaderVars, policy, record>>

StartRaises(c) ==
  /\ \/ At(c, "starting")
     \/ At(c, "connecting")
  /\ Goes(c, "dead")
  /\ UNCHANGED <<loaderVars, policy, record>>

-----------------------------------------------------------------------------
(* The job ends, of a live call or of one whose entrypoint raised: the     *)
(* registered callback runs; without an id it has nothing to update.       *)
JobEnds_LiveOnly(c) ==                  \* mutant: only a live call's record is closed
  /\ At(c, "live") \/ At(c, "dead")
  /\ Goes(c, IF At(c, "live") /\ call[c].registered /\ call[c].id THEN "closing" ELSE "ended")
  /\ UNCHANGED <<loaderVars, policy, record>>
JobEnds(c) ==
  /\ At(c, "live") \/ At(c, "dead")
  /\ Goes(c, IF call[c].registered /\ call[c].id THEN "closing" ELSE "ended")
  /\ UNCHANGED <<loaderVars, policy, record>>

FinalLands(c) ==
  /\ At(c, "closing") /\ Goes(c, "ended")
  /\ record' = [record EXCEPT ![c].status = "completed"]
  /\ UNCHANGED <<loaderVars, policy>>

FinalFails(c) ==
  /\ At(c, "closing")
  /\ call' = [call EXCEPT ![c].pc = "ended", ![c].lost = TRUE]
  /\ UNCHANGED <<loaderVars, policy, record>>

(* The process dies with its calls and its cache; the next one loads the   *)
(* directory it finds.                                                     *)
Restart ==
  /\ \E c \in Entrypoints : call[c].pc \notin {"idle", "ended", "blocked"}
  /\ \E dir \in Loadable : Index(dir)
  /\ cache' = [p \in Phones |-> [version |-> 0, at |-> 0]]
  /\ lookup' = [c \in Calls |-> IF lookup[c].state \in {"asked", "answered"}
                                THEN [state |-> "dropped"] ELSE lookup[c]]
  /\ call' = [c \in Entrypoints |-> IF call[c].pc \in {"idle", "ended", "blocked"} THEN call[c]
                              ELSE [call[c] EXCEPT !.pc = "ended", !.lost = TRUE]]
  /\ UNCHANGED <<hasKey, truth, now, policy, record>>

(* Another call comes to the job's place.                                  *)
Leave(c) ==
  /\ call[c].pc \in {"ended", "blocked"}
  /\ call' = [call EXCEPT ![c] = NewCall]
  /\ lookup' = [lookup EXCEPT ![c] = [state |-> "idle"]]
  /\ record' = [record EXCEPT ![c] = NoRecord]
  /\ UNCHANGED <<registry, cache, hasKey, truth, now, policy>>

(* Another entrypoint of the process asks the same loader, again and again. *)
OtherLooksUp(c) ==
  /\ \E raw \in Raws : ResolvePhone(c, raw)
  /\ UNCHANGED entryVars
OtherHasLookedUp(c) ==
  /\ lookup[c].state \in {"done", "dropped"}
  /\ lookup' = [lookup EXCEPT ![c] = [state |-> "idle"]]
  /\ UNCHANGED <<registry, cache, hasKey, truth, now, entryVars>>

-----------------------------------------------------------------------------
Loader == Reload \/ (\E p \in Phones : PlatformChanges(p)) \/ Tick
FetchEnds(c) == (AnswerArrives(c) \/ FetchFails(c)) /\ UNCHANGED entryVars
Step(c) ==
  \/ Ask(c) \/ Route(c) \/ Block(c) \/ RouteToDefault(c)
  \/ HistoryArrives(c) \/ PipelineRaises(c) \/ WarmUp(c)
  \/ CreateRecord(c) \/ CreateFails(c) \/ Build(c) \/ BuildRaises(c)
  \/ StartSession(c) \/ Connect(c) \/ StartRaises(c)
Finish(c) == FinalLands(c) \/ FinalFails(c)

Next ==
  \/ Loader /\ UNCHANGED entryVars
  \/ \E c \in Calls : (PlatformAnswers(c) /\ UNCHANGED entryVars) \/ FetchEnds(c)
  \/ \E c \in Others : OtherLooksUp(c) \/ OtherHasLookedUp(c)
  \/ \E c \in Entrypoints : \/ Arrive(c) \/ Step(c) \/ JobEnds(c) \/ Finish(c) \/ Leave(c)
  \/ Restart

Fairness == \A c \in Entrypoints : WF_vars(Step(c)) /\ WF_vars(FetchEnds(c))

Spec == Init /\ [][Next]_vars /\ Fairness

-----------------------------------------------------------------------------
(* What the platform is told of a call is what runs: its tenant, variant   *)
(* and language, of a caller and never of a probe, under the number called *)
(* or none.  Under strict routing that is what the lookup of the number    *)
(* found, never a default.                                                 *)
RecordTellsRun ==
  \A c \in Entrypoints : record[c] # NoRecord =>
    LET number == Normalize(call[c].raw)
    IN  /\ call[c].kind \notin {"console", "probe"}
        /\ record[c].tenant = Tenant(call[c].config)
        /\ record[c].meta = Meta(call[c].config)
        /\ record[c].language = call[c].language
        /\ record[c].phone \in {number, "unknown"}
        /\ policy.strict => lookup[c] = Done(call[c].config) /\ call[c].config # NoConfig

(* No record is left open without a cause: when a call's job is over, its  *)
(* record is closed, unless the answer that carried its id or the final    *)
(* update was lost, the process died, or building raised before the        *)
(* callback was registered.  And none is closed before.                    *)
RecordAccounted ==
  \A c \in Entrypoints : record[c] # NoRecord =>
    /\ record[c].status = "completed" => call[c].pc = "ended"
    /\ call[c].pc = "ended" /\ record[c].status = "in_progress" =>
         call[c].lost \/ ~call[c].registered

(* Every call that arrives is refused, fails or goes live: no answer it    *)
(* waits for can hold it for ever.                                         *)
CallSettles ==
  \A c \in Entrypoints : At(c, "routing") ~> call[c].pc \in {"live", "blocked", "dead", "ended"}
=============================================================================
