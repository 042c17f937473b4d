--------------------------- MODULE CallEntryProofs ---------------------------
(***************************************************************************)
(* Theorems about CallEntry for any calls, phones, directories and times:  *)
(* the record of a call tells what runs, is closed unless something named  *)
(* was lost, and no configuration older than the cache's time is handed    *)
(* out.                                                                    *)
(***************************************************************************)
EXTENDS CallEntry, WellFoundedInduction, TLAPS

USE TimesAssumption DEF TimesAssumption
USE EntryAssumption DEF EntryAssumption

Fields == {"pc", "kind", "raw", "config", "fallback", "language", "id", "registered", "lost"}
Columns == {"status", "tenant", "meta", "language", "phone"}

(* What the proofs need of the shape of the entrypoints and their lookups. *)
Shape ==
  /\ DOMAIN call = Entrypoints /\ DOMAIN record = Entrypoints /\ DOMAIN lookup = Calls
  /\ \A c \in Entrypoints : DOMAIN call[c] = Fields /\ call[c].raw \in Raws \cup {NoPhone}
  /\ \A c \in Calls : lookup[c].state = "done" => lookup[c] = Done(lookup[c].config)

-----------------------------------------------------------------------------
(* What a call does by itself, and what it leaves of the others.           *)
Own(c) == Arrive(c) \/ Step(c) \/ JobEnds(c) \/ Finish(c) \/ Leave(c)
Lookup(c) == PlatformAnswers(c) \/ AnswerArrives(c) \/ FetchFails(c)

LEMMA Steps ==
  ASSUME [Next]_vars
  PROVE  /\ policy' = policy
         /\ \/ UNCHANGED <<call, record, lookup>>
            \/ UNCHANGED <<call, record>> /\ \E c \in Calls : Lookup(c)
            \/ UNCHANGED <<call, record>> /\ \E c \in Others : OtherLooksUp(c) \/ OtherHasLookedUp(c)
            \/ \E c \in Entrypoints : Own(c)
            \/ Restart
<1>1. CASE UNCHANGED vars
  BY <1>1 DEF vars, loaderVars, entryVars
<1>2. CASE Loader /\ UNCHANGED entryVars
  BY <1>2 DEF Loader, Reload, PlatformChanges, Tick, entryVars
<1>3. ASSUME NEW c \in Calls, (PlatformAnswers(c) /\ UNCHANGED entryVars) \/ FetchEnds(c)
      PROVE  UNCHANGED <<policy, call, record>> /\ Lookup(c)
  BY <1>3 DEF FetchEnds, Lookup, entryVars
<1>4. ASSUME NEW c \in Others, OtherLooksUp(c) \/ OtherHasLookedUp(c)
      PROVE  UNCHANGED <<policy, call, record>>
  BY <1>4 DEF OtherLooksUp, OtherHasLookedUp, entryVars
<1>5. ASSUME NEW c \in Entrypoints, Own(c) PROVE policy' = policy
  BY <1>5 DEF Own, Arrive, Step, Ask, Route, Block, RouteToDefault, HistoryArrives, PipelineRaises,
              WarmUp, CreateRecord, CreateFails, Build, BuildRaises, StartSession, Connect,
              StartRaises, JobEnds, Finish, FinalLands, FinalFails, Leave, entryVars
<1>6. CASE Restart
  BY <1>6 DEF Restart
<1>. QED BY <1>1, <1>2, <1>3, <1>4, <1>5, <1>6 DEF Next, Own

(* Every action but these changes fields of its own call, the record of    *)
(* none, and no lookup.                                                    *)
Plain(c) ==
  \/ Arrive(c) \/ Route(c) \/ Block(c) \/ RouteToDefault(c)
  \/ HistoryArrives(c) \/ PipelineRaises(c) \/ WarmUp(c) \/ CreateFails(c)
  \/ Build(c) \/ BuildRaises(c) \/ StartSession(c) \/ Connect(c) \/ StartRaises(c)
  \/ JobEnds(c) \/ FinalFails(c)

LEMMA PlainOrNot ==
  ASSUME NEW c \in Entrypoints, Own(c)
  PROVE  Plain(c) \/ Ask(c) \/ CreateRecord(c) \/ FinalLands(c) \/ Leave(c)
BY DEF Own, Step, Finish, Plain

LEMMA GoesMoves ==
  ASSUME Shape, NEW c \in Entrypoints, NEW pc, Goes(c, pc)
  PROVE  /\ DOMAIN call' = Entrypoints /\ \A d \in Entrypoints \ {c} : call'[d] = call[d]
         /\ call'[c] = [call[c] EXCEPT !.pc = pc]
         /\ DOMAIN call'[c] = Fields /\ call'[c].pc = pc
         /\ \A f \in Fields \ {"pc"} : call'[c][f] = call[c][f]
<1>1. DOMAIN call[c] = Fields /\ "pc" \in Fields
  BY DEF Shape, Fields
<1>2. call' = [call EXCEPT ![c] = [call[c] EXCEPT !.pc = pc]]
  BY DEF Goes
<1>3. call'[c] = [call[c] EXCEPT !.pc = pc]
  BY <1>2 DEF Shape
<1>. QED BY <1>1, <1>2, <1>3 DEF Shape

LEMMA PlainMoves ==
  ASSUME Shape, NEW c \in Entrypoints, Plain(c)
  PROVE  /\ UNCHANGED <<record, lookup>>
         /\ DOMAIN call' = Entrypoints /\ \A d \in Entrypoints \ {c} : call'[d] = call[d]
         /\ DOMAIN call'[c] = Fields /\ call'[c].raw \in Raws \cup {NoPhone}
<1>1. DOMAIN call[c] = Fields /\ call[c].raw \in Raws \cup {NoPhone} /\ DOMAIN call = Entrypoints
  BY DEF Shape
<1>2. UNCHANGED <<record, lookup>>
  BY DEF Plain, Arrive, Route, Block, RouteToDefault, HistoryArrives, PipelineRaises, WarmUp,
         CreateFails, Build, BuildRaises, StartSession, Connect, StartRaises, JobEnds, FinalFails,
         loaderVars
<1>3. CASE \E pc : Goes(c, pc)
  <2>1. PICK pc : Goes(c, pc)
    BY <1>3
  <2>2. /\ DOMAIN call' = Entrypoints /\ \A d \in Entrypoints \ {c} : call'[d] = call[d]
        /\ DOMAIN call'[c] = Fields /\ \A f \in Fields \ {"pc"} : call'[c][f] = call[c][f]
    BY <2>1, GoesMoves
  <2>3. "raw" \in Fields \ {"pc"}
    BY DEF Fields
  <2>. QED BY <1>1, <1>2, <2>2, <2>3
<1>4. CASE Arrive(c)
  <2>1. PICK kind \in Kinds, job \in Raws \cup {NoPhone}, room \in Raws \cup {NoPhone},
             env \in Raws \cup {NoPhone} :
          call' = [call EXCEPT ![c].pc = "routing", ![c].kind = kind,
                               ![c].raw = CalledPhone(job, room, env)]
    BY <1>4 DEF Arrive
  <2>2. CalledPhone(job, room, env) \in Raws \cup {NoPhone}
    BY DEF CalledPhone
  <2>. QED BY <1>1, <1>2, <2>1, <2>2 DEF Fields
<1>5. CASE Route(c)
  BY <1>1, <1>2, <1>5 DEF Route, Fields
<1>6. CASE RouteToDefault(c)
  BY <1>1, <1>2, <1>6 DEF RouteToDefault, Fields
<1>7. CASE HistoryArrives(c)
  <2>1. PICK language : call' = [call EXCEPT ![c].pc = "warming", ![c].language = language]
    BY <1>7 DEF HistoryArrives
  <2>. QED BY <1>1, <1>2, <2>1 DEF Fields
<1>8. CASE Build(c)
  BY <1>1, <1>2, <1>8 DEF Build, Fields
<1>9. CASE FinalFails(c)
  BY <1>1, <1>2, <1>9 DEF FinalFails, Fields
<1>. QED
  BY <1>3, <1>4, <1>5, <1>6, <1>7, <1>8, <1>9
     DEF Plain, Block, PipelineRaises, WarmUp, CreateFails, BuildRaises, StartSession, Connect,
         StartRaises, JobEnds

LEMMA InitShape == Init => Shape
BY DEF Init, InitLoader, InitEntry, Shape, NewCall, Fields

LEMMA DoneIsDone == \A config : Done(config) = Done(Done(config).config)
BY DEF Done

LEMMA ResolveMoves ==
  ASSUME Shape, NEW c \in Calls, NEW raw, ResolvePhone(c, raw)
  PROVE  /\ lookup[c].state = "idle"
         /\ DOMAIN lookup' = Calls /\ \A d \in Calls \ {c} : lookup'[d] = lookup[d]
         /\ \/ \E config : lookup'[c] = Done(config)
            \/ /\ lookup'[c] = [state |-> "asked", phone |-> raw.number, since |-> now]
               /\ lookup'[c].state # "done"
<1>1. PICK x : lookup' = [lookup EXCEPT ![c] = x]
               /\ ((\E config : x = Done(config)) \/ x = [state |-> "asked", phone |-> raw.number, since |-> now])
  BY DEF ResolvePhone, Normalize
<1>2. x = [state |-> "asked", phone |-> raw.number, since |-> now] => x.state # "done"
  OBVIOUS
<1>3. lookup'[c] = x
  BY <1>1 DEF Shape
<1>. QED BY <1>1, <1>2, <1>3 DEF Shape, ResolvePhone

LEMMA LookupMoves ==
  ASSUME Shape, NEW c \in Calls, Lookup(c)
  PROVE  /\ lookup[c].state \in {"asked", "answered"}
         /\ DOMAIN lookup' = Calls /\ \A d \in Calls \ {c} : lookup'[d] = lookup[d]
         /\ \/ \E config : lookup'[c] = Done(config)
            \/ lookup'[c].state = "answered"
<1>1. PICK x : lookup' = [lookup EXCEPT ![c] = x]
               /\ ((\E config : x = Done(config)) \/ x.state = "answered")
  BY DEF Lookup, PlatformAnswers, AnswerArrives, FetchFails
<1>2. lookup[c].state \in {"asked", "answered"}
  BY DEF Lookup, PlatformAnswers, AnswerArrives, FetchFails
<1>. QED BY <1>1, <1>2 DEF Shape

(* A lookup that is done stays as it is while its call is there.           *)
LEMMA DoneStays ==
  ASSUME Shape, [Next]_vars, NEW c \in Entrypoints, lookup[c].state = "done"
  PROVE  lookup'[c] = lookup[c] \/ Leave(c)
<1>. c \in Calls
  BY DEF Others
<1>1. CASE UNCHANGED lookup
  BY <1>1
<1>2. ASSUME NEW d \in Calls, Lookup(d) PROVE lookup'[c] = lookup[c]
  BY <1>2, LookupMoves
<1>3. ASSUME NEW d \in Others, OtherLooksUp(d) \/ OtherHasLookedUp(d)
      PROVE  lookup'[c] = lookup[c]
  <2>1. c # d /\ d \in Calls
    BY DEF Others
  <2>2. ASSUME NEW raw, ResolvePhone(d, raw) PROVE lookup'[c] = lookup[c]
    BY <2>1, <2>2, ResolveMoves
  <2>3. CASE OtherHasLookedUp(d)
    BY <2>1, <2>3 DEF OtherHasLookedUp, Shape
  <2>. QED BY <1>3, <2>2, <2>3 DEF OtherLooksUp
<1>4. ASSUME NEW d \in Entrypoints, Own(d) PROVE lookup'[c] = lookup[c] \/ Leave(c)
  <2>1. CASE Plain(d)
    BY <2>1, PlainMoves
  <2>2. CASE Ask(d)
    <3>1. ResolvePhone(d, call[d].raw)
      BY <2>2 DEF Ask
    <3>. QED BY <3>1, ResolveMoves
  <2>3. CASE CreateRecord(d) \/ FinalLands(d)
    BY <2>3 DEF CreateRecord, FinalLands, loaderVars
  <2>4. CASE Leave(d) /\ d # c
    BY <2>4 DEF Leave, Shape
  <2>. QED BY <1>4, <2>1, <2>2, <2>3, <2>4, PlainOrNot
<1>5. CASE Restart
  BY <1>5 DEF Restart
<1>. QED BY <1>1, <1>2, <1>3, <1>4, <1>5, Steps

LEMMA LookupKeepsShape ==
  ASSUME Shape, NEW c \in Calls, UNCHANGED <<call, record>>, DOMAIN lookup' = Calls,
         \A d \in Calls \ {c} : lookup'[d] = lookup[d],
         (\E config : lookup'[c] = Done(config)) \/ lookup'[c].state # "done"
  PROVE  Shape'
<1>1. lookup'[c].state = "done" => lookup'[c] = Done(lookup'[c].config)
  BY DoneIsDone
<1>2. \A d \in Calls : lookup'[d].state = "done" => lookup'[d] = Done(lookup'[d].config)
  BY <1>1 DEF Shape
<1>. QED BY <1>2 DEF Shape

LEMMA ShapeStep == Shape /\ [Next]_vars => Shape'
<1> SUFFICES ASSUME Shape, [Next]_vars PROVE Shape'
  OBVIOUS
<1>. Others \subseteq Calls /\ Entrypoints \subseteq Calls
  BY DEF Others
<1>1. CASE UNCHANGED <<call, record, lookup>>
  BY <1>1 DEF Shape
<1>2. ASSUME UNCHANGED <<call, record>>, NEW c \in Calls, Lookup(c) PROVE Shape'
  BY <1>2, LookupMoves, LookupKeepsShape
<1>3. ASSUME UNCHANGED <<call, record>>, NEW c \in Others, OtherLooksUp(c) PROVE Shape'
  <2>1. PICK raw : ResolvePhone(c, raw)
    BY <1>3 DEF OtherLooksUp
  <2>2. c \in Calls
    BY DEF Others
  <2>3. (\E config : lookup'[c] = Done(config)) \/ lookup'[c].state # "done"
    BY <2>1, <2>2, ResolveMoves
  <2>. QED BY <1>3, <2>1, <2>2, <2>3, ResolveMoves, LookupKeepsShape
<1>4. ASSUME UNCHANGED <<call, record>>, NEW c \in Others, OtherHasLookedUp(c) PROVE Shape'
  BY <1>4 DEF OtherHasLookedUp, Shape
<1>5. ASSUME NEW c \in Entrypoints, Plain(c) PROVE Shape'
  BY <1>5, PlainMoves DEF Shape
<1>6. ASSUME NEW c \in Entrypoints, Ask(c) PROVE Shape'
  <2>1. UNCHANGED <<call, record>> /\ ResolvePhone(c, call[c].raw)
    BY <1>6 DEF Ask, entryVars
  <2>2. c \in Calls
    BY DEF Others
  <2>3. (\E config : lookup'[c] = Done(config)) \/ lookup'[c].state # "done"
    BY <2>1, <2>2, ResolveMoves
  <2>. QED BY <2>1, <2>2, <2>3, ResolveMoves, LookupKeepsShape
<1>7. ASSUME NEW c \in Entrypoints, CreateRecord(c) PROVE Shape'
  <2>1. UNCHANGED lookup /\ DOMAIN record' = Entrypoints
    BY <1>7 DEF CreateRecord, loaderVars, Shape
  <2>2. PICK id \in BOOLEAN : call' = [call EXCEPT ![c].pc = "building", ![c].id = id, ![c].lost = ~id]
    BY <1>7 DEF CreateRecord
  <2>3. DOMAIN call' = Entrypoints /\ \A d \in Entrypoints \ {c} : call'[d] = call[d]
    BY <2>2 DEF Shape
  <2>4. DOMAIN call'[c] = Fields /\ call'[c].raw = call[c].raw
    BY <2>2 DEF Shape, Fields
  <2>. QED BY <2>1, <2>3, <2>4 DEF Shape
<1>8. ASSUME NEW c \in Entrypoints, FinalLands(c) PROVE Shape'
  <2>1. UNCHANGED lookup /\ DOMAIN record' = Entrypoints /\ Goes(c, "ended")
    BY <1>8 DEF FinalLands, loaderVars, Shape
  <2>2. DOMAIN call' = Entrypoints /\ \A d \in Entrypoints \ {c} : call'[d] = call[d]
    BY <2>1, GoesMoves
  <2>3. DOMAIN call'[c] = Fields /\ call'[c]["raw"] = call[c]["raw"]
    BY <2>1, GoesMoves DEF Fields
  <2>. QED BY <2>1, <2>2, <2>3 DEF Shape
<1>9. ASSUME NEW c \in Entrypoints, Leave(c) PROVE Shape'
  <2>1. DOMAIN NewCall = Fields /\ NewCall.raw = NoPhone
    BY DEF NewCall, Fields
  <2>. QED BY <1>9, <2>1 DEF Leave, Shape
<1>10. CASE Restart
  <2>1. UNCHANGED record /\ DOMAIN lookup' = Calls /\ DOMAIN call' = Entrypoints
    BY <1>10 DEF Restart, Shape
  <2>2. ASSUME NEW c \in Calls
        PROVE  lookup'[c].state = "done" => lookup'[c] = Done(lookup'[c].config)
    BY <1>10 DEF Restart, Shape
  <2>3. ASSUME NEW c \in Entrypoints
        PROVE  DOMAIN call'[c] = Fields /\ call'[c].raw \in Raws \cup {NoPhone}
    <3>1. call'[c] = call[c] \/ call'[c] = [call[c] EXCEPT !.pc = "ended", !.lost = TRUE]
      BY <1>10 DEF Restart, Shape
    <3>. QED BY <3>1 DEF Fields, Shape
  <2>. QED BY <2>1, <2>2, <2>3 DEF Shape
<1>. QED BY <1>1, <1>2, <1>3, <1>4, <1>5, <1>6, <1>7, <1>8, <1>9, <1>10, Steps, PlainOrNot

LEMMA ShapeHolds == Spec => []Shape
BY InitShape, ShapeStep, PTL DEF Spec

(* A call and its record change by its own actions and the restarts alone. *)
LEMMA OwnOrStays ==
  ASSUME Shape, [Next]_vars, NEW c \in Entrypoints
  PROVE  Own(c) \/ Restart \/ (call'[c] = call[c] /\ record'[c] = record[c])
<1>1. ASSUME NEW d \in Entrypoints \ {c}, Own(d)
      PROVE  call'[c] = call[c] /\ record'[c] = record[c]
  <2>1. CASE Plain(d)
    BY <2>1, PlainMoves
  <2>2. CASE Ask(d)
    BY <2>2 DEF Ask, entryVars
  <2>3. CASE CreateRecord(d)
    <3>1. PICK id \in BOOLEAN :
            call' = [call EXCEPT ![d].pc = "building", ![d].id = id, ![d].lost = ~id]
      BY <2>3 DEF CreateRecord
    <3>2. call'[c] = call[c]
      BY <3>1 DEF Shape
    <3>3. \A r : [record EXCEPT ![d] = r][c] = record[c]
      BY DEF Shape
    <3>. QED BY <2>3, <3>2, <3>3 DEF CreateRecord
  <2>4. CASE FinalLands(d)
    <3>1. Goes(d, "ended") /\ record'[c] = record[c]
      BY <2>4 DEF FinalLands, Shape
    <3>. QED BY <3>1, GoesMoves
  <2>5. CASE Leave(d)
    BY <2>5 DEF Leave, Shape
  <2>. QED BY <1>1, <2>1, <2>2, <2>3, <2>4, <2>5, PlainOrNot
<1>. QED BY <1>1, Steps

-----------------------------------------------------------------------------
(* How a call and its record go together.                                  *)
Recorded(c) ==
  /\ call[c].pc \in {"idle", "routing", "history", "warming", "creating", "blocked"} =>
       record[c] = NoRecord
  /\ record[c] # NoRecord =>
       DOMAIN record[c] = Columns /\ record[c].status \in {"in_progress", "completed"}
  /\ call[c].id => record[c] # NoRecord
  /\ call[c].pc = "closing" => call[c].id
  /\ record[c] # NoRecord => record[c].status = "completed" \/ call[c].id \/ call[c].lost
  /\ record[c] # NoRecord =>
       /\ record[c].status = "completed" => call[c].pc = "ended"
       /\ call[c].pc = "ended" /\ record[c].status = "in_progress" =>
            call[c].lost \/ ~call[c].registered
AllRecorded == \A c \in Entrypoints : Recorded(c)

LEMMA InitRecorded == Init => AllRecorded
BY DEF Init, InitEntry, AllRecorded, Recorded, NewCall

LEMMA RecordedStep == Shape /\ AllRecorded /\ [Next]_vars => AllRecorded'
<1> SUFFICES ASSUME Shape, AllRecorded, [Next]_vars, NEW c \in Entrypoints PROVE Recorded(c)'
  BY DEF AllRecorded
<1>1. Recorded(c) /\ DOMAIN call[c] = Fields /\ DOMAIN call = Entrypoints /\ DOMAIN record = Entrypoints
  BY DEF AllRecorded, Shape
<1>2. CASE call'[c] = call[c] /\ record'[c] = record[c]
  BY <1>1, <1>2 DEF Recorded
<1>3. CASE Plain(c)
  <2>. record'[c] = record[c]
    BY <1>3, PlainMoves
  <2>1. CASE Arrive(c) \/ Route(c) \/ RouteToDefault(c) \/ HistoryArrives(c)
    <3>1. call[c].pc \in {"idle", "routing", "history"}
      BY <2>1 DEF Arrive, Route, RouteToDefault, HistoryArrives, Answered, At
    <3>2. /\ call'[c].pc \in {"routing", "history", "warming"}
          /\ call'[c].id = call[c].id
      <4>1. CASE Arrive(c)
        <5>1. PICK kind, raw : call' = [call EXCEPT ![c].pc = "routing", ![c].kind = kind, ![c].raw = raw]
          BY <4>1 DEF Arrive
        <5>. QED BY <1>1, <5>1 DEF Fields
      <4>2. CASE Route(c) \/ RouteToDefault(c)
        <5>1. \/ call' = [call EXCEPT ![c].pc = "history", ![c].config = Answer(c)]
              \/ \E default \in Defaults :
                   call' = [call EXCEPT ![c].pc = "history", ![c].config = default, ![c].fallback = TRUE]
          BY <4>2 DEF Route, RouteToDefault
        <5>. QED BY <1>1, <5>1 DEF Fields
      <4>3. CASE HistoryArrives(c)
        <5>1. PICK language : call' = [call EXCEPT ![c].pc = "warming", ![c].language = language]
          BY <4>3 DEF HistoryArrives
        <5>. QED BY <1>1, <5>1 DEF Fields
      <4>. QED BY <2>1, <4>1, <4>2, <4>3
    <3>. QED BY <1>1, <3>1, <3>2 DEF Recorded
  <2>2. ASSUME NEW pc, Goes(c, pc),
               pc \in {"warming", "creating", "blocked"} =>
                 call[c].pc \in {"routing", "history", "warming"},
               pc # "idle", pc # "routing", pc # "history", pc # "closing",
               pc = "ended" => call[c].pc = "ended" \/ record[c] = NoRecord
                                 \/ call[c].lost \/ ~call[c].registered,
               call[c].pc # "ended"
        PROVE  Recorded(c)'
    <3>1. /\ call'[c]["id"] = call[c]["id"] /\ call'[c]["lost"] = call[c]["lost"]
          /\ call'[c]["registered"] = call[c]["registered"] /\ call'[c].pc = pc
      BY <2>2, GoesMoves DEF Fields
    <3>. QED BY <1>1, <2>2, <3>1 DEF Recorded
  <2>3. CASE Block(c) \/ PipelineRaises(c) \/ WarmUp(c) \/ CreateFails(c) \/ BuildRaises(c)
             \/ StartSession(c) \/ Connect(c) \/ StartRaises(c)
    BY <2>2, <2>3 DEF Block, PipelineRaises, WarmUp, CreateFails, BuildRaises, StartSession, Connect,
                      StartRaises, Answered, At
  <2>4. CASE JobEnds(c)
    <3>1. CASE call[c].registered /\ call[c].id
      <4>1. Goes(c, "closing") /\ call[c].pc # "ended"
        BY <2>4, <3>1 DEF JobEnds, At
      <4>2. /\ call'[c]["id"] = call[c]["id"] /\ call'[c]["lost"] = call[c]["lost"]
            /\ call'[c].pc = "closing"
        BY <4>1, GoesMoves DEF Fields
      <4>. QED BY <1>1, <3>1, <4>1, <4>2 DEF Recorded
    <3>2. CASE ~(call[c].registered /\ call[c].id)
      <4>1. Goes(c, "ended") /\ call[c].pc # "ended"
        BY <2>4, <3>2 DEF JobEnds, At
      <4>2. record[c] # NoRecord => call[c].lost \/ ~call[c].registered
        BY <1>1, <3>2, <4>1 DEF Recorded
      <4>. QED BY <2>2, <4>1, <4>2
    <3>. QED BY <3>1, <3>2
  <2>5. CASE Build(c)
    <3>1. /\ call[c].pc = "building" /\ call'[c].pc = "starting"
          /\ call'[c].id = call[c].id /\ call'[c].lost = call[c].lost
      BY <1>1, <2>5 DEF Build, At, Fields
    <3>. QED BY <1>1, <3>1 DEF Recorded
  <2>6. CASE FinalFails(c)
    <3>1. /\ call[c].pc = "closing" /\ call'[c].pc = "ended"
          /\ call'[c].id = call[c].id /\ call'[c].lost = TRUE
      BY <1>1, <2>6 DEF FinalFails, At, Fields
    <3>. QED BY <1>1, <3>1 DEF Recorded
  <2>. QED BY <1>3, <2>1, <2>3, <2>4, <2>5, <2>6 DEF Plain
<1>4. CASE Ask(c)
  BY <1>2, <1>4 DEF Ask, entryVars
<1>5. CASE CreateRecord(c)
  <2>1. PICK id \in BOOLEAN : call' = [call EXCEPT ![c].pc = "building", ![c].id = id, ![c].lost = ~id]
    BY <1>5 DEF CreateRecord
  <2>2. call'[c].pc = "building" /\ call'[c].id = id /\ call'[c].lost = ~id
    BY <1>1, <2>1 DEF Fields
  <2>3. record'[c].status = "in_progress" /\ DOMAIN record'[c] = Columns
    BY <1>1, <1>5 DEF CreateRecord, Columns
  <2>4. record'[c] # NoRecord
    BY <2>3 DEF NoRecord
  <2>. QED BY <2>1, <2>2, <2>3, <2>4 DEF Recorded
<1>6. CASE FinalLands(c)
  <2>1. call[c].pc = "closing" /\ Goes(c, "ended") /\ record[c] # NoRecord /\ DOMAIN record[c] = Columns
    BY <1>1, <1>6 DEF FinalLands, At, Recorded
  <2>2. call'[c].pc = "ended"
    BY <2>1, GoesMoves
  <2>3. record'[c].status = "completed" /\ DOMAIN record'[c] = Columns
    BY <1>1, <1>6, <2>1 DEF FinalLands, Columns
  <2>4. record'[c] # NoRecord
    BY <2>3 DEF NoRecord
  <2>. QED BY <2>2, <2>3, <2>4 DEF Recorded
<1>7. CASE Leave(c)
  <2>1. call'[c] = NewCall /\ record'[c] = NoRecord
    BY <1>1, <1>7 DEF Leave
  <2>2. NewCall.id = FALSE /\ NewCall.pc = "idle"
    BY DEF NewCall
  <2>. QED BY <2>1, <2>2 DEF Recorded
<1>8. CASE Restart
  <2>1. record'[c] = record[c]
    BY <1>8 DEF Restart
  <2>2. \/ call'[c] = call[c]
        \/ call[c].pc \notin {"idle", "ended", "blocked"}
           /\ call'[c] = [call[c] EXCEPT !.pc = "ended", !.lost = TRUE]
    BY <1>8 DEF Restart
  <2>3. CASE call'[c] = [call[c] EXCEPT !.pc = "ended", !.lost = TRUE]
    <3>1. call'[c].pc = "ended" /\ call'[c].lost = TRUE /\ call'[c].id = call[c].id
      BY <1>1, <2>3 DEF Fields
    <3>. QED BY <1>1, <2>1, <3>1 DEF Recorded
  <2>. QED BY <1>2, <2>1, <2>2, <2>3
<1>. QED BY <1>2, <1>3, <1>4, <1>5, <1>6, <1>7, <1>8, OwnOrStays, PlainOrNot

(* No record is left open without a cause and none is closed before its    *)
(* call is over (main.py's shutdown callback, platform_client.py): whatever*)
(* raises, whichever answer is lost, and when the process dies.            *)
THEOREM RecordsAccounted == Spec => []RecordAccounted
<1>1. AllRecorded => RecordAccounted
  BY DEF AllRecorded, Recorded, RecordAccounted
<1>. QED BY <1>1, ShapeHolds, InitRecorded, RecordedStep, PTL DEF Spec

-----------------------------------------------------------------------------
(* What the entrypoint has settled before it creates the record: whom it   *)
(* talks to, and under strict routing that its lookup found the tenant.    *)
Settled(c) ==
  /\ call[c].pc = "creating" => call[c].kind \notin {"console", "probe"}
  /\ call[c].pc \in {"history", "warming", "creating"} /\ policy.strict =>
       lookup[c] = Done(call[c].config) /\ call[c].config # NoConfig
Told(c) ==
  record[c] # NoRecord =>
    /\ call[c].kind \notin {"console", "probe"}
    /\ record[c].tenant = Tenant(call[c].config)
    /\ record[c].meta = Meta(call[c].config)
    /\ record[c].language = call[c].language
    /\ record[c].phone \in {Normalize(call[c].raw), "unknown"}
    /\ policy.strict => lookup[c] = Done(call[c].config) /\ call[c].config # NoConfig
Truthful == \A c \in Entrypoints : Settled(c) /\ Told(c)

LEMMA InitTruthful == Init => Truthful
BY DEF Init, InitEntry, Truthful, Settled, Told, NewCall

(* The actions that choose, and those that only move on.                   *)
Chooses(c) == Arrive(c) \/ Route(c) \/ RouteToDefault(c) \/ HistoryArrives(c)

LEMMA MovesOn ==
  ASSUME Shape, NEW c \in Entrypoints, Plain(c), ~Chooses(c)
  PROVE  /\ call'[c].kind = call[c].kind /\ call'[c].raw = call[c].raw
         /\ call'[c].config = call[c].config /\ call'[c].language = call[c].language
         /\ call'[c].pc \notin {"history", "warming"}
         /\ call'[c].pc = "creating" =>
              call[c].pc = "warming" /\ call[c].kind \notin {"console", "probe"}
<1>1. DOMAIN call[c] = Fields /\ DOMAIN call = Entrypoints
  BY DEF Shape
<1>2. ASSUME NEW pc, Goes(c, pc)
      PROVE  /\ call'[c]["kind"] = call[c]["kind"] /\ call'[c]["raw"] = call[c]["raw"]
             /\ call'[c]["config"] = call[c]["config"] /\ call'[c]["language"] = call[c]["language"]
             /\ call'[c].pc = pc
  BY <1>2, GoesMoves DEF Fields
<1>3. CASE WarmUp(c)
  <2>1. CASE call[c].kind \in {"console", "probe"}
    <3>1. Goes(c, "building")
      BY <1>3, <2>1 DEF WarmUp
    <3>. QED BY <1>2, <3>1
  <2>2. CASE call[c].kind \notin {"console", "probe"}
    <3>1. Goes(c, "creating") /\ call[c].pc = "warming"
      BY <1>3, <2>2 DEF WarmUp, At
    <3>. QED BY <1>2, <2>2, <3>1
  <2>. QED BY <2>1, <2>2
<1>4. CASE Block(c) \/ PipelineRaises(c) \/ CreateFails(c) \/ BuildRaises(c) \/ StartSession(c)
           \/ Connect(c) \/ StartRaises(c)
  BY <1>2, <1>4 DEF Block, PipelineRaises, CreateFails, BuildRaises, StartSession, Connect, StartRaises
<1>5. CASE JobEnds(c)
  <2>1. Goes(c, "closing") \/ Goes(c, "ended")
    BY <1>5 DEF JobEnds
  <2>. QED BY <1>2, <2>1
<1>6. CASE Build(c)
  BY <1>1, <1>6 DEF Build, Fields
<1>7. CASE FinalFails(c)
  BY <1>1, <1>7 DEF FinalFails, Fields
<1>. QED BY <1>3, <1>4, <1>5, <1>6, <1>7 DEF Plain, Chooses

LEMMA SettledStep ==
  ASSUME Shape, AllRecorded, Truthful, [Next]_vars, NEW c \in Entrypoints
  PROVE  Settled(c)' /\ Told(c)'
<1>1. /\ Settled(c) /\ Told(c) /\ Recorded(c)
      /\ DOMAIN call[c] = Fields /\ DOMAIN call = Entrypoints /\ DOMAIN record = Entrypoints
  BY DEF AllRecorded, Shape, Truthful
<1>2. policy' = policy
  BY Steps
<1>3. lookup[c].state = "done" /\ ~Leave(c) => lookup'[c] = lookup[c]
  BY DoneStays
<1>4. \A config : Done(config).state = "done" /\ Done(config).config = config
  BY DEF Done
<1>5. CASE call'[c] = call[c] /\ record'[c] = record[c] /\ ~Leave(c)
  BY <1>1, <1>2, <1>3, <1>4, <1>5 DEF Settled, Told
<1>6. CASE Plain(c) /\ Chooses(c)
  <2>1. UNCHANGED <<record, lookup>>
    BY <1>6, PlainMoves
  <2>2. record[c] = NoRecord
    BY <1>1, <1>6 DEF Chooses, Arrive, Route, RouteToDefault, HistoryArrives, Answered, At, Recorded
  <2>3. CASE Arrive(c)
    <3>1. PICK kind, raw : call' = [call EXCEPT ![c].pc = "routing", ![c].kind = kind, ![c].raw = raw]
      BY <2>3 DEF Arrive
    <3>2. call'[c].pc = "routing"
      BY <1>1, <3>1 DEF Fields
    <3>. QED BY <2>1, <2>2, <3>2 DEF Settled, Told
  <2>4. CASE Route(c)
    <3>1. call'[c].pc = "history" /\ call'[c].config = Answer(c)
      BY <1>1, <2>4 DEF Route, Fields
    <3>2. lookup[c].state = "done" /\ Answer(c) = lookup[c].config /\ Answer(c) # NoConfig
      BY <2>4 DEF Route, Answered, Answer
    <3>3. c \in Calls
      BY DEF Others
    <3>4. lookup[c] = Done(Answer(c))
      BY <3>2, <3>3 DEF Shape
    <3>. QED BY <2>1, <2>2, <3>1, <3>2, <3>4 DEF Settled, Told
  <2>5. CASE RouteToDefault(c)
    <3>1. PICK config : call' = [call EXCEPT ![c].pc = "history", ![c].config = config, ![c].fallback = TRUE]
      BY <2>5 DEF RouteToDefault
    <3>2. call'[c].pc = "history" /\ ~policy.strict
      BY <1>1, <2>5, <3>1 DEF RouteToDefault, FallsBack, Fields
    <3>. QED BY <1>2, <2>1, <2>2, <3>2 DEF Settled, Told
  <2>6. CASE HistoryArrives(c)
    <3>1. PICK language : call' = [call EXCEPT ![c].pc = "warming", ![c].language = language]
      BY <2>6 DEF HistoryArrives
    <3>2. call'[c].pc = "warming" /\ call'[c].config = call[c].config /\ call[c].pc = "history"
      BY <1>1, <2>6, <3>1 DEF HistoryArrives, At, Fields
    <3>. QED BY <1>1, <1>2, <2>1, <2>2, <3>2 DEF Settled, Told
  <2>. QED BY <1>6, <2>3, <2>4, <2>5, <2>6 DEF Chooses
<1>7. CASE Plain(c) /\ ~Chooses(c)
  <2>1. UNCHANGED <<record, lookup>>
    BY <1>7, PlainMoves
  <2>. QED BY <1>1, <1>2, <1>7, <2>1, MovesOn DEF Settled, Told
<1>8. CASE Ask(c)
  <2>1. UNCHANGED <<call, record>> /\ ResolvePhone(c, call[c].raw)
    BY <1>8 DEF Ask, entryVars
  <2>2. lookup[c].state = "idle"
    BY <2>1 DEF ResolvePhone
  <2>. QED BY <1>1, <1>2, <1>4, <2>1, <2>2 DEF Settled, Told
<1>9. CASE CreateRecord(c)
  <2>1. PICK id \in BOOLEAN : call' = [call EXCEPT ![c].pc = "building", ![c].id = id, ![c].lost = ~id]
    BY <1>9 DEF CreateRecord
  <2>2. /\ call'[c].pc = "building" /\ call'[c].kind = call[c].kind /\ call'[c].raw = call[c].raw
        /\ call'[c].config = call[c].config /\ call'[c].language = call[c].language
    BY <1>1, <2>1 DEF Fields
  <2>3. /\ record'[c].tenant = Tenant(call[c].config) /\ record'[c].meta = Meta(call[c].config)
        /\ record'[c].language = call[c].language /\ record'[c].phone = RecordedPhone(call[c].raw)
        /\ lookup' = lookup /\ call[c].pc = "creating"
    BY <1>1, <1>9 DEF CreateRecord, At, loaderVars
  <2>. QED BY <1>1, <1>2, <2>2, <2>3 DEF Settled, Told, RecordedPhone, Normalize
<1>10. CASE FinalLands(c)
  <2>1. /\ Goes(c, "ended") /\ lookup' = lookup /\ record[c] # NoRecord
        /\ DOMAIN record[c] = Columns
    BY <1>1, <1>10 DEF FinalLands, At, Recorded, loaderVars
  <2>2. /\ call'[c]["kind"] = call[c]["kind"] /\ call'[c]["raw"] = call[c]["raw"]
        /\ call'[c]["config"] = call[c]["config"] /\ call'[c]["language"] = call[c]["language"]
        /\ call'[c].pc = "ended"
    BY <2>1, GoesMoves DEF Fields
  <2>3. /\ record'[c].tenant = record[c].tenant /\ record'[c].meta = record[c].meta
        /\ record'[c].language = record[c].language /\ record'[c].phone = record[c].phone
    BY <1>1, <1>10, <2>1 DEF FinalLands, Columns
  <2>. QED BY <1>1, <1>2, <2>1, <2>2, <2>3 DEF Settled, Told
<1>11. CASE Leave(c)
  <2>1. call'[c] = NewCall /\ record'[c] = NoRecord
    BY <1>1, <1>11 DEF Leave
  <2>2. NewCall.pc = "idle"
    BY DEF NewCall
  <2>. QED BY <2>1, <2>2 DEF Settled, Told
<1>12. CASE Restart /\ ~Leave(c)
  <2>1. record'[c] = record[c]
    BY <1>12 DEF Restart
  <2>2. call'[c] = call[c] \/ call'[c] = [call[c] EXCEPT !.pc = "ended", !.lost = TRUE]
    BY <1>12 DEF Restart
  <2>3. CASE call'[c] = [call[c] EXCEPT !.pc = "ended", !.lost = TRUE]
    <3>1. /\ call'[c].pc = "ended" /\ call'[c].kind = call[c].kind /\ call'[c].raw = call[c].raw
          /\ call'[c].config = call[c].config /\ call'[c].language = call[c].language
      BY <1>1, <2>3 DEF Fields
    <3>. QED BY <1>1, <1>2, <1>3, <1>4, <1>12, <2>1, <3>1 DEF Settled, Told
  <2>. QED BY <1>5, <1>12, <2>1, <2>2, <2>3
<1>. QED BY <1>5, <1>6, <1>7, <1>8, <1>9, <1>10, <1>11, <1>12, OwnOrStays, PlainOrNot

(* What the platform is told of a call is what runs, and under strict      *)
(* routing what the lookup of its number found (main.py, routing.py,       *)
(* platform_client.py), whatever a reload, a restart or another call of    *)
(* the process does meanwhile.                                             *)
THEOREM RecordsTellRuns == Spec => []RecordTellsRun
<1>1. Truthful => RecordTellsRun
  BY DEF Truthful, Told, RecordTellsRun
<1>2. Shape /\ AllRecorded /\ Truthful /\ [Next]_vars => Truthful'
  BY SettledStep DEF Truthful
<1>. QED
  BY <1>1, <1>2, ShapeHolds, InitRecorded, RecordedStep, InitTruthful, PTL DEF Spec

-----------------------------------------------------------------------------
(* The cache.                                                              *)
(* When the clock says what: a request under way is at most Flight old, the*)
(* answer it got was the platform's not before it was sent, and what the   *)
(* cache has was the platform's at most Flight before it came.             *)
Clocked ==
  /\ now \in Nat /\ now <= MaxNow
  /\ DOMAIN cache = Phones
  /\ platform \in [Phones -> 0 .. MaxVersion]
  /\ retired \in [Phones -> [1 .. MaxVersion -> Nat]]
Current == \A p \in Phones : platform[p] # 0 => retired[p][platform[p]] = Never
Asked(c) ==
  lookup[c].state \in {"asked", "answered"} =>
    /\ lookup[c].phone \in Phones /\ lookup[c].since \in Nat
    /\ lookup[c].since <= now /\ now <= lookup[c].since + Flight
Brought(c) ==
  lookup[c].state = "answered" =>
    LET v == lookup[c].version
    IN  v \in 0 .. MaxVersion /\ (v # 0 => lookup[c].since <= retired[lookup[c].phone][v])
Kept(p) ==
  /\ cache[p].version \in 0 .. MaxVersion /\ cache[p].at \in Nat /\ cache[p].at <= now
  /\ cache[p].version # 0 => cache[p].at <= retired[p][cache[p].version] + Flight
Timely ==
  /\ Clocked /\ Current
  /\ \A c \in Calls : Asked(c) /\ Brought(c)
  /\ \A p \in Phones : Kept(p)

LEMMA InitTimely == Init => Timely
<1> SUFFICES ASSUME Init PROVE Timely
  OBVIOUS
<1>1. Clocked /\ Current
  BY DEF Init, InitLoader, Clocked, Current, Never
<1>2. \A c \in Calls : Asked(c) /\ Brought(c)
  BY DEF Init, InitLoader, Asked, Brought
<1>3. \A p \in Phones : Kept(p)
  BY DEF Init, InitLoader, Kept
<1>. QED BY <1>1, <1>2, <1>3 DEF Timely

(* A phone that is looked up is one of the phones.                         *)
LEMMA LookedUpPhone == \A raw \in Raws : raw.number \in Phones
BY DEF Raws

LEMMA AskedPhone ==
  ASSUME Shape, NEW c \in Entrypoints, Ask(c)
  PROVE  call[c].raw \in Raws
BY DEF Ask, Shape

(* Who changes the clock, the platform and the cache.                      *)
LEMMA Timekeepers ==
  ASSUME [Next]_vars
  PROVE  \/ UNCHANGED <<cache, lookup, truth, now>>
         \/ \E p \in Phones : PlatformChanges(p)
         \/ Tick
         \/ \E c \in Calls : Lookup(c)
         \/ Restart
         \/ UNCHANGED <<cache, truth, now>> /\ \E c \in Others : OtherLooksUp(c)
         \/ UNCHANGED <<cache, truth, now>> /\ \E c \in Entrypoints : Ask(c)
         \/ UNCHANGED <<cache, truth, now>>
            /\ \E c \in Calls : lookup' = [lookup EXCEPT ![c] = [state |-> "idle"]]
<1>1. CASE UNCHANGED vars
  BY <1>1 DEF vars, loaderVars
<1>2. CASE Loader
  BY <1>2 DEF Loader, Reload
<1>3. ASSUME NEW c \in Others, OtherLooksUp(c) \/ OtherHasLookedUp(c)
      PROVE  /\ UNCHANGED <<cache, truth, now>>
             /\ OtherLooksUp(c) \/ lookup' = [lookup EXCEPT ![c] = [state |-> "idle"]]
  BY <1>3 DEF OtherLooksUp, OtherHasLookedUp, ResolvePhone
<1>4. ASSUME NEW c \in Entrypoints, Own(c), ~Ask(c), ~Leave(c)
      PROVE  UNCHANGED <<cache, lookup, truth, now>>
  BY <1>4 DEF Own, Arrive, Step, Route, Block, RouteToDefault, HistoryArrives, PipelineRaises,
              WarmUp, CreateRecord, CreateFails, Build, BuildRaises, StartSession, Connect,
              StartRaises, JobEnds, Finish, FinalLands, FinalFails, loaderVars
<1>5. ASSUME NEW c \in Entrypoints, Ask(c) PROVE UNCHANGED <<cache, truth, now>>
  BY <1>5 DEF Ask, ResolvePhone
<1>6. ASSUME NEW c \in Entrypoints, Leave(c)
      PROVE  UNCHANGED <<cache, truth, now>> /\ lookup' = [lookup EXCEPT ![c] = [state |-> "idle"]]
  BY <1>6 DEF Leave
<1>7. Others \subseteq Calls
  BY DEF Others
<1>. QED BY <1>1, <1>2, <1>3, <1>4, <1>5, <1>6, <1>7 DEF Next, Own, FetchEnds, Lookup

(* A lookup hands out what is fresh.                                       *)
LEMMA YoungIsFresh ==
  ASSUME Timely, NEW p \in Phones, Young(p)
  PROVE  Fresh(p, cache[p].version)
<1>1. /\ cache[p].version \in 1 .. MaxVersion /\ cache[p].at \in Nat
      /\ cache[p].at <= retired[p][cache[p].version] + Flight
      /\ now - cache[p].at < Ttl
  BY DEF Timely, Kept, Young
<1>2. now \in Nat /\ retired[p][cache[p].version] \in Nat
  BY <1>1 DEF Timely, Clocked
<1>. QED BY <1>1, <1>2 DEF Fresh

LEMMA ResolvesFresh ==
  ASSUME Shape, Timely, NEW c \in Calls, NEW raw \in Raws, ResolvePhone(c, raw)
  PROVE  /\ \A d \in Calls \ {c} : lookup'[d] = lookup[d]
         /\ lookup'[c].state = "done" =>
              \/ lookup'[c].config.kind # "platform"
              \/ \E p \in Phones : Fresh(p, lookup'[c].config.version)
         /\ Asked(c)' /\ Brought(c)'
<1>. DEFINE p == raw.number
<1>1. p \in Phones
  BY LookedUpPhone
<1>2. \/ \E f, meta : lookup' = [lookup EXCEPT ![c] = Done(OfFile(f, meta))]
      \/ Young(p) /\ lookup' = [lookup EXCEPT ![c] = Done(Cached(p))]
      \/ lookup' = [lookup EXCEPT ![c] = Done(NoConfig)]
      \/ lookup' = [lookup EXCEPT ![c] = [state |-> "asked", phone |-> p, since |-> now]]
  <2>1. ASSUME lookup' = [lookup EXCEPT ![c] =
                 CASE byPhone[p] # NoFile -> Done(OfFile(byPhone[p], NoExperiment))
                   [] byPhone[p] = NoFile /\ Young(p) -> Done(Cached(p))
                   [] byPhone[p] = NoFile /\ ~Young(p) /\ ~hasKey -> Done(NoConfig)
                   [] OTHER -> [state |-> "asked", phone |-> p, since |-> now]]
        PROVE  \/ lookup' = [lookup EXCEPT ![c] = Done(OfFile(byPhone[p], NoExperiment))]
               \/ Young(p) /\ lookup' = [lookup EXCEPT ![c] = Done(Cached(p))]
               \/ lookup' = [lookup EXCEPT ![c] = Done(NoConfig)]
               \/ lookup' = [lookup EXCEPT ![c] = [state |-> "asked", phone |-> p, since |-> now]]
    <3>1. CASE byPhone[p] # NoFile
      BY <2>1, <3>1
    <3>2. CASE byPhone[p] = NoFile /\ Young(p)
      BY <2>1, <3>2
    <3>3. CASE byPhone[p] = NoFile /\ ~Young(p) /\ ~hasKey
      BY <2>1, <3>3
    <3>4. CASE byPhone[p] = NoFile /\ ~Young(p) /\ hasKey
      BY <2>1, <3>4
    <3>. QED BY <3>1, <3>2, <3>3, <3>4
  <2>2. ASSUME NEW f \in experiments[p], lookup' = [lookup EXCEPT ![c] = Done(OfFile(f, f.variant))]
        PROVE  \E g, meta : lookup' = [lookup EXCEPT ![c] = Done(OfFile(g, meta))]
    BY <2>2
  <2>. QED BY <2>1, <2>2 DEF ResolvePhone, Normalize
<1>3. ASSUME NEW x, lookup' = [lookup EXCEPT ![c] = x]
      PROVE  lookup'[c] = x /\ \A d \in Calls \ {c} : lookup'[d] = lookup[d]
  BY <1>3 DEF Shape
<1>4. now' = now
  BY DEF ResolvePhone
<1>5. CASE \E f, meta : lookup' = [lookup EXCEPT ![c] = Done(OfFile(f, meta))]
  <2>1. PICK f, meta : lookup' = [lookup EXCEPT ![c] = Done(OfFile(f, meta))]
    BY <1>5
  <2>2. lookup'[c] = Done(OfFile(f, meta)) /\ \A d \in Calls \ {c} : lookup'[d] = lookup[d]
    BY <1>3, <2>1
  <2>3. /\ Done(OfFile(f, meta)).state = "done"
        /\ Done(OfFile(f, meta)).config.kind = "file"
    BY DEF Done, OfFile
  <2>. QED BY <2>2, <2>3 DEF Asked, Brought
<1>6. CASE Young(p) /\ lookup' = [lookup EXCEPT ![c] = Done(Cached(p))]
  <2>1. Cached(p) = OfPlatform(cache[p].version)
    BY <1>6 DEF Young, Cached
  <2>2. Done(Cached(p)).state = "done" /\ Done(Cached(p)).config.version = cache[p].version
    BY <2>1 DEF Done, OfPlatform
  <2>. QED BY <1>1, <1>3, <1>6, <2>2, YoungIsFresh DEF Asked, Brought
<1>7. CASE lookup' = [lookup EXCEPT ![c] = Done(NoConfig)]
  <2>1. lookup'[c] = Done(NoConfig) /\ \A d \in Calls \ {c} : lookup'[d] = lookup[d]
    BY <1>3, <1>7
  <2>2. Done(NoConfig).state = "done" /\ Done(NoConfig).config.kind = "none"
    BY DEF Done, NoConfig
  <2>. QED BY <2>1, <2>2 DEF Asked, Brought
<1>8. CASE lookup' = [lookup EXCEPT ![c] = [state |-> "asked", phone |-> p, since |-> now]]
  <2>. DEFINE x == [state |-> "asked", phone |-> p, since |-> now]
  <2>1. lookup'[c] = x /\ \A d \in Calls \ {c} : lookup'[d] = lookup[d]
    BY <1>3, <1>8
  <2>2. x.state = "asked" /\ x.phone = p /\ x.since = now
    OBVIOUS
  <2>3. now \in Nat /\ now <= now + Flight
    BY DEF Timely, Clocked
  <2>. HIDE DEF x, p
  <2>. QED BY <1>1, <1>4, <2>1, <2>2, <2>3 DEF Asked, Brought
<1>. QED BY <1>2, <1>5, <1>6, <1>7, <1>8

LEMMA ArrivesFresh ==
  ASSUME Timely, NEW c \in Calls, AnswerArrives(c), lookup[c].version # 0
  PROVE  /\ lookup[c].phone \in Phones /\ lookup[c].version \in 1 .. MaxVersion
         /\ now <= retired[lookup[c].phone][lookup[c].version] + Flight
         /\ Fresh(lookup[c].phone, lookup[c].version)
<1>. DEFINE v == lookup[c].version
            p == lookup[c].phone
<1>1. /\ p \in Phones /\ v \in 1 .. MaxVersion /\ lookup[c].since \in Nat
      /\ lookup[c].since <= retired[p][v] /\ now <= lookup[c].since + Flight
  BY DEF Timely, Asked, Brought, AnswerArrives
<1>2. now \in Nat /\ retired[p][v] \in Nat
  BY <1>1 DEF Timely, Clocked
<1>. QED BY <1>1, <1>2 DEF Fresh

(* Only the lookups' phones and times matter to the invariant.             *)
LEMMA TimelyIfUntouched ==
  ASSUME Timely, UNCHANGED <<truth, now>>, DOMAIN cache' = Phones,
         \A c \in Calls : (Asked(c) /\ Brought(c))', \A p \in Phones : Kept(p)'
  PROVE  Timely'
BY DEF Timely, Clocked, Current, truth

LEMMA KeptIfSame ==
  ASSUME Timely, UNCHANGED <<cache, truth, now>>
  PROVE  \A p \in Phones : Kept(p)'
BY DEF Timely, Kept, truth

LEMMA TimelyLookup ==
  ASSUME Shape, Timely, NEW c \in Calls, Lookup(c)
  PROVE  Timely'
<1>1. UNCHANGED <<truth, now>> /\ \A d \in Calls \ {c} : lookup'[d] = lookup[d]
  BY LookupMoves DEF Lookup, PlatformAnswers, AnswerArrives, FetchFails
<1>2. \A d \in Calls \ {c} : (Asked(d) /\ Brought(d))'
  BY <1>1 DEF Timely, Asked, Brought, truth
<1>3. CASE PlatformAnswers(c)
  <2>1. /\ lookup'[c].state = "answered" /\ lookup'[c].phone = lookup[c].phone
        /\ lookup'[c].since = lookup[c].since
        /\ lookup'[c].version = platform[lookup[c].phone] /\ lookup[c].state = "asked"
        /\ cache' = cache
    BY <1>3 DEF PlatformAnswers, Shape
  <2>2. /\ lookup[c].phone \in Phones /\ lookup[c].since \in Nat
        /\ lookup[c].since <= now /\ now <= lookup[c].since + Flight
    BY <2>1 DEF Timely, Asked
  <2>3. platform[lookup[c].phone] \in 0 .. MaxVersion
    BY <2>2 DEF Timely, Clocked
  <2>4. platform[lookup[c].phone] # 0 =>
          lookup[c].since <= retired[lookup[c].phone][platform[lookup[c].phone]]
    BY <2>2 DEF Timely, Clocked, Current, Never
  <2>5. (Asked(c) /\ Brought(c))'
    BY <1>1, <2>1, <2>2, <2>3, <2>4 DEF Asked, Brought, truth
  <2>. QED BY <1>1, <1>2, <2>1, <2>5, KeptIfSame, TimelyIfUntouched DEF Timely, Clocked
<1>4. CASE AnswerArrives(c)
  <2>. DEFINE v == lookup[c].version
              p == lookup[c].phone
  <2>1. lookup'[c].state = "done"
    BY <1>4 DEF AnswerArrives, Shape, Done
  <2>2. (Asked(c) /\ Brought(c))'
    BY <2>1 DEF Asked, Brought
  <2>3. CASE v = 0
    <3>1. cache' = cache
      BY <1>4, <2>3 DEF AnswerArrives
    <3>. QED BY <1>1, <1>2, <2>2, <3>1, KeptIfSame, TimelyIfUntouched DEF Timely, Clocked
  <2>4. CASE v # 0
    <3>1. cache' = [cache EXCEPT ![p] = [version |-> v, at |-> now]]
      BY <1>4, <2>4 DEF AnswerArrives
    <3>2. DOMAIN cache = Phones /\ now \in Nat
      BY DEF Timely, Clocked
    <3>3. /\ DOMAIN cache' = Phones /\ \A q \in Phones \ {p} : cache'[q] = cache[q]
          /\ cache'[p].version = v /\ cache'[p].at = now
      BY <1>4, <2>4, <3>1, <3>2, ArrivesFresh
    <3>4. \A q \in Phones \ {p} : Kept(q)'
      BY <1>1, <3>3 DEF Timely, Kept, truth
    <3>5. p \in Phones /\ v \in 1 .. MaxVersion /\ now <= retired[p][v] + Flight
      BY <1>4, <2>4, ArrivesFresh
    <3>6. ASSUME NEW q \in Phones, q = p PROVE Kept(q)'
      <4>1. cache'[q].version = v /\ cache'[q].at = now /\ retired' = retired /\ now' = now
        BY <1>1, <3>3, <3>6 DEF truth
      <4>. HIDE DEF v, p
      <4>. QED BY <3>2, <3>5, <3>6, <4>1 DEF Kept
    <3>. QED BY <1>1, <1>2, <2>2, <3>3, <3>4, <3>6, TimelyIfUntouched
  <2>. QED BY <2>3, <2>4
<1>5. CASE FetchFails(c)
  <2>1. lookup'[c].state = "done" /\ cache' = cache
    BY <1>5 DEF FetchFails, Shape, Done
  <2>2. (Asked(c) /\ Brought(c))'
    BY <2>1 DEF Asked, Brought
  <2>. QED BY <1>1, <1>2, <2>1, <2>2, KeptIfSame, TimelyIfUntouched DEF Timely, Clocked
<1>. QED BY <1>3, <1>4, <1>5 DEF Lookup

(* A version that is retired now was there until now.                      *)
LEMMA TimelyPlatform ==
  ASSUME Timely, NEW p \in Phones, PlatformChanges(p)
  PROVE  Timely'
<1>1. UNCHANGED <<cache, lookup, now>> /\ now \in Nat /\ now <= MaxNow
  BY DEF PlatformChanges, Timely, Clocked
<1>2. /\ platform \in [Phones -> 0 .. MaxVersion]
      /\ retired \in [Phones -> [1 .. MaxVersion -> Nat]]
  BY DEF Timely, Clocked
<1>3. PICK v \in 0 .. MaxVersion :
        /\ platform' = [platform EXCEPT ![p] = v]
        /\ v # 0 => retired[p][v] = Never /\ v # platform[p]
  BY DEF PlatformChanges, Unused
<1>4. platform' \in [Phones -> 0 .. MaxVersion]
  BY <1>2, <1>3
<1>5. \/ platform[p] = 0 /\ retired' = retired
      \/ /\ platform[p] \in 1 .. MaxVersion
         /\ retired' = [retired EXCEPT ![p] = [retired[p] EXCEPT ![platform[p]] = now]]
  <2>1. CASE platform[p] = 0
    BY <2>1 DEF PlatformChanges, Retire
  <2>2. CASE platform[p] # 0
    BY <1>2, <2>2 DEF PlatformChanges, Retire
  <2>. QED BY <2>1, <2>2
<1>6. retired' \in [Phones -> [1 .. MaxVersion -> Nat]]
  <2>1. [retired[p] EXCEPT ![platform[p]] = now] \in [1 .. MaxVersion -> Nat]
    BY <1>1, <1>2
  <2>. QED BY <1>2, <1>5, <2>1
<1>7. ASSUME NEW q \in Phones, NEW w \in 1 .. MaxVersion
      PROVE  \/ retired'[q][w] = retired[q][w]
             \/ q = p /\ w = platform[p] /\ retired'[q][w] = now
  BY <1>2, <1>5
<1>8. Current'
  <2>1. ASSUME NEW q \in Phones, platform'[q] # 0 PROVE retired'[q][platform'[q]] = Never
    <3>1. CASE q = p
      <4>1. platform'[q] = v /\ v \in 1 .. MaxVersion
        BY <1>2, <1>3, <2>1, <3>1
      <4>. QED BY <1>3, <1>7, <3>1, <4>1
    <3>2. CASE q # p
      <4>1. platform'[q] = platform[q] /\ platform[q] \in 1 .. MaxVersion
        BY <1>2, <1>3, <2>1, <3>2
      <4>. QED BY <1>7, <3>2, <4>1 DEF Timely, Current
    <3>. QED BY <3>1, <3>2
  <2>. QED BY <2>1 DEF Current, Never
<1>9. ASSUME NEW c \in Calls PROVE (Asked(c) /\ Brought(c))'
  <2>1. Asked(c) /\ Brought(c)
    BY DEF Timely
  <2>2. Asked(c)'
    BY <1>1, <2>1 DEF Asked
  <2>3. CASE lookup[c].state = "answered" /\ lookup[c].version # 0
    <3>1. /\ lookup[c].phone \in Phones /\ lookup[c].version \in 1 .. MaxVersion
          /\ lookup[c].since <= now
          /\ lookup[c].since <= retired[lookup[c].phone][lookup[c].version]
      BY <2>1, <2>3 DEF Asked, Brought
    <3>2. lookup[c].since <= retired'[lookup[c].phone][lookup[c].version]
      BY <1>7, <3>1
    <3>. QED BY <1>1, <2>1, <2>2, <3>2 DEF Brought
  <2>4. CASE ~(lookup[c].state = "answered" /\ lookup[c].version # 0)
    BY <1>1, <2>1, <2>2, <2>4 DEF Brought
  <2>. QED BY <2>3, <2>4
<1>10. ASSUME NEW q \in Phones PROVE Kept(q)'
  <2>1. Kept(q) /\ cache'[q] = cache[q]
    BY <1>1 DEF Timely
  <2>2. CASE cache[q].version # 0
    <3>1. /\ cache[q].version \in 1 .. MaxVersion /\ cache[q].at \in Nat /\ cache[q].at <= now
          /\ cache[q].at <= retired[q][cache[q].version] + Flight
      BY <2>1, <2>2 DEF Kept
    <3>2. cache[q].at <= retired'[q][cache[q].version] + Flight
      BY <1>1, <1>7, <3>1
    <3>. QED BY <1>1, <2>1, <3>2 DEF Kept
  <2>3. CASE cache[q].version = 0
    BY <1>1, <2>1, <2>3 DEF Kept
  <2>. QED BY <2>2, <2>3
<1>11. Clocked'
  BY <1>1, <1>4, <1>6 DEF Timely, Clocked
<1>. QED BY <1>8, <1>9, <1>10, <1>11 DEF Timely

LEMMA TimelyTick ==
  ASSUME Timely, Tick
  PROVE  Timely'
<1>1. /\ UNCHANGED <<cache, lookup, truth>> /\ now \in Nat /\ now' = now + 1 /\ now' <= MaxNow
  BY DEF Tick, Timely, Clocked
<1>2. Clocked' /\ Current'
  BY <1>1 DEF Timely, Clocked, Current, truth
<1>3. ASSUME NEW c \in Calls PROVE (Asked(c) /\ Brought(c))'
  <2>1. Asked(c) /\ Brought(c)
    BY DEF Timely
  <2>2. lookup[c].state \in {"asked", "answered"} => now < lookup[c].since + Flight
    BY DEF Tick
  <2>3. Brought(c)'
    BY <1>1, <2>1 DEF Brought, truth
  <2>4. Asked(c)'
    BY <1>1, <2>1, <2>2 DEF Asked
  <2>. QED BY <2>3, <2>4
<1>4. ASSUME NEW p \in Phones PROVE Kept(p)'
  BY <1>1 DEF Timely, Kept, truth
<1>. QED BY <1>2, <1>3, <1>4 DEF Timely

LEMMA TimelyRestart ==
  ASSUME Shape, Timely, Restart
  PROVE  Timely'
<1>1. /\ UNCHANGED <<truth, now>> /\ now \in Nat
      /\ cache' = [p \in Phones |-> [version |-> 0, at |-> 0]]
  BY DEF Restart, Timely, Clocked
<1>2. \A p \in Phones : Kept(p)'
  BY <1>1 DEF Kept
<1>3. ASSUME NEW c \in Calls PROVE (Asked(c) /\ Brought(c))'
  <2>1. lookup'[c].state \notin {"asked", "answered"}
    BY DEF Restart
  <2>. QED BY <2>1 DEF Asked, Brought
<1>. QED BY <1>1, <1>2, <1>3, TimelyIfUntouched

LEMMA TimelyResolve ==
  ASSUME Shape, Timely, NEW c \in Calls, NEW raw \in Raws, ResolvePhone(c, raw),
         UNCHANGED <<cache, truth, now>>
  PROVE  Timely'
<1>1. \A d \in Calls : (Asked(d) /\ Brought(d))'
  <2>1. (Asked(c) /\ Brought(c))'
    BY ResolvesFresh
  <2>2. ASSUME NEW d \in Calls \ {c} PROVE (Asked(d) /\ Brought(d))'
    <3>1. lookup'[d] = lookup[d]
      BY ResolvesFresh
    <3>. QED BY <3>1 DEF Timely, Asked, Brought, truth
  <2>. QED BY <2>1, <2>2
<1>. QED BY <1>1, KeptIfSame, TimelyIfUntouched DEF Timely, Clocked

LEMMA TimelyStep == Shape /\ Timely /\ [Next]_vars => Timely'
<1> SUFFICES ASSUME Shape, Timely, [Next]_vars PROVE Timely'
  OBVIOUS
<1>1. CASE UNCHANGED <<cache, lookup, truth, now>>
  BY <1>1 DEF Timely, Clocked, Current, Asked, Brought, Kept, truth
<1>2. ASSUME UNCHANGED <<cache, truth, now>>, NEW c \in Others, OtherLooksUp(c) PROVE Timely'
  BY <1>2, TimelyResolve DEF OtherLooksUp, Others
<1>3. ASSUME UNCHANGED <<cache, truth, now>>, NEW c \in Entrypoints, Ask(c) PROVE Timely'
  BY <1>3, TimelyResolve, AskedPhone DEF Ask
<1>4. ASSUME UNCHANGED <<cache, truth, now>>, NEW c \in Calls,
             lookup' = [lookup EXCEPT ![c] = [state |-> "idle"]]
      PROVE  Timely'
  <2>1. ASSUME NEW d \in Calls PROVE (Asked(d) /\ Brought(d))'
    <3>1. lookup'[d] = lookup[d] \/ lookup'[d].state = "idle"
      BY <1>4 DEF Shape
    <3>. QED BY <1>4, <3>1 DEF Timely, Asked, Brought, truth
  <2>. QED BY <1>4, <2>1, KeptIfSame, TimelyIfUntouched DEF Timely, Clocked
<1>. QED
  BY <1>1, <1>2, <1>3, <1>4, Timekeepers, TimelyLookup, TimelyPlatform, TimelyTick, TimelyRestart

LEMMA StaysFresh ==
  ASSUME Shape, Timely, [Next]_vars, NEW c \in Calls,
         lookup[c].state # "done", lookup'[c].state = "done"
  PROVE  \/ lookup'[c].config.kind # "platform"
         \/ \E p \in Phones : Fresh(p, lookup'[c].config.version)
         \/ FetchFails(c)
<1>1. lookup'[c] # lookup[c]
  OBVIOUS
<1>2. ASSUME NEW d \in Calls, NEW raw \in Raws, ResolvePhone(d, raw)
      PROVE  \/ lookup'[c].config.kind # "platform"
             \/ \E p \in Phones : Fresh(p, lookup'[c].config.version)
  <2>1. d = c
    BY <1>1, <1>2, ResolvesFresh
  <2>. QED BY <1>2, <2>1, ResolvesFresh
<1>3. ASSUME NEW d \in Calls, Lookup(d)
      PROVE  \/ lookup'[c].config.kind # "platform"
             \/ \E p \in Phones : Fresh(p, lookup'[c].config.version)
             \/ FetchFails(c)
  <2>1. d = c
    BY <1>1, <1>3, LookupMoves
  <2>2. CASE PlatformAnswers(c)
    BY <2>2 DEF PlatformAnswers, Shape
  <2>3. CASE AnswerArrives(c) /\ lookup[c].version = 0
    BY <2>3 DEF AnswerArrives, Shape, Done, NoConfig
  <2>4. CASE AnswerArrives(c) /\ lookup[c].version # 0
    <3>1. lookup'[c] = Done(OfPlatform(lookup[c].version))
      BY <2>4 DEF AnswerArrives, Shape
    <3>2. lookup'[c].config.version = lookup[c].version
      BY <3>1 DEF Done, OfPlatform
    <3>. QED BY <2>4, <3>2, ArrivesFresh
  <2>. QED BY <1>3, <2>1, <2>2, <2>3, <2>4 DEF Lookup
<1>4. CASE Restart
  BY <1>4 DEF Restart
<1>5. ASSUME NEW d \in Calls, lookup' = [lookup EXCEPT ![d] = [state |-> "idle"]]
      PROVE  FALSE
  BY <1>5 DEF Shape
<1>6. ASSUME NEW d \in Others, OtherLooksUp(d)
      PROVE  \E raw \in Raws : ResolvePhone(d, raw) /\ d \in Calls
  BY <1>6 DEF OtherLooksUp, Others
<1>7. ASSUME NEW d \in Entrypoints, Ask(d)
      PROVE  ResolvePhone(d, call[d].raw) /\ call[d].raw \in Raws /\ d \in Calls
  BY <1>7, AskedPhone DEF Ask
<1>8. CASE \E p \in Phones : PlatformChanges(p)
  BY <1>1, <1>8 DEF PlatformChanges
<1>9. CASE Tick
  BY <1>1, <1>9 DEF Tick
<1>. QED BY <1>1, <1>2, <1>3, <1>4, <1>5, <1>6, <1>7, <1>8, <1>9, Timekeepers

(* No lookup hands out a configuration the platform gave up longer ago     *)
(* than the cache's time and one request, unless the platform could not be *)
(* asked (loader.py, get_by_phone), for any times and any interleaving of  *)
(* lookups, changes, reloads and restarts.                                 *)
THEOREM ConfigStaysFresh == Spec => FreshConfig
<1>1. Shape /\ Timely /\ [Next]_vars =>
        [\A c \in Calls : lookup[c].state # "done" /\ lookup'[c].state = "done" =>
           \/ lookup'[c].config.kind # "platform"
           \/ \E p \in Phones : Fresh(p, lookup'[c].config.version)
           \/ FetchFails(c)]_lookup
  BY StaysFresh
<1>. QED BY <1>1, ShapeHolds, InitTimely, TimelyStep, PTL DEF Spec, FreshConfig

-----------------------------------------------------------------------------
(* The routing.                                                            *)
(* A nonempty set of places has a first and a last.                        *)
LEMMA FirstPlace ==
  ASSUME NEW S \in SUBSET Nat, S # {}
  PROVE  Min(S) \in S /\ \A y \in S : Min(S) <= y
<1>1. PICK R : IsWellFoundedOn(R, Nat) /\ \A x, y \in Nat : y < x => <<y, x>> \in R
  <2>. DEFINE R == {ss \in Nat \X Nat : ss[1] < ss[2]}
  <2>1. IsWellFoundedOn(R, Nat)
    BY NatLessThanWellFounded DEF OpToRel
  <2>2. \A x, y \in Nat : y < x => <<y, x>> \in R
    OBVIOUS
  <2>. QED BY <2>1, <2>2
<1>2. S \subseteq Nat
  OBVIOUS
<1>3. PICK x \in S : \A y \in S : ~ (<<y, x>> \in R)
  BY <1>1, <1>2, WFMin
<1>4. ASSUME NEW y \in S PROVE x <= y
  <2>1. x \in Nat /\ y \in Nat
    BY <1>2
  <2>2. ~ (y < x)
    BY <1>1, <1>3, <2>1, Zenon
  <2>. QED BY <2>1, <2>2
<1>. QED BY <1>4 DEF Min

LEMMA LastPlace ==
  ASSUME NEW n \in Nat, NEW S \in SUBSET (1 .. n), S # {}
  PROVE  Max(S) \in S
<1>. DEFINE T == {m \in Nat : \E x \in S : x + m = n}
<1>1. T # {}
  <2>1. PICK x \in S : x \in 1 .. n
    OBVIOUS
  <2>2. n - x \in Nat /\ x + (n - x) = n
    BY <2>1
  <2>. QED BY <2>1, <2>2
<1>2. Min(T) \in T /\ \A m \in T : Min(T) <= m
  BY <1>1, FirstPlace
<1>3. PICK x \in S : x + Min(T) = n
  BY <1>2
<1>4. ASSUME NEW y \in S PROVE x >= y
  <2>1. n - y \in T
    OBVIOUS
  <2>. QED BY <1>2, <1>3, <2>1
<1>. QED BY <1>3, <1>4 DEF Max

LEMMA PlacesAreOrdered ==
  ASSUME NEW dir \in Directories, NEW S, S \subseteq DOMAIN dir, S # {}
  PROVE  Min(S) \in S /\ Max(S) \in S
<1>1. Len(dir) \in Nat /\ DOMAIN dir = 1 .. Len(dir)
  BY DirectoryAssumption
<1>2. S \in SUBSET (1 .. Len(dir)) /\ S \in SUBSET Nat
  BY <1>1
<1>. QED BY <1>1, <1>2, FirstPlace, LastPlace

(* Of the files of a directory that loads, those a phone leads to claim it. *)
Files(dir, p) == {dir[i] : i \in {j \in Loaded(dir) : p \in dir[j].phones}}

LEMMA SingleClaims ==
  ASSUME NEW dir \in Directories, NEW p
  PROVE  /\ SingleAt(dir, p) # NoFile =>
              SingleAt(dir, p) \in Files(dir, p) /\ SingleAt(dir, p).experiment = NoExperiment
         /\ SingleAt(dir, p) = NoFile =>
              \A i \in Loaded(dir) : p \in dir[i].phones => i \in Variants(dir)
<1>. DEFINE S == {i \in Singles(dir) : p \in dir[i].phones}
<1>1. S \subseteq Loaded(dir) /\ S \subseteq DOMAIN dir
  BY DEF Singles, Loaded
<1>2. SingleAt(dir, p) = LastOf(dir, S)
  BY DEF SingleAt
<1>3. CASE S = {}
  <2>1. SingleAt(dir, p) = NoFile
    BY <1>2, <1>3 DEF LastOf
  <2>2. \A i \in Loaded(dir) : p \in dir[i].phones => i \in Variants(dir)
    BY <1>3 DEF Variants
  <2>. QED BY <2>1, <2>2
<1>4. CASE S # {}
  <2>1. Max(S) \in S
    BY <1>1, <1>4, PlacesAreOrdered
  <2>2. SingleAt(dir, p) = dir[Max(S)]
    BY <1>2, <1>4 DEF LastOf
  <2>3. dir[Max(S)] # NoFile
    BY <1>1, <2>1, DirectoryAssumption
  <2>4. dir[Max(S)] \in Files(dir, p) /\ dir[Max(S)].experiment = NoExperiment
    BY <1>1, <2>1 DEF Files, Singles
  <2>. QED BY <2>2, <2>3, <2>4
<1>. QED BY <1>3, <1>4

LEMMA CohortClaims ==
  ASSUME NEW dir \in Directories, Loads(dir), NEW p
  PROVE  /\ \A f \in CohortAt(dir, p) : f \in Files(dir, p) /\ f.experiment # NoExperiment
         /\ CohortAt(dir, p) = {} => \A i \in Variants(dir) : p \notin dir[i].phones
<1>. DEFINE S == CohortsOf(dir, p)
<1>1. S \subseteq Variants(dir) /\ Variants(dir) \subseteq Loaded(dir) /\ Loaded(dir) \subseteq DOMAIN dir
  BY DEF CohortsOf, Variants, Loaded
<1>2. ASSUME NEW i \in Variants(dir), NEW j \in Cohort(dir, i)
      PROVE  j \in Variants(dir) /\ dir[j].phones = dir[i].phones /\ Cohort(dir, j) = Cohort(dir, i)
  <2>1. Valid(dir, i)
    BY DEF Loads
  <2>2. j \in Variants(dir) /\ dir[j].slug = dir[i].slug /\ dir[j].experiment = dir[i].experiment
    BY DEF Cohort
  <2>. QED BY <2>1, <2>2 DEF Valid, Cohort
<1>3. ASSUME NEW f \in CohortAt(dir, p) PROVE f \in Files(dir, p) /\ f.experiment # NoExperiment
  <2>1. S # {} /\ \E j \in Cohort(dir, Max(S)) : f = dir[j]
    BY DEF CohortAt
  <2>2. Max(S) \in S
    BY <1>1, <2>1, PlacesAreOrdered
  <2>3. Max(S) \in Variants(dir) /\ p \in dir[Max(S)].phones
    BY <2>2 DEF CohortsOf
  <2>4. PICK j \in Cohort(dir, Max(S)) : f = dir[j]
    BY <2>1
  <2>5. j \in Variants(dir) /\ p \in dir[j].phones
    BY <1>2, <2>3
  <2>. QED BY <1>1, <2>4, <2>5 DEF Files, Variants, Singles
<1>4. ASSUME NEW i \in Variants(dir), p \in dir[i].phones PROVE CohortAt(dir, p) # {}
  <2>1. i \in Cohort(dir, i) /\ Cohort(dir, i) \subseteq DOMAIN dir
    BY <1>1 DEF Cohort
  <2>. DEFINE m == Min(Cohort(dir, i))
  <2>2. m \in Cohort(dir, i)
    BY <2>1, PlacesAreOrdered
  <2>3. m \in Variants(dir) /\ p \in dir[m].phones /\ m = Min(Cohort(dir, m))
    BY <1>2, <1>4, <2>2
  <2>4. m \in S
    BY <2>3 DEF CohortsOf
  <2>5. Max(S) \in S
    BY <1>1, <2>4, PlacesAreOrdered
  <2>6. Max(S) \in Cohort(dir, Max(S))
    BY <1>1, <2>5 DEF Cohort
  <2>. QED BY <2>4, <2>6 DEF CohortAt
<1>. QED BY <1>3, <1>4

(* The indexes are those of the directory they were last loaded from.      *)
Indexed ==
  /\ source \in Directories /\ Loads(source)
  /\ byPhone = [p \in Phones |-> SingleAt(source, p)]
  /\ experiments = [p \in Phones |-> CohortAt(source, p)]

LEMMA LoadableIndexes ==
  ASSUME NEW dir \in Loadable
  PROVE  /\ dir \in Directories /\ Loads(dir)
         /\ Indexes[dir].phones = [p \in Phones |-> SingleAt(dir, p)]
         /\ Indexes[dir].cohorts = [p \in Phones |-> CohortAt(dir, p)]
BY DEF Loadable, Indexes

LEMMA InitIndexed == Init => Indexed
BY LoadableIndexes DEF Init, InitLoader, Indexed

LEMMA IndexIndexes ==
  ASSUME NEW dir \in Loadable, Index(dir)
  PROVE  Indexed'
BY LoadableIndexes DEF Index, Indexed

LEMMA IndexedStep ==
  ASSUME Indexed, [Next]_vars
  PROVE  Indexed'
<1>1. CASE UNCHANGED registry
  BY <1>1 DEF registry, Indexed
<1>2. CASE Reload
  BY <1>1, <1>2, IndexIndexes DEF Reload
<1>3. CASE Restart
  BY <1>3, IndexIndexes DEF Restart
<1>4. CASE UNCHANGED vars
  BY <1>1, <1>4 DEF vars, loaderVars
<1>5. ASSUME NEW p \in Phones, PlatformChanges(p) PROVE UNCHANGED registry
  BY <1>5 DEF PlatformChanges
<1>6. CASE Tick
  BY <1>1, <1>6 DEF Tick
<1>7. ASSUME NEW c \in Calls, Lookup(c) PROVE UNCHANGED registry
  BY <1>7 DEF Lookup, PlatformAnswers, AnswerArrives, FetchFails
<1>8. ASSUME NEW c \in Others, OtherLooksUp(c) \/ OtherHasLookedUp(c) PROVE UNCHANGED registry
  BY <1>8 DEF OtherLooksUp, OtherHasLookedUp, ResolvePhone
<1>9. ASSUME NEW c \in Entrypoints, Own(c) PROVE UNCHANGED registry
  BY <1>9 DEF Own, Arrive, Step, Ask, ResolvePhone, Route, Block, RouteToDefault, HistoryArrives,
              PipelineRaises, WarmUp, CreateRecord, CreateFails, Build, BuildRaises, StartSession,
              Connect, StartRaises, JobEnds, Finish, FinalLands, FinalFails, Leave, loaderVars
<1>. QED BY <1>1, <1>2, <1>3, <1>4, <1>5, <1>6, <1>7, <1>8, <1>9
         DEF Next, Loader, FetchEnds, Lookup, Own

(* A lookup that begins ends at once with a claimant, if there is one.     *)
LEMMA ResolvesRouted ==
  ASSUME Shape, Indexed, NEW c \in Calls, NEW raw \in Raws, ResolvePhone(c, raw)
  PROVE  LookedUp(c, raw.number)
<1>. DEFINE p == raw.number
<1>1. p \in Phones
  BY LookedUpPhone
<1>2. Claimants(p) = Files(source, p)
  BY DEF Claimants, Files, Loaded, ToSet
<1>3. /\ byPhone[p] = SingleAt(source, p) /\ experiments[p] = CohortAt(source, p)
      /\ source \in Directories /\ Loads(source)
  BY <1>1 DEF Indexed
<1>4. lookup[c].state = "idle"
  BY DEF ResolvePhone
<1>5. ASSUME NEW x, lookup' = [lookup EXCEPT ![c] = x]
      PROVE  lookup'[c] = x
  BY <1>5 DEF Shape
<1>6. ASSUME NEW f \in experiments[p], lookup' = [lookup EXCEPT ![c] = Done(OfFile(f, f.variant))]
      PROVE  LookedUp(c, p)
  <2>1. f \in Claimants(p) /\ f.experiment # NoExperiment
    BY <1>2, <1>3, CohortClaims
  <2>2. lookup'[c] = Done(OfFile(f, f.variant))
    BY <1>5, <1>6
  <2>. QED BY <1>4, <2>1, <2>2 DEF LookedUp, Routed, Done, OfFile
<1>7. ASSUME byPhone[p] # NoFile, lookup' = [lookup EXCEPT ![c] = Done(OfFile(byPhone[p], NoExperiment))]
      PROVE  LookedUp(c, p)
  <2>1. byPhone[p] \in Claimants(p) /\ byPhone[p].experiment = NoExperiment
    BY <1>2, <1>3, <1>7, SingleClaims
  <2>2. lookup'[c] = Done(OfFile(byPhone[p], NoExperiment))
    BY <1>5, <1>7
  <2>. QED BY <1>4, <2>1, <2>2 DEF LookedUp, Routed, Done, OfFile
<1>8. ASSUME experiments[p] = {}, byPhone[p] = NoFile PROVE Claimants(p) = {}
  <2>1. \A i \in Loaded(source) : p \notin source[i].phones
    BY <1>3, <1>8, SingleClaims, CohortClaims
  <2>. QED BY <1>2, <2>1 DEF Files
<1>9. ASSUME experiments[p] = {}, byPhone[p] = NoFile,
             \/ lookup' = [lookup EXCEPT ![c] = Done(Cached(p))]
             \/ lookup' = [lookup EXCEPT ![c] = Done(NoConfig)]
             \/ lookup' = [lookup EXCEPT ![c] = [state |-> "asked", phone |-> p, since |-> now]]
      PROVE  LookedUp(c, p)
  <2>1. \/ lookup'[c] = Done(Cached(p))
        \/ lookup'[c] = Done(NoConfig)
        \/ lookup'[c] = [state |-> "asked", phone |-> p, since |-> now]
    BY <1>5, <1>9
  <2>2. Cached(p).kind # "file" /\ NoConfig.kind # "file"
    BY DEF Cached, NoConfig, OfPlatform
  <2>3. lookup'[c].state # "idle" /\ (lookup'[c].state = "done" => lookup'[c].config.kind # "file")
    BY <2>1, <2>2 DEF Done
  <2>. QED BY <1>4, <1>8, <1>9, <2>3 DEF LookedUp
<1>10. ASSUME experiments[p] = {}, lookup' = [lookup EXCEPT ![c] =
                 CASE byPhone[p] # NoFile -> Done(OfFile(byPhone[p], NoExperiment))
                   [] byPhone[p] = NoFile /\ Young(p) -> Done(Cached(p))
                   [] byPhone[p] = NoFile /\ ~Young(p) /\ ~hasKey -> Done(NoConfig)
                   [] OTHER -> [state |-> "asked", phone |-> p, since |-> now]]
       PROVE  LookedUp(c, p)
  <2>1. CASE byPhone[p] # NoFile
    BY <1>7, <1>10, <2>1
  <2>2. CASE byPhone[p] = NoFile /\ Young(p)
    BY <1>9, <1>10, <2>2
  <2>3. CASE byPhone[p] = NoFile /\ ~Young(p) /\ ~hasKey
    BY <1>9, <1>10, <2>3
  <2>4. CASE byPhone[p] = NoFile /\ ~Young(p) /\ hasKey
    BY <1>9, <1>10, <2>4
  <2>. QED BY <2>1, <2>2, <2>3, <2>4
<1>. QED BY <1>6, <1>10 DEF ResolvePhone, Normalize

(* No other step begins a lookup.                                          *)
LEMMA OnlyResolveBegins ==
  ASSUME Shape, [Next]_vars, NEW c \in Calls, lookup[c].state = "idle", lookup'[c].state # "idle"
  PROVE  \E raw \in Raws : ResolvePhone(c, raw)
<1>1. ASSUME NEW d \in Calls, Lookup(d) PROVE FALSE
  BY <1>1, LookupMoves DEF Lookup, PlatformAnswers, AnswerArrives, FetchFails, Shape
<1>2. ASSUME NEW d \in Calls, d # c, NEW x, lookup' = [lookup EXCEPT ![d] = x] PROVE FALSE
  BY <1>2 DEF Shape
<1>3. ASSUME NEW d \in Calls, lookup' = [lookup EXCEPT ![d] = [state |-> "idle"]] PROVE FALSE
  BY <1>2, <1>3 DEF Shape
<1>4. ASSUME NEW d \in Calls, NEW raw \in Raws, ResolvePhone(d, raw) PROVE d = c
  BY <1>4, ResolveMoves DEF Shape
<1>5. CASE Restart
  BY <1>5 DEF Restart
<1>6. ASSUME NEW d \in Others, OtherLooksUp(d) PROVE \E raw \in Raws : ResolvePhone(c, raw)
  BY <1>4, <1>6 DEF OtherLooksUp, Others
<1>7. ASSUME NEW d \in Entrypoints, Ask(d) PROVE \E raw \in Raws : ResolvePhone(c, raw)
  BY <1>4, <1>7, AskedPhone DEF Ask
<1>. QED BY <1>1, <1>3, <1>5, <1>6, <1>7, Timekeepers DEF PlatformChanges, Tick

LEMMA StepRoutes ==
  ASSUME Shape, Indexed, [Next]_vars, NEW c \in Calls,
         lookup[c].state = "idle", lookup'[c].state # "idle"
  PROVE  \E p \in Phones : LookedUp(c, p)
BY OnlyResolveBegins, ResolvesRouted, LookedUpPhone

(* Whatever reloads, restarts and failed reloads came before, a phone is   *)
(* routed to a file that claims it in the directory last loaded, a variant *)
(* under its own name, and to none when none does (config/loader.py).      *)
THEOREM PhonesReachClaimants == Spec => RoutedToClaimant
<1>1. Shape /\ Indexed /\ [Next]_vars =>
        [\A c \in Calls : lookup[c].state = "idle" /\ lookup'[c].state # "idle" =>
            \E p \in Phones : LookedUp(c, p)]_lookup
  BY StepRoutes
<1>2. Indexed /\ [Next]_vars => Indexed'
  BY IndexedStep
<1>. QED
  BY <1>1, <1>2, ShapeHolds, InitIndexed, PTL DEF Spec, RoutedToClaimant
=============================================================================
