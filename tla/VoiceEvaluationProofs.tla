------------------------ MODULE VoiceEvaluationProofs ------------------------
(***************************************************************************)
(* Theorems about VoiceEvaluation for any number of evaluations and calls: *)
(* scripts never overlap, a verdict of "passed" is earned, and the results *)
(* of tools are accounted for.  A verdict stands on the fact that a bridge *)
(* that is gone writes no more events, and that nothing starts it again.   *)
(*                                                                         *)
(* Then about AgentMonitor, the other judge that watches the agent from    *)
(* outside, in each of its modes.  Its invariant (MonitorInv) adds to the  *)
(* properties what the probe has passed before it reached its stage        *)
(* (StagesPassed), that the status a run goes by is the file's (Run), and  *)
(* what becomes of a failure that was told until it is taken back          *)
(* (Remembered).                                                           *)
(***************************************************************************)
EXTENDS VoiceEvaluation, AgentMonitor, FiniteSetTheorems, TLAPS

USE BoundsAssumption DEF BoundsAssumption

(* A call is counted by its room and its position in it. *)
LEMMA RoomLeft ==
  ASSUME NEW r \in Rooms, Made < MaxCalls, Len(calls[r]) \in Nat
  PROVE  CallId(r) \in Positions
<1>1. SUFFICES ASSUME Len(calls[r]) >= MaxCalls PROVE FALSE
  BY DEF CallId, Positions
<1>. DEFINE All == Rooms \X Positions
            Calls == {c \in All : c[2] <= Len(calls[c[1]])}
<1>2. IsFiniteSet(Rooms) /\ IsFiniteSet(Positions) /\ Cardinality(Positions) = MaxCalls
  <2>1. MaxRooms \in Int /\ MaxCalls \in Int /\ 1 \in Int
    OBVIOUS
  <2>2. IsFiniteSet(Rooms)
    BY <2>1, FS_Interval DEF Rooms
  <2>3. IsFiniteSet(Positions) /\ Cardinality(Positions) = IF 1 > MaxCalls THEN 0 ELSE MaxCalls - 1 + 1
    BY <2>1, FS_Interval DEF Positions
  <2>. QED BY <2>2, <2>3
<1>3. IsFiniteSet(All)
  BY <1>2, FS_Product
<1>4. IsFiniteSet(Calls)
  BY <1>3, FS_Subset
<1>5. IsFiniteSet({r}) /\ Cardinality({r}) = 1
  BY FS_Singleton
<1>6. Cardinality({r} \X Positions) = 1 * MaxCalls
  BY <1>2, <1>5, FS_Product
<1>7. {r} \X Positions \subseteq Calls
  BY <1>1 DEF Positions
<1>8. Cardinality({r} \X Positions) <= Cardinality(Calls)
  BY <1>4, <1>7, FS_Subset
<1>9. Made = Cardinality(Calls) /\ Made \in Nat
  BY <1>4, FS_CardinalityType DEF Made
<1>. QED BY <1>6, <1>8, <1>9

-----------------------------------------------------------------------------
LEMMA InitTyped == Init => TypeOK
<1>1. BridgeInit => BridgeTypeOK
  <2>1. <<>> \in Seq(Tools) /\ <<>> \in Seq(Positions)
    OBVIOUS
  <2>2. \A S, T, x : x \in T => [r \in S |-> x] \in [S -> T]
    OBVIOUS
  <2>3. {} \in SUBSET Positions
    OBVIOUS
  <2>4. <<>> \in Seq(Rows) /\ Len(<<>>) <= Newest
    OBVIOUS
  <2>. QED BY <2>1, <2>2, <2>3, <2>4 DEF BridgeInit, BridgeTypeOK
<1>2. Init => runner \in [Rooms -> Alive \cup {"none", "passed", "failed", "killed"}]
  BY DEF Init
<1>3. Init => system \in Systems /\ overdue \in BOOLEAN
  BY DEF Init
<1>4. Init => current \in 0 .. MaxRooms /\ status \in {"idle", "running", "passed", "failed"}
  BY DEF Init
<1>5. Init => BridgeInit
  BY DEF Init
<1>. QED BY <1>1, <1>2, <1>3, <1>4, <1>5 DEF TypeOK

(* A row that is stored is the last one, after the newest before it.       *)
LEMMA StoredRows ==
  ASSUME rows \in Seq(Rows), Len(rows) <= Newest, NEW row \in Rows, Store(row)
  PROVE  /\ rows' \in Seq(Rows) /\ Len(rows') <= Newest
         /\ \A i \in DOMAIN rows' : rows'[i] = row \/ \E j \in DOMAIN rows : rows'[i] = rows[j]
         /\ \A j \in DOMAIN rows : \/ \E i \in DOMAIN rows' : rows'[i] = rows[j]
                                   \/ (Len(rows) = Newest /\ rows[j] = Head(rows))
         /\ \E i \in DOMAIN rows' : rows'[i] = row
<1>a. Len(rows) \in Nat
  OBVIOUS
<1>b. DOMAIN rows = 1 .. Len(rows)
  OBVIOUS
<1>0. DOMAIN rows = 1 .. Len(rows) /\ Len(rows) \in Nat
  BY <1>a, <1>b
<1>1. CASE Len(rows) < Newest
  <2>0. Len(rows) # Newest
    BY <1>a, <1>1
  <2>1. rows' = Append(rows, row)
    BY <2>0, Zenon DEF Store
  <2>2. rows' \in Seq(Rows) /\ Len(rows') = Len(rows) + 1 /\ DOMAIN rows' = 1 .. Len(rows) + 1
    BY <2>1
  <2>3. rows'[Len(rows) + 1] = row /\ \A i \in 1 .. Len(rows) : rows'[i] = rows[i]
    BY <2>1
  <2>4. \A i \in 1 .. Len(rows) + 1 : i \in 1 .. Len(rows) \/ i = Len(rows) + 1
    BY <1>0
  <2>5. Len(rows') <= Newest
    <3>1. Len(rows) + 1 <= Newest
      BY <1>a, <1>1
    <3> QED BY <2>2, <3>1
  <2>6. /\ Len(rows) + 1 \in DOMAIN rows'
        /\ \A i \in 1 .. Len(rows) : i \in DOMAIN rows'
    BY <1>0, <2>2
  <2> QED BY <1>0, <2>2, <2>3, <2>4, <2>5, <2>6
<1>2. CASE Len(rows) = Newest
  <2> DEFINE n == Len(rows)
  <2>0. n \in Nat /\ n >= 1
    BY <1>0, <1>2
  <2>1. rows' = Append(Tail(rows), row)
    BY <1>2 DEF Store
  <2>2. rows # <<>>
    BY <2>0
  <2>3. /\ Tail(rows) \in Seq(Rows) /\ Len(Tail(rows)) = n - 1
        /\ \A i \in 1 .. n - 1 : Tail(rows)[i] = rows[i + 1]
    BY <2>2
  <2>4. rows' \in Seq(Rows) /\ Len(rows') = n /\ DOMAIN rows' = 1 .. n
    BY <2>0, <2>1, <2>3
  <2>5. rows'[n] = row /\ \A i \in 1 .. n - 1 : rows'[i] = rows[i + 1]
    BY <2>0, <2>1, <2>3
  <2>6. Head(rows) = rows[1]
    BY <2>2
  <2>7. /\ \A i \in 1 .. n : i = n \/ (i \in 1 .. n - 1 /\ i + 1 \in 1 .. n)
        /\ \A j \in 1 .. n : j = 1 \/ (j - 1 \in 1 .. n - 1 /\ j - 1 \in 1 .. n /\ (j - 1) + 1 = j)
        /\ n \in 1 .. n
    BY <2>0
  <2> HIDE DEF n
  <2>8. \A i \in DOMAIN rows' : rows'[i] = row \/ \E j \in DOMAIN rows : rows'[i] = rows[j]
    BY <1>0, <2>4, <2>5, <2>7 DEF n
  <2>9. ASSUME NEW j \in DOMAIN rows
        PROVE  (\E i \in DOMAIN rows' : rows'[i] = rows[j]) \/ rows[j] = Head(rows)
    <3>1. j \in 1 .. n
      BY <1>0 DEF n
    <3>2. CASE j = 1
      BY <2>6, <3>2
    <3>3. CASE j # 1
      <4>1. j - 1 \in 1 .. n - 1 /\ j - 1 \in DOMAIN rows' /\ (j - 1) + 1 = j
        BY <2>4, <2>7, <3>1, <3>3
      <4>2. rows'[j - 1] = rows[j]
        BY <2>5, <4>1
      <4> QED BY <4>1, <4>2
    <3> QED BY <3>2, <3>3
  <2>10. Len(rows') <= Newest
    BY <1>2, <2>0, <2>4 DEF n
  <2>11. \E i \in DOMAIN rows' : rows'[i] = row
    BY <2>4, <2>5, <2>7
  <2>12. \A j \in DOMAIN rows : \/ \E i \in DOMAIN rows' : rows'[i] = rows[j]
                                \/ (Len(rows) = Newest /\ rows[j] = Head(rows))
    BY <1>2, <2>9
  <2> QED BY <2>4, <2>8, <2>10, <2>11, <2>12
<1>3. Len(rows) < Newest \/ Len(rows) = Newest
  BY <1>a
<1> QED BY <1>1, <1>2, <1>3

LEMMA StoreTyped ==
  ASSUME TypeOK, NEW row \in Rows, Store(row)
  PROVE  rows' \in Seq(Rows) /\ Len(rows') <= Newest /\ pushedOut' \subseteq Rooms
<1>1. rows' \in Seq(Rows) /\ Len(rows') <= Newest
  BY StoredRows DEF TypeOK, BridgeTypeOK
<1>2. pushedOut' \subseteq Rooms
  BY DEF TypeOK, BridgeTypeOK, Store
<1> QED BY <1>1, <1>2

LEMMA StepTyped == TypeOK /\ [Next]_vars => TypeOK'
<1> SUFFICES ASSUME TypeOK, [Next]_vars PROVE TypeOK'
  OBVIOUS
<1> USE DEF TypeOK, BridgeTypeOK, Tools
<1>1. CASE UNCHANGED vars
  BY <1>1 DEF vars, bridgeVars, evaluationVars
<1>2. CASE Controller
  <2>1. CASE Start
    <3>1. /\ current' \in 0 .. MaxRooms /\ status' \in {"idle", "running", "passed", "failed"}
      BY <2>1 DEF Start
    <3>2. runner' \in [Rooms -> Alive \cup {"none", "passed", "failed", "killed"}]
      BY <2>1 DEF Start, Alive
    <3> QED BY <2>1, <3>1, <3>2 DEF Start, bridgeVars
  <2>2. CASE Collect
    BY <2>2 DEF Collect, bridgeVars, Alive, Rooms
  <2>3. CASE TimeOut
    <3>1. overdue' \in BOOLEAN
      BY <2>3 DEF TimeOut
    <3>2. runner' \in [Rooms -> Alive \cup {"none", "passed", "failed", "killed"}]
      BY <2>3 DEF TimeOut
    <3> QED BY <2>3, <3>1, <3>2 DEF TimeOut, bridgeVars
  <2>4. CASE GiveUp
    BY <2>4 DEF GiveUp, bridgeVars
  <2> QED BY <1>2, <2>1, <2>2, <2>3, <2>4 DEF Controller
<1>3. ASSUME NEW r \in Rooms, Runner(r) PROVE TypeOK'
  <2>1. CASE Reset(r) \/ StartBridge(r) \/ Heard(r) \/ HangUp(r)
    BY <2>1 DEF Reset, StartBridge, Heard, HangUp, Step, Become, OnTrack, toolVars, eventVars,
       evaluationVars, Alive
  <2>2. CASE Breaks(r) \/ Stopped(r) \/ StillRunning(r) \/ Judge(r)
    BY <2>2 DEF Breaks, Stopped, StillRunning, Judge, Step, bridgeVars, Alive
  <2> QED BY <1>3, <2>1, <2>2 DEF Runner
<1>4. ASSUME NEW r \in Rooms, Bridge(r) PROVE TypeOK'
  <2>0. UNCHANGED evaluationVars
    BY <1>4 DEF Bridge
  <2>1. CASE Join(r)
    BY <2>0, <2>1 DEF Join, Become, toolVars, eventVars, evaluationVars
  <2>2. CASE Exit(r)
    BY <2>0, <2>2 DEF Exit, Become, eventVars, evaluationVars
  <2>3. CASE SessionReady(r) \/ SocketCloses(r)
    BY <2>0, <2>3 DEF SessionReady, SocketCloses, Become, toolVars, eventVars, evaluationVars
  <2>4. CASE Transcript(r)
    <3>1. <<r, "talk">> \in Rows /\ Store(<<r, "talk">>)
      BY <2>4 DEF Transcript, Rows, Kinds
    <3>2. rows' \in Seq(Rows) /\ Len(rows') <= Newest /\ pushedOut' \subseteq Rooms
      BY <3>1, StoreTyped
    <3> QED BY <2>0, <2>4, <3>2 DEF Transcript, toolVars, evaluationVars
  <2>5. CASE SessionError(r)
    <3>1. <<r, "error">> \in Rows /\ Store(<<r, "error">>)
      BY <2>5 DEF SessionError, Rows, Kinds
    <3>2. rows' \in Seq(Rows) /\ Len(rows') <= Newest /\ pushedOut' \subseteq Rooms
      BY <3>1, StoreTyped
    <3> QED BY <2>0, <2>5, <3>2 DEF SessionError, Become, toolVars, evaluationVars
  <2>6. CASE ToolCall(r)
    <3>1. calls' \in [Rooms -> Seq(Tools)]
      BY <2>6 DEF ToolCall
    <3>2. pending' \in [Rooms -> Seq(Positions)]
      <4>1. CallId(r) \in Positions
        BY <2>6, RoomLeft DEF ToolCall
      <4> QED BY <2>6, <4>1 DEF ToolCall
    <3>3. PICK tool \in Tools :
            \/ Store(<<r, tool>>) /\ UNCHANGED <<worker, unrecorded>>
            \/ /\ worker' = [worker EXCEPT ![r] = "over"]
               /\ unrecorded' = unrecorded \cup {r} /\ UNCHANGED eventVars
      BY <2>6 DEF ToolCall, Become
    <3>4. rows' \in Seq(Rows) /\ Len(rows') <= Newest /\ pushedOut' \subseteq Rooms
      <4>1. <<r, tool>> \in Rows
        BY DEF Rows, Kinds
      <4>2. CASE Store(<<r, tool>>)
        BY <4>1, <4>2, StoreTyped
      <4>3. CASE UNCHANGED eventVars
        BY <4>3 DEF eventVars
      <4> QED BY <3>3, <4>2, <4>3
    <3>5. worker' \in [Rooms -> {"none", "joining", "waiting", "session", "live", "over", "dead"}]
      BY <3>3
    <3>6. unrecorded' \subseteq Rooms
      BY <3>3
    <3> QED BY <2>0, <2>6, <3>1, <3>2, <3>4, <3>5, <3>6 DEF ToolCall, evaluationVars
  <2>7. CASE ReplyDone(r)
    <3>1. PICK sent \in 0 .. Len(pending[r]) :
            /\ told' = [told EXCEPT ![r] = @ \o SubSeq(pending[r], 1, sent)]
            /\ IF sent < Len(pending[r]) THEN Become(r, "over") ELSE UNCHANGED worker
      BY <2>7 DEF ReplyDone
    <3>2. SubSeq(pending[r], 1, sent) \in Seq(Positions)
      <4>1. pending[r] \in Seq(Positions)
        OBVIOUS
      <4>2. \A i \in 1 .. sent : pending[r][i] \in Positions
        BY <4>1
      <4> QED BY <4>1, <4>2
    <3>3. told[r] \o SubSeq(pending[r], 1, sent) \in Seq(Positions)
      BY <3>2
    <3>4. told' \in [Rooms -> Seq(Positions)] /\ pending' \in [Rooms -> Seq(Positions)]
      BY <2>7, <3>1, <3>3 DEF ReplyDone
    <3>5. worker' \in [Rooms -> {"none", "joining", "waiting", "session", "live", "over", "dead"}]
      BY <3>1 DEF Become
    <3> QED BY <2>0, <2>7, <3>4, <3>5 DEF ReplyDone, eventVars, evaluationVars
  <2>8. CASE ReplyInterrupted(r)
    <3>1. {pending[r][i] : i \in DOMAIN pending[r]} \subseteq Positions
      <4>1. pending[r] \in Seq(Positions)
        OBVIOUS
      <4> QED BY <4>1
    <3>2. interrupted' \in [Rooms -> SUBSET Positions]
      <4>1. interrupted[r] \cup {pending[r][i] : i \in DOMAIN pending[r]} \in SUBSET Positions
        BY <3>1
      <4> QED BY <2>8, <4>1 DEF ReplyInterrupted
    <3>3. pending' \in [Rooms -> Seq(Positions)]
      BY <2>8 DEF ReplyInterrupted
    <3>4. \/ Store(Other) /\ UNCHANGED worker
          \/ Become(r, "over") /\ UNCHANGED eventVars
      BY <2>8 DEF ReplyInterrupted
    <3>5. rows' \in Seq(Rows) /\ Len(rows') <= Newest /\ pushedOut' \subseteq Rooms
      <4>1. CASE Store(Other)
        BY <4>1, StoreTyped DEF Rows
      <4>2. CASE UNCHANGED eventVars
        BY <4>2 DEF eventVars
      <4> QED BY <3>4, <4>1, <4>2
    <3>6. worker' \in [Rooms -> {"none", "joining", "waiting", "session", "live", "over", "dead"}]
      BY <3>4 DEF Become
    <3> QED BY <2>0, <2>8, <3>2, <3>3, <3>5, <3>6 DEF ReplyInterrupted, evaluationVars
  <2> QED BY <1>4, <2>1, <2>2, <2>3, <2>4, <2>5, <2>6, <2>7, <2>8 DEF Bridge, Session
<1>5. CASE Elsewhere
  <2>1. rows' \in Seq(Rows) /\ Len(rows') <= Newest /\ pushedOut' \subseteq Rooms
    BY <1>5, StoreTyped DEF Elsewhere, OtherRow, Rows
  <2> QED BY <1>5, <2>1 DEF Elsewhere, OtherRow, toolVars, evaluationVars
<1> QED BY <1>1, <1>2, <1>3, <1>4, <1>5 DEF Next

-----------------------------------------------------------------------------
(* One script at a time.  One that is overdue is not alive, so giving it   *)
(* up leaves none behind.                                                  *)
Timed == overdue => status = "running" /\ \A r \in Rooms : runner[r] \notin Alive

LEMMA InitOneRunner == Init => OneRunner /\ Timed
BY DEF Init, OneRunner, Timed, Alive

LEMMA StepOneRunner == TypeOK /\ OneRunner /\ Timed /\ [Next]_vars => OneRunner' /\ Timed'
<1> SUFFICES ASSUME TypeOK, OneRunner, Timed, [Next]_vars PROVE OneRunner' /\ Timed'
  OBVIOUS
<1> USE DEF TypeOK, BridgeTypeOK, OneRunner, Timed, Alive
<1>1. CASE UNCHANGED evaluationVars
  BY <1>1 DEF evaluationVars
<1>2. CASE Controller
  <2>1. CASE Start
    BY <2>1 DEF Start, Rooms
  <2>2. CASE Collect
    BY <2>2 DEF Collect
  <2>3. CASE TimeOut
    BY <2>3 DEF TimeOut
  <2>4. CASE GiveUp
    BY <2>4 DEF GiveUp
  <2> QED BY <1>2, <2>1, <2>2, <2>3, <2>4 DEF Controller
<1>3. ASSUME NEW r \in Rooms, Runner(r) PROVE OneRunner' /\ Timed'
  <2>1. CASE Reset(r) \/ StartBridge(r) \/ HangUp(r) \/ Breaks(r) \/ Stopped(r) \/ StillRunning(r)
    BY <2>1 DEF Reset, StartBridge, HangUp, Breaks, Stopped, StillRunning, Step
  <2>2. CASE Judge(r)
    BY <2>2 DEF Judge, Step
  <2>3. CASE Heard(r)
    BY <2>3 DEF Heard, evaluationVars
  <2> QED BY <1>3, <2>1, <2>2, <2>3 DEF Runner
<1> QED BY <1>1, <1>2, <1>3 DEF Next, Bridge, Elsewhere, vars, evaluationVars

-----------------------------------------------------------------------------
(* A verdict. *)

Ran(r) == {calls[r][i] : i \in DOMAIN calls[r]}

(* A script that judges, or has passed, has seen its bridge out, and what  *)
(* it passed is still earned.                                              *)
Judged ==
  \A r \in Rooms :
    /\ runner[r] \in {"judging", "passed"} => worker[r] = "dead"
    /\ runner[r] = "passed" =>
         /\ "required" \in Ran(r) /\ "error" \notin Shown(r)
         /\ "forbidden" \in Ran(r) => r \in unrecorded \cup pushedOut

(* The events of a room are of its calls, and all of the forbidden ones    *)
(* unless one could not be stored or was pushed out.                       *)
Witnessed ==
  \A r \in Rooms :
    /\ "required" \in Shown(r) => "required" \in Ran(r)
    /\ "forbidden" \in Ran(r) => "forbidden" \in Shown(r) \/ r \in unrecorded \cup pushedOut

LEMMA InitVerdict == Init => Judged /\ Witnessed
BY DEF Init, BridgeInit, Judged, Witnessed, Ran, Shown

(* What a stored row changes in what is shown of a room.                   *)
LEMMA StoreShows ==
  ASSUME TypeOK, NEW row \in Rows, Store(row), NEW q \in Rooms
  PROVE  /\ \A kind \in Kinds : kind \in Shown(q)' => kind \in Shown(q) \/ row = <<q, kind>>
         /\ \A kind \in Kinds : row = <<q, kind>> => kind \in Shown(q)'
         /\ "forbidden" \in Shown(q) => "forbidden" \in Shown(q)' \/ q \in pushedOut'
         /\ q \in pushedOut => q \in pushedOut'
<1>1. /\ \A i \in DOMAIN rows' : rows'[i] = row \/ \E j \in DOMAIN rows : rows'[i] = rows[j]
      /\ \A j \in DOMAIN rows : \/ \E i \in DOMAIN rows' : rows'[i] = rows[j]
                                \/ (Len(rows) = Newest /\ rows[j] = Head(rows))
      /\ \E i \in DOMAIN rows' : rows'[i] = row
  BY StoredRows DEF TypeOK, BridgeTypeOK
<1>2. \A kind \in Kinds : kind \in Shown(q)' => kind \in Shown(q) \/ row = <<q, kind>>
  BY <1>1 DEF Shown
<1>3. \A kind \in Kinds : row = <<q, kind>> => kind \in Shown(q)'
  BY <1>1 DEF Shown
<1>4. ASSUME "forbidden" \in Shown(q) PROVE "forbidden" \in Shown(q)' \/ q \in pushedOut'
  <2>1. PICK j \in DOMAIN rows : rows[j] = <<q, "forbidden">>
    BY <1>4 DEF Shown
  <2>2. CASE \E i \in DOMAIN rows' : rows'[i] = rows[j]
    BY <2>1, <2>2 DEF Shown, Kinds, Tools
  <2>3. CASE Len(rows) = Newest /\ Head(rows) = <<q, "forbidden">>
    BY <2>3 DEF Store, TypeOK, BridgeTypeOK
  <2> QED BY <1>1, <2>1, <2>2, <2>3
<1>5. q \in pushedOut => q \in pushedOut'
  BY DEF Store
<1> QED BY <1>2, <1>3, <1>4, <1>5

(* The same when the events do not change.                                 *)
LEMMA SameShown ==
  ASSUME UNCHANGED eventVars, NEW q \in Rooms
  PROVE  Shown(q)' = Shown(q) /\ pushedOut' = pushedOut
BY DEF eventVars, Shown

(* What a call adds to the calls of its room. *)
LEMMA RanAfterCall ==
  ASSUME TypeOK, NEW r \in Rooms, NEW tool \in Tools,
         calls' = [calls EXCEPT ![r] = Append(@, tool)], NEW q \in Rooms
  PROVE  Ran(q)' = IF q = r THEN Ran(q) \cup {tool} ELSE Ran(q)
<1>1. CASE q # r
  BY <1>1 DEF Ran, TypeOK, BridgeTypeOK
<1>2. CASE q = r
  <2>1. calls[r] \in Seq(Tools) /\ calls'[r] = Append(calls[r], tool)
    BY DEF TypeOK, BridgeTypeOK
  <2>2. DOMAIN calls'[r] = DOMAIN calls[r] \cup {Len(calls[r]) + 1}
    BY <2>1
  <2>3. \A i \in DOMAIN calls[r] : calls'[r][i] = calls[r][i]
    BY <2>1
  <2>4. calls'[r][Len(calls[r]) + 1] = tool
    BY <2>1
  <2> QED BY <1>2, <2>2, <2>3, <2>4 DEF Ran
<1> QED BY <1>1, <1>2

(* What a step does to the events and to the calls.                        *)
EventStep(row) ==
  /\ UNCHANGED <<calls, unrecorded>> /\ (Store(row) \/ UNCHANGED eventVars)

LEMMA EventSteps ==
  ASSUME TypeOK, [Next]_vars
  PROVE  \/ \E row \in Rows \ (Rooms \X Tools) : EventStep(row)
         \/ \E r \in Rooms : ToolCall(r) /\ UNCHANGED evaluationVars
<1>0. Other \in Rows \ (Rooms \X Tools)
  BY DEF Other, Rows, Rooms
<1>1. CASE UNCHANGED <<calls, rows, pushedOut, unrecorded>>
  BY <1>0, <1>1 DEF EventStep, eventVars
<1>2. CASE Elsewhere
  BY <1>0, <1>2 DEF Elsewhere, OtherRow, EventStep, toolVars
<1>3. ASSUME NEW r \in Rooms, Transcript(r) \/ SessionError(r)
      PROVE  \E row \in Rows \ (Rooms \X Tools) : EventStep(row)
  <2>1. PICK kind \in {"talk", "error"} : Store(<<r, kind>>)
    BY <1>3 DEF Transcript, SessionError
  <2>2. <<r, kind>> \in Rows \ (Rooms \X Tools)
    BY DEF Rows, Kinds, Tools
  <2> QED BY <1>3, <2>1, <2>2 DEF Transcript, SessionError, EventStep, toolVars
<1>4. ASSUME NEW r \in Rooms, ReplyInterrupted(r)
      PROVE  \E row \in Rows \ (Rooms \X Tools) : EventStep(row)
  BY <1>0, <1>4 DEF ReplyInterrupted, EventStep
<1>5. CASE Controller
  BY <1>1, <1>5 DEF Controller, Start, Collect, TimeOut, GiveUp, bridgeVars
<1>6. ASSUME NEW r \in Rooms, Runner(r) PROVE UNCHANGED <<calls, rows, pushedOut, unrecorded>>
  BY <1>6 DEF Runner, Reset, Breaks, StartBridge, Heard, OnTrack, HangUp, Stopped, StillRunning,
     Judge, bridgeVars, toolVars, eventVars
<1>7. ASSUME NEW r \in Rooms, Bridge(r)
      PROVE  \/ UNCHANGED <<calls, rows, pushedOut, unrecorded>>
             \/ Transcript(r) \/ SessionError(r) \/ ReplyInterrupted(r)
             \/ ToolCall(r) /\ UNCHANGED evaluationVars
  BY <1>7 DEF Bridge, Join, Exit, Session, SessionReady, ReplyDone, SocketCloses, toolVars, eventVars
<1> QED BY <1>1, <1>2, <1>3, <1>4, <1>5, <1>6, <1>7 DEF Next, vars, bridgeVars

LEMMA StepWitnessed == TypeOK /\ Witnessed /\ [Next]_vars => Witnessed'
<1> SUFFICES ASSUME TypeOK, Witnessed, [Next]_vars, NEW q \in Rooms
             PROVE  /\ "required" \in Shown(q)' => "required" \in Ran(q)'
                    /\ "forbidden" \in Ran(q)' =>
                         "forbidden" \in Shown(q)' \/ q \in unrecorded' \cup pushedOut'
  BY DEF Witnessed
<1>1. /\ "required" \in Shown(q) => "required" \in Ran(q)
      /\ "forbidden" \in Ran(q) => "forbidden" \in Shown(q) \/ q \in unrecorded \cup pushedOut
      /\ "required" \in Kinds /\ "forbidden" \in Kinds
  BY DEF Witnessed, Kinds, Tools
<1>2. ASSUME NEW row \in Rows \ (Rooms \X Tools), EventStep(row)
      PROVE  /\ "required" \in Shown(q)' => "required" \in Ran(q)'
             /\ "forbidden" \in Ran(q)' =>
                  "forbidden" \in Shown(q)' \/ q \in unrecorded' \cup pushedOut'
  <2>1. Ran(q)' = Ran(q) /\ unrecorded' = unrecorded
    BY <1>2 DEF EventStep, Ran
  <2>2. row # <<q, "required">>
    BY DEF Tools
  <2>3. CASE Store(row)
    BY <1>1, <2>1, <2>2, <2>3, StoreShows
  <2>4. CASE UNCHANGED eventVars
    BY <1>1, <2>1, <2>4, SameShown
  <2> QED BY <1>2, <2>3, <2>4 DEF EventStep
<1>3. ASSUME NEW r \in Rooms, ToolCall(r)
      PROVE  /\ "required" \in Shown(q)' => "required" \in Ran(q)'
             /\ "forbidden" \in Ran(q)' =>
                  "forbidden" \in Shown(q)' \/ q \in unrecorded' \cup pushedOut'
  <2>1. PICK tool \in Tools :
          /\ calls' = [calls EXCEPT ![r] = Append(@, tool)]
          /\ \/ Store(<<r, tool>>) /\ unrecorded' = unrecorded
             \/ UNCHANGED eventVars /\ unrecorded' = unrecorded \cup {r}
    BY <1>3 DEF ToolCall
  <2>2. Ran(q)' = IF q = r THEN Ran(q) \cup {tool} ELSE Ran(q)
    BY <2>1, RanAfterCall
  <2>3. CASE Store(<<r, tool>>) /\ unrecorded' = unrecorded
    <3>1. <<r, tool>> \in Rows
      BY DEF Rows, Kinds
    <3>2. \A kind : <<r, tool>> = <<q, kind>> <=> q = r /\ kind = tool
      OBVIOUS
    <3>3. /\ "required" \in Shown(q)' => "required" \in Shown(q) \/ <<r, tool>> = <<q, "required">>
          /\ <<r, tool>> = <<q, "forbidden">> => "forbidden" \in Shown(q)'
          /\ "forbidden" \in Shown(q) => "forbidden" \in Shown(q)' \/ q \in pushedOut'
          /\ q \in pushedOut => q \in pushedOut'
      BY <1>1, <2>3, <3>1, StoreShows
    <3> QED BY <1>1, <2>2, <2>3, <3>2, <3>3
  <2>4. CASE UNCHANGED eventVars /\ unrecorded' = unrecorded \cup {r}
    <3>1. Shown(q)' = Shown(q) /\ pushedOut' = pushedOut
      BY <2>4, SameShown
    <3> QED BY <1>1, <2>2, <2>4, <3>1
  <2> QED BY <2>1, <2>3, <2>4
<1> QED BY <1>2, <1>3, EventSteps

(* What a verdict rests on does not change behind it: a bridge that is     *)
(* gone calls nothing, and no row of its room is stored.                   *)
Quiet(q) ==
  /\ Ran(q)' = Ran(q) /\ ("error" \in Shown(q)' => "error" \in Shown(q))
  /\ (q \in unrecorded \cup pushedOut => q \in unrecorded' \cup pushedOut')

LEMMA DeadQuiet ==
  ASSUME TypeOK, [Next]_vars, NEW q \in Rooms, worker[q] = "dead"
  PROVE  Quiet(q)
<1>0. "error" \in Kinds
  BY DEF Kinds
<1>1. CASE UNCHANGED <<calls, rows, pushedOut, unrecorded>>
  BY <1>1 DEF Quiet, Ran, Shown
<1>2. ASSUME NEW row \in Rows, row # <<q, "error">>, Store(row),
             calls'[q] = calls[q], unrecorded' = unrecorded
      PROVE  Quiet(q)
  BY <1>0, <1>2, StoreShows DEF Quiet, Ran
<1>3. ASSUME NEW r \in Rooms, Bridge(r) PROVE Quiet(q)
  <2>1. r # q
    BY <1>3 DEF Bridge, Join, Session, SessionReady, Transcript, ToolCall, ReplyDone,
       ReplyInterrupted, SessionError, SocketCloses, Receiving, Exit
  <2>2. CASE Transcript(r) \/ SessionError(r)
    <3>1. PICK kind \in {"talk", "error"} : Store(<<r, kind>>)
      BY <2>2 DEF Transcript, SessionError
    <3>2. <<r, kind>> \in Rows /\ <<r, kind>> # <<q, "error">>
      BY <2>1 DEF Rows, Kinds
    <3>3. calls' = calls /\ unrecorded' = unrecorded
      BY <2>2 DEF Transcript, SessionError, toolVars
    <3> QED BY <1>2, <3>1, <3>2, <3>3
  <2>3. CASE ReplyInterrupted(r)
    <3>1. Other \in Rows /\ Other # <<q, "error">>
      BY DEF Other, Rows
    <3>2. calls' = calls /\ unrecorded' = unrecorded /\ (Store(Other) \/ UNCHANGED eventVars)
      BY <2>3 DEF ReplyInterrupted
    <3> QED BY <1>1, <1>2, <3>1, <3>2 DEF eventVars
  <2>4. CASE ToolCall(r)
    <3>1. PICK tool \in Tools :
            /\ calls' = [calls EXCEPT ![r] = Append(@, tool)]
            /\ \/ Store(<<r, tool>>) /\ unrecorded' = unrecorded
               \/ UNCHANGED eventVars /\ unrecorded' = unrecorded \cup {r}
      BY <2>4 DEF ToolCall
    <3>2. <<r, tool>> \in Rows /\ <<r, tool>> # <<q, "error">> /\ calls'[q] = calls[q]
      BY <2>1, <3>1 DEF Rows, Kinds, TypeOK, BridgeTypeOK
    <3>3. CASE UNCHANGED eventVars /\ unrecorded' = unrecorded \cup {r}
      BY <3>2, <3>3 DEF Quiet, Ran, eventVars, Shown
    <3> QED BY <1>2, <3>1, <3>2, <3>3
  <2>5. CASE UNCHANGED <<calls, rows, pushedOut, unrecorded>>
    BY <1>1, <2>5
  <2> QED BY <1>3, <2>2, <2>3, <2>4, <2>5 DEF Bridge, Join, Exit, Session, SessionReady,
          ReplyDone, SocketCloses, toolVars, eventVars
<1>4. CASE Elsewhere
  <2>1. Other \in Rows /\ Other # <<q, "error">>
    BY DEF Other, Rows
  <2> QED BY <1>2, <1>4, <2>1 DEF Elsewhere, OtherRow, toolVars
<1>5. CASE Controller
  BY <1>1, <1>5 DEF Controller, Start, Collect, TimeOut, GiveUp, bridgeVars
<1>6. ASSUME NEW r \in Rooms, Runner(r) PROVE UNCHANGED <<calls, rows, pushedOut, unrecorded>>
  BY <1>6 DEF Runner, Reset, Breaks, StartBridge, Heard, OnTrack, HangUp, Stopped, StillRunning,
     Judge, bridgeVars, toolVars, eventVars
<1> QED BY <1>1, <1>3, <1>4, <1>5, <1>6 DEF Next, vars, bridgeVars

(* A script judges behind a bridge that is gone, and only a script that    *)
(* has not called yet starts one.                                          *)
JudgedStep(q) ==
  /\ runner'[q] \in {"judging", "passed"} =>
       worker'[q] = "dead" /\ (runner[q] = runner'[q] \/ worker[q] = "dead")
  /\ runner'[q] = "passed" => runner[q] = "passed" \/ (Passed(q) /\ worker[q] = "dead")

LEMMA JudgedSteps ==
  ASSUME TypeOK, Judged, [Next]_vars, NEW q \in Rooms
  PROVE  JudgedStep(q)
<1>0. runner[q] \in {"judging", "passed"} => worker[q] = "dead"
  BY DEF Judged
<1>1. CASE UNCHANGED <<worker, runner>>
  BY <1>0, <1>1 DEF JudgedStep
<1>2. CASE Controller
  <2>1. worker' = worker
    BY <1>2 DEF Controller, Start, Collect, TimeOut, GiveUp, bridgeVars
  <2>2. runner'[q] \in {"judging", "passed"} => runner'[q] = runner[q]
    BY <1>2 DEF Controller, Start, Collect, TimeOut, GiveUp, TypeOK, BridgeTypeOK
  <2> QED BY <1>0, <2>1, <2>2 DEF JudgedStep
<1>3. ASSUME NEW r \in Rooms, Runner(r) PROVE JudgedStep(q)
  <2>1. CASE Reset(r) \/ Breaks(r) \/ StartBridge(r) \/ HangUp(r) \/ StillRunning(r)
    <3>1. runner'[q] \in {"judging", "passed"} => runner'[q] = runner[q]
      BY <2>1 DEF Reset, Breaks, StartBridge, HangUp, StillRunning, Step, TypeOK, BridgeTypeOK
    <3>2. runner'[q] \in {"judging", "passed"} => worker'[q] = worker[q]
      <4>1. CASE StartBridge(r)
        BY <4>1 DEF StartBridge, Step, Become, TypeOK, BridgeTypeOK
      <4>2. CASE ~StartBridge(r)
        BY <2>1, <4>2 DEF Reset, Breaks, HangUp, StillRunning, bridgeVars
      <4> QED BY <4>1, <4>2
    <3> QED BY <1>0, <3>1, <3>2 DEF JudgedStep
  <2>2. CASE Stopped(r)
    <3>1. worker' = worker
      BY <2>2 DEF Stopped, bridgeVars
    <3>2. /\ worker[r] = "dead" /\ runner'[r] \in {"judging", "failed"}
          /\ q # r => runner'[q] = runner[q]
      BY <2>2 DEF Stopped, Step, TypeOK, BridgeTypeOK
    <3> QED BY <1>0, <3>1, <3>2 DEF JudgedStep
  <2>3. CASE Judge(r)
    <3>1. worker' = worker
      BY <2>3 DEF Judge, bridgeVars
    <3>2. /\ runner[r] = "judging"
          /\ runner'[r] = "passed" => Passed(r)
          /\ runner'[r] \in {"passed", "failed"}
          /\ q # r => runner'[q] = runner[q]
      BY <2>3 DEF Judge, Step, TypeOK, BridgeTypeOK
    <3> QED BY <1>0, <3>1, <3>2 DEF JudgedStep
  <2>4. CASE Heard(r)
    <3>1. /\ worker[r] # "dead" /\ UNCHANGED runner
          /\ q # r => worker'[q] = worker[q]
      BY <2>4 DEF Heard, OnTrack, Become, evaluationVars, TypeOK, BridgeTypeOK
    <3> QED BY <1>0, <3>1 DEF JudgedStep
  <2> QED BY <1>3, <2>1, <2>2, <2>3, <2>4 DEF Runner
<1>4. ASSUME NEW r \in Rooms, Bridge(r) PROVE JudgedStep(q)
  <2>1. runner' = runner /\ worker[r] # "dead"
    BY <1>4 DEF Bridge, Join, Session, SessionReady, Transcript, ToolCall, ReplyDone,
       ReplyInterrupted, SessionError, SocketCloses, Receiving, Exit, evaluationVars
  <2>2. q # r => worker'[q] = worker[q]
    BY <1>4 DEF Bridge, Join, Session, SessionReady, Transcript, ToolCall, ReplyDone,
       ReplyInterrupted, SessionError, SocketCloses, Exit, Become, TypeOK, BridgeTypeOK
  <2> QED BY <1>0, <2>1, <2>2 DEF JudgedStep
<1>5. CASE Elsewhere
  BY <1>1, <1>5 DEF Elsewhere, OtherRow, evaluationVars
<1> QED BY <1>1, <1>2, <1>3, <1>4, <1>5 DEF Next, vars, bridgeVars, evaluationVars

LEMMA StepJudged == TypeOK /\ Judged /\ Witnessed /\ [Next]_vars => Judged'
<1> SUFFICES ASSUME TypeOK, Judged, Witnessed, [Next]_vars, NEW q \in Rooms
             PROVE  /\ runner'[q] \in {"judging", "passed"} => worker'[q] = "dead"
                    /\ runner'[q] = "passed" =>
                         /\ "required" \in Ran(q)' /\ "error" \notin Shown(q)'
                         /\ "forbidden" \in Ran(q)' => q \in unrecorded' \cup pushedOut'
  BY DEF Judged
<1>1. JudgedStep(q)
  BY JudgedSteps
<1>2. ASSUME runner'[q] = "passed"
      PROVE  /\ "required" \in Ran(q)' /\ "error" \notin Shown(q)'
             /\ "forbidden" \in Ran(q)' => q \in unrecorded' \cup pushedOut'
  <2>1. worker[q] = "dead"
    BY <1>1, <1>2 DEF JudgedStep, Judged
  <2>2. /\ "required" \in Ran(q) /\ "error" \notin Shown(q)
        /\ "forbidden" \in Ran(q) => q \in unrecorded \cup pushedOut
    <3>1. CASE runner[q] = "passed"
      BY <3>1 DEF Judged
    <3>2. CASE Passed(q)
      BY <3>2 DEF Passed, Witnessed
    <3> QED BY <1>1, <1>2, <3>1, <3>2 DEF JudgedStep
  <2>3. Quiet(q)
    BY <2>1, DeadQuiet
  <2> QED BY <2>2, <2>3 DEF Quiet
<1> QED BY <1>1, <1>2 DEF JudgedStep

-----------------------------------------------------------------------------
(* The results of the tools of a room. *)

(* What was sent, and after it what is pending, are positions of calls in  *)
(* their order; interrupted calls are none of them.                        *)
Increasing(s) == \A i, j \in DOMAIN s : i < j => s[i] < s[j]
InOrder(r) ==
  /\ Increasing(told[r]) /\ Increasing(pending[r])
  /\ \A i \in DOMAIN told[r], j \in DOMAIN pending[r] : told[r][i] < pending[r][j]
  /\ \A i \in DOMAIN told[r] : told[r][i] \in 1 .. Len(calls[r]) /\ told[r][i] \notin interrupted[r]
  /\ \A i \in DOMAIN pending[r] :
       pending[r][i] \in 1 .. Len(calls[r]) /\ pending[r][i] \notin interrupted[r]
  /\ interrupted[r] \subseteq 1 .. Len(calls[r])
Complete(r) ==
  worker[r] = "live" =>
    \A n \in 1 .. Len(calls[r]) :
      \/ n \in interrupted[r]
      \/ \E i \in DOMAIN told[r] : told[r][i] = n
      \/ \E i \in DOMAIN pending[r] : pending[r][i] = n
(* A session that is not there yet has called nothing. *)
Fresh(r) == worker[r] \in {"none", "joining", "waiting", "session"} => calls[r] = <<>>
Accounted == \A r \in Rooms : InOrder(r) /\ Complete(r) /\ Fresh(r)

(* A bridge runs only for a script that has started it, and a script only  *)
(* for an evaluation that was admitted.                                    *)
Unstarted ==
  \A r \in Rooms : /\ runner[r] \in {"none", "resetting", "starting"} => worker[r] = "none"
                   /\ r > current => runner[r] = "none"

LEMMA InitAccounted == Init => Accounted /\ Unstarted
BY DEF Init, BridgeInit, Accounted, Unstarted, InOrder, Complete, Fresh, Increasing

LEMMA AccountedSuffices == TypeOK /\ Accounted => ResultsAccounted
<1> SUFFICES ASSUME TypeOK, Accounted, NEW r \in Rooms
             PROVE  LET sent == {told[r][i] : i \in DOMAIN told[r]}
                        kept == {pending[r][i] : i \in DOMAIN pending[r]}
                    IN /\ \A i, j \in DOMAIN told[r] : i < j => told[r][i] < told[r][j]
                       /\ sent \cap (kept \cup interrupted[r]) = {}
                       /\ worker[r] = "live" => sent \cup kept \cup interrupted[r] = 1 .. Len(calls[r])
  BY DEF ResultsAccounted
<1> DEFINE sent == {told[r][i] : i \in DOMAIN told[r]}
           kept == {pending[r][i] : i \in DOMAIN pending[r]}
<1>1. InOrder(r) /\ Complete(r)
  BY DEF Accounted
<1>2. \A i, j \in DOMAIN told[r] : i < j => told[r][i] < told[r][j]
  BY <1>1 DEF InOrder, Increasing
<1>3. sent \cap (kept \cup interrupted[r]) = {}
  BY <1>1 DEF InOrder
<1>4. ASSUME worker[r] = "live" PROVE sent \cup kept \cup interrupted[r] = 1 .. Len(calls[r])
  BY <1>1, <1>4 DEF InOrder, Complete
<1> QED BY <1>2, <1>3, <1>4

LEMMA StepUnstarted == TypeOK /\ Unstarted /\ [Next]_vars => Unstarted'
<1> SUFFICES ASSUME TypeOK, Unstarted, [Next]_vars PROVE Unstarted'
  OBVIOUS
<1>1. CASE UNCHANGED <<worker, current, runner>>
  BY <1>1 DEF Unstarted
<1>2. CASE Controller
  <2>1. worker' = worker
    BY <1>2 DEF Controller, Start, Collect, TimeOut, GiveUp, bridgeVars
  <2>2. CASE Start
    <3>1. /\ current' = current + 1 /\ current' \in Rooms
          /\ runner' = [runner EXCEPT ![current'] = "resetting"]
      BY <2>2 DEF Start, TypeOK, BridgeTypeOK, Rooms
    <3>2. runner[current'] = "none"
      BY <3>1 DEF Unstarted, TypeOK, BridgeTypeOK
    <3> QED BY <2>1, <3>1, <3>2 DEF Unstarted, TypeOK, BridgeTypeOK, Rooms
  <2>3. CASE Collect \/ TimeOut \/ GiveUp
    <3>1. current' = current
      BY <2>3 DEF Collect, TimeOut, GiveUp
    <3>2. \A r \in Rooms : runner'[r] = runner[r] \/ (runner'[r] = "killed" /\ r = current)
      BY <2>3 DEF Collect, TimeOut, GiveUp, TypeOK, BridgeTypeOK
    <3> QED BY <2>1, <3>1, <3>2 DEF Unstarted, TypeOK, BridgeTypeOK, Rooms
  <2> QED BY <1>2, <2>2, <2>3 DEF Controller
<1>3. ASSUME NEW r \in Rooms, Runner(r) PROVE Unstarted'
  <2>0. current' = current /\ r <= current
    <3>1. runner[r] # "none"
      BY <1>3 DEF Runner, Reset, Breaks, StartBridge, Heard, HangUp, Stopped, StillRunning, Judge, Step
    <3>2. current' = current
      BY <1>3 DEF Runner, Reset, Breaks, StartBridge, Heard, HangUp, Stopped, StillRunning, Judge,
         evaluationVars
    <3> QED BY <3>1, <3>2 DEF Unstarted, TypeOK, BridgeTypeOK, Rooms
  <2>1. CASE Reset(r) \/ Breaks(r) \/ HangUp(r) \/ Stopped(r) \/ StillRunning(r) \/ Judge(r)
    <3>1. /\ worker' = worker
          /\ \A q \in Rooms \ {r} : runner'[q] = runner[q]
          /\ runner'[r] \in {"none", "resetting", "starting"} => runner[r] = "resetting"
      <4>1. CASE Judge(r)
        <5>1. PICK verdict \in {"passed", "failed"} : Step(r, "judging", verdict)
          BY <4>1 DEF Judge
        <5> QED BY <4>1, <5>1 DEF Judge, Step, bridgeVars, TypeOK, BridgeTypeOK
      <4> QED BY <2>1, <4>1 DEF Reset, Breaks, HangUp, Stopped, StillRunning, Step, bridgeVars, TypeOK, BridgeTypeOK
    <3>2. \A q \in Rooms : q > current' => q # r
      BY <2>0 DEF TypeOK, BridgeTypeOK, Rooms
    <3>3. ASSUME NEW q \in Rooms
          PROVE  /\ runner'[q] \in {"none", "resetting", "starting"} => worker'[q] = "none"
                 /\ q > current' => runner'[q] = "none"
      BY <2>0, <3>1, <3>2 DEF Unstarted
    <3> QED BY <3>3 DEF Unstarted
  <2>2. CASE StartBridge(r)
    BY <2>0, <2>2 DEF StartBridge, Step, Become, Unstarted, TypeOK, BridgeTypeOK
  <2>3. CASE Heard(r)
    BY <2>0, <2>3 DEF Heard, OnTrack, Become, evaluationVars, Unstarted, TypeOK, BridgeTypeOK
  <2> QED BY <1>3, <2>1, <2>2, <2>3 DEF Runner
<1>4. ASSUME NEW r \in Rooms, Bridge(r) PROVE Unstarted'
  <2>1. UNCHANGED <<current, runner>> /\ worker[r] # "none"
    BY <1>4 DEF Bridge, Join, Session, SessionReady, Transcript, ToolCall, ReplyDone,
       ReplyInterrupted, SessionError, SocketCloses, Receiving, Exit, evaluationVars
  <2>2. \A q \in Rooms \ {r} : worker'[q] = worker[q]
    BY <1>4 DEF Bridge, Join, Session, SessionReady, Transcript, ToolCall, ReplyDone,
       ReplyInterrupted, SessionError, SocketCloses, Exit, Become, TypeOK, BridgeTypeOK
  <2> QED BY <2>1, <2>2 DEF Unstarted
<1>5. CASE Elsewhere
  BY <1>1, <1>5 DEF Elsewhere, OtherRow, evaluationVars
<1> QED BY <1>1, <1>2, <1>3, <1>4, <1>5 DEF Next, vars, bridgeVars, evaluationVars

(* A step changes the session of one room at most. *)
SameRoom(q) ==
  /\ worker'[q] = worker[q] /\ calls'[q] = calls[q] /\ pending'[q] = pending[q]
  /\ told'[q] = told[q] /\ interrupted'[q] = interrupted[q]
Kept(q) == InOrder(q)' /\ Complete(q)' /\ Fresh(q)'

LEMMA SameRoomKept ==
  ASSUME Accounted, NEW q \in Rooms, SameRoom(q)
  PROVE  Kept(q)
BY DEF Accounted, SameRoom, Kept, InOrder, Complete, Fresh, Increasing

LEMMA OthersSame ==
  ASSUME TypeOK, NEW r \in Rooms, Bridge(r) \/ Runner(r), NEW q \in Rooms \ {r}
  PROVE  SameRoom(q)
<1>1. CASE Runner(r)
  BY <1>1 DEF Runner, Reset, Breaks, StartBridge, Heard, OnTrack, HangUp, Stopped, StillRunning,
     Judge, Become, bridgeVars, toolVars, TypeOK, BridgeTypeOK, SameRoom
<1>2. CASE Bridge(r)
  BY <1>2 DEF Bridge, Join, Session, SessionReady, Transcript, ToolCall, ReplyDone,
     ReplyInterrupted, SessionError, SocketCloses, Exit, Become, toolVars, TypeOK, BridgeTypeOK, SameRoom
<1> QED BY <1>1, <1>2

(* Steps that leave what the session keeps, and end in a state without new *)
(* calls.                                                                  *)
LEMMA WorkerKept ==
  ASSUME TypeOK, Accounted, NEW r \in Rooms, UNCHANGED toolVars,
         \/ worker'[r] \in {"over", "dead", worker[r]}
         \/ worker[r] \in {"none", "joining", "waiting", "session"}
  PROVE  Kept(r)
<1>1. InOrder(r) /\ Complete(r) /\ Fresh(r)
  BY DEF Accounted
<1>2. InOrder(r)'
  BY <1>1 DEF InOrder, Increasing, toolVars
<1>3. CASE worker'[r] = worker[r]
  BY <1>1, <1>2, <1>3 DEF Kept, Complete, Fresh, toolVars
<1>4. CASE worker'[r] \in {"over", "dead"}
  BY <1>1, <1>2, <1>4 DEF Kept, Complete, Fresh
<1>5. CASE worker[r] \in {"none", "joining", "waiting", "session"}
  <2>1. calls'[r] = <<>>
    BY <1>1, <1>5 DEF Fresh, toolVars
  <2>2. 1 .. Len(calls'[r]) = {}
    BY <2>1
  <2> QED BY <1>2, <2>1, <2>2 DEF Kept, Complete, Fresh
<1> QED BY <1>3, <1>4, <1>5

-----------------------------------------------------------------------------
(* Sequences of increasing numbers. *)

LEMMA AppendIncreasing ==
  ASSUME NEW s \in Seq(Positions), NEW n \in Nat, Increasing(s), \A i \in DOMAIN s : s[i] < n
  PROVE  Increasing(Append(s, n))
<1>1. /\ DOMAIN Append(s, n) = 1 .. Len(s) + 1
      /\ \A i \in 1 .. Len(s) : Append(s, n)[i] = s[i]
      /\ Append(s, n)[Len(s) + 1] = n
  OBVIOUS
<1> QED BY <1>1 DEF Increasing

(* The elements of the beginning of t after those of s. *)
LEMMA ConcatElements ==
  ASSUME NEW s \in Seq(Positions), NEW t \in Seq(Positions), NEW k \in 0 .. Len(t)
  PROVE  /\ DOMAIN (s \o SubSeq(t, 1, k)) = 1 .. Len(s) + k
         /\ \A i \in 1 .. Len(s) : (s \o SubSeq(t, 1, k))[i] = s[i]
         /\ \A i \in 1 .. k : (s \o SubSeq(t, 1, k))[Len(s) + i] = t[i]
<1> DEFINE b == SubSeq(t, 1, k)
<1>1. b \in Seq(Positions) /\ Len(b) = k /\ \A i \in 1 .. k : b[i] = t[i]
  <2>1. \A i \in 1 .. k : t[i] \in Positions
    OBVIOUS
  <2> QED BY <2>1
<1> HIDE DEF b
<1>2. DOMAIN (s \o b) = 1 .. Len(s) + k
  <2>0. b \in Seq(Positions)
    BY <1>1
  <2>1. s \o b \in Seq(Positions) /\ Len(s \o b) = Len(s) + Len(b)
    <3>1. s \o b \in Seq(Positions)
      BY <2>0
    <3>2. Len(s \o b) = Len(s) + Len(b)
      BY <2>0
    <3> QED BY <3>1, <3>2
  <2>2. DOMAIN (s \o b) = 1 .. Len(s \o b)
    BY <2>1
  <2>3. Len(s \o b) = Len(s) + k
    BY <1>1, <2>1
  <2> QED BY <2>2, <2>3
<1>3. \A i \in 1 .. Len(s) : (s \o b)[i] = s[i]
  BY <1>1
<1>4. \A i \in 1 .. k : (s \o b)[Len(s) + i] = t[i]
  BY <1>1
<1> QED BY <1>2, <1>3, <1>4 DEF b

(* Such a sequence holds elements of s and of t, in their order. *)
LEMMA ConcatIncreasing ==
  ASSUME NEW s \in Seq(Positions), NEW t \in Seq(Positions), NEW k \in 0 .. Len(t),
         Increasing(s), Increasing(t),
         \A i \in DOMAIN s, j \in DOMAIN t : s[i] < t[j]
  PROVE  /\ Increasing(s \o SubSeq(t, 1, k))
         /\ \A i \in DOMAIN (s \o SubSeq(t, 1, k)) :
              \/ \E j \in DOMAIN s : (s \o SubSeq(t, 1, k))[i] = s[j]
              \/ \E j \in DOMAIN t : (s \o SubSeq(t, 1, k))[i] = t[j]
<1> DEFINE c == s \o SubSeq(t, 1, k)
<1>1. /\ DOMAIN c = 1 .. Len(s) + k
      /\ \A i \in 1 .. Len(s) : c[i] = s[i]
      /\ \A i \in 1 .. k : c[Len(s) + i] = t[i]
  BY ConcatElements
<1>2. DOMAIN s = 1 .. Len(s) /\ DOMAIN t = 1 .. Len(t) /\ Len(s) \in Nat /\ Len(t) \in Nat
  OBVIOUS
<1> HIDE DEF c
<1>3. \A i \in DOMAIN c : i \in 1 .. Len(s) \/ (i - Len(s) \in 1 .. k /\ c[i] = t[i - Len(s)])
  <2> SUFFICES ASSUME NEW i \in DOMAIN c, i \notin 1 .. Len(s)
               PROVE  i - Len(s) \in 1 .. k /\ c[i] = t[i - Len(s)]
    OBVIOUS
  <2>1. i - Len(s) \in 1 .. k /\ i = Len(s) + (i - Len(s))
    BY <1>1, <1>2
  <2> QED BY <1>1, <2>1
<1>4. Increasing(c)
  <2> SUFFICES ASSUME NEW i \in DOMAIN c, NEW j \in DOMAIN c, i < j PROVE c[i] < c[j]
    BY DEF Increasing
  <2>1. CASE j \in 1 .. Len(s)
    <3>1. i \in 1 .. Len(s) /\ i \in DOMAIN s /\ j \in DOMAIN s
      BY <1>1, <1>2, <2>1
    <3>2. c[i] = s[i] /\ c[j] = s[j]
      BY <1>1, <2>1, <3>1
    <3> QED BY <3>1, <3>2 DEF Increasing
  <2>2. CASE i \in 1 .. Len(s) /\ j \notin 1 .. Len(s)
    <3>1. j - Len(s) \in DOMAIN t /\ c[j] = t[j - Len(s)]
      BY <1>2, <1>3, <2>2
    <3> QED BY <1>1, <1>2, <2>2, <3>1
  <2>3. CASE i \notin 1 .. Len(s)
    <3>1. j \notin 1 .. Len(s)
      BY <1>1, <1>2, <2>3
    <3>2. /\ i - Len(s) \in DOMAIN t /\ c[i] = t[i - Len(s)]
          /\ j - Len(s) \in DOMAIN t /\ c[j] = t[j - Len(s)]
      BY <1>2, <1>3, <2>3, <3>1
    <3>3. i - Len(s) < j - Len(s)
      BY <1>1, <1>2
    <3> QED BY <3>2, <3>3 DEF Increasing
  <2> QED BY <2>1, <2>2, <2>3
<1>5. \A i \in DOMAIN c : (\E j \in DOMAIN s : c[i] = s[j]) \/ (\E j \in DOMAIN t : c[i] = t[j])
  <2> SUFFICES ASSUME NEW i \in DOMAIN c
               PROVE  (\E j \in DOMAIN s : c[i] = s[j]) \/ (\E j \in DOMAIN t : c[i] = t[j])
    OBVIOUS
  <2>1. CASE i \in 1 .. Len(s)
    BY <1>1, <1>2, <2>1
  <2>2. CASE i \notin 1 .. Len(s)
    <3>1. i - Len(s) \in DOMAIN t /\ c[i] = t[i - Len(s)]
      BY <1>2, <1>3, <2>2
    <3> QED BY <3>1
  <2> QED BY <2>1, <2>2
<1> QED BY <1>4, <1>5 DEF c
-----------------------------------------------------------------------------
(* The steps of a session that its results go through. *)

LEMMA ToolCallKept ==
  ASSUME TypeOK, Accounted, NEW r \in Rooms, ToolCall(r)
  PROVE  Kept(r)
<1>1. InOrder(r) /\ Complete(r) /\ worker[r] = "live"
  BY DEF Accounted, ToolCall
<1>2. /\ calls[r] \in Seq(Tools) /\ pending[r] \in Seq(Positions) /\ told[r] \in Seq(Positions)
      /\ Len(calls[r]) \in Nat
  BY DEF TypeOK, BridgeTypeOK
<1>3. PICK n \in Nat : n = Len(calls[r]) + 1
  BY <1>2
<1>4. PICK tool \in Tools : /\ calls'[r] = Append(calls[r], tool)
                           /\ pending'[r] = Append(pending[r], n)
  BY <1>3 DEF ToolCall, TypeOK, BridgeTypeOK, CallId
<1>5. /\ told'[r] = told[r] /\ interrupted'[r] = interrupted[r]
      /\ worker'[r] \in {"live", "over"}
  BY <1>1 DEF ToolCall, Become, TypeOK, BridgeTypeOK
<1>6. /\ Len(calls'[r]) = n /\ Len(calls[r]) = n - 1
      /\ DOMAIN pending[r] = 1 .. Len(pending[r]) /\ Len(pending[r]) \in Nat
      /\ DOMAIN pending'[r] = 1 .. Len(pending[r]) + 1
      /\ \A i \in DOMAIN pending[r] : pending'[r][i] = pending[r][i]
      /\ pending'[r][Len(pending[r]) + 1] = n
  BY <1>2, <1>3, <1>4
<1>7. \A i \in DOMAIN pending[r] : pending[r][i] \in 1 .. n - 1
  BY <1>1, <1>6 DEF InOrder
<1>8. \A i \in DOMAIN told[r] : told[r][i] \in 1 .. n - 1
  BY <1>1, <1>6 DEF InOrder
<1>9. n \notin interrupted[r] /\ interrupted[r] \subseteq 1 .. n
  BY <1>1, <1>6 DEF InOrder
<1>10. InOrder(r)'
  <2>1. Increasing(pending'[r])
    <3>1. \A i \in DOMAIN pending[r] : pending[r][i] < n
      BY <1>7
    <3> QED BY <1>1, <1>2, <1>4, <3>1, AppendIncreasing DEF InOrder
  <2>2. \A j \in DOMAIN pending'[r] : j \in DOMAIN pending[r] \/ j = Len(pending[r]) + 1
    BY <1>6
  <2>3. ASSUME NEW j \in DOMAIN pending'[r]
        PROVE  /\ pending'[r][j] \in 1 .. n /\ pending'[r][j] \notin interrupted[r]
               /\ \A i \in DOMAIN told[r] : told[r][i] < pending'[r][j]
    <3>1. CASE j \in DOMAIN pending[r]
      <4>1. pending'[r][j] = pending[r][j]
        BY <1>6, <3>1
      <4>2. pending[r][j] \in 1 .. n
        BY <1>7, <3>1
      <4> QED BY <1>1, <3>1, <4>1, <4>2 DEF InOrder
    <3>2. CASE j = Len(pending[r]) + 1
      <4>1. pending'[r][j] = n
        BY <1>6, <3>2
      <4>2. n \in 1 .. n /\ \A i \in DOMAIN told[r] : told[r][i] < n
        BY <1>3, <1>2, <1>8
      <4> QED BY <1>9, <4>1, <4>2
    <3> QED BY <2>2, <3>1, <3>2
  <2>4. \A i \in DOMAIN told[r] : told[r][i] \in 1 .. n
    BY <1>8
  <2>5. Increasing(told'[r])
    BY <1>1, <1>5 DEF InOrder
  <2> QED BY <1>1, <1>5, <1>6, <1>9, <2>1, <2>3, <2>4, <2>5 DEF InOrder
<1>11. Complete(r)'
  <2>1. ASSUME NEW m \in 1 .. n
        PROVE  \/ m \in interrupted[r]
               \/ \E i \in DOMAIN told[r] : told[r][i] = m
               \/ \E i \in DOMAIN pending'[r] : pending'[r][i] = m
    <3>1. CASE m = n
      BY <1>6, <3>1
    <3>2. CASE m # n
      <4>1. m \in 1 .. Len(calls[r])
        BY <1>6, <3>2
      <4>2. \A i \in DOMAIN pending[r] : i \in DOMAIN pending'[r]
        BY <1>6
      <4> QED BY <1>1, <1>6, <4>1, <4>2 DEF Complete
    <3> QED BY <3>1, <3>2
  <2> QED BY <1>5, <1>6, <2>1 DEF Complete
<1>12. Fresh(r)'
  BY <1>5 DEF Fresh
<1> QED BY <1>10, <1>11, <1>12 DEF Kept

LEMMA ReplyDoneKept ==
  ASSUME TypeOK, Accounted, NEW r \in Rooms, ReplyDone(r)
  PROVE  Kept(r)
<1>1. InOrder(r) /\ Complete(r) /\ worker[r] = "live"
  BY DEF Accounted, ReplyDone
<1>2. pending[r] \in Seq(Positions) /\ told[r] \in Seq(Positions)
  BY DEF TypeOK, BridgeTypeOK
<1>3. PICK k \in 0 .. Len(pending[r]) :
        /\ told'[r] = told[r] \o SubSeq(pending[r], 1, k)
        /\ \/ k = Len(pending[r]) /\ worker'[r] = "live"
           \/ worker'[r] = "over"
  <2>1. PICK k \in 0 .. Len(pending[r]) :
          /\ told' = [told EXCEPT ![r] = @ \o SubSeq(pending[r], 1, k)]
          /\ IF k < Len(pending[r]) THEN Become(r, "over") ELSE UNCHANGED worker
    BY DEF ReplyDone
  <2>2. told'[r] = told[r] \o SubSeq(pending[r], 1, k)
    BY <2>1 DEF TypeOK, BridgeTypeOK
  <2>3. (k = Len(pending[r]) /\ worker'[r] = "live") \/ worker'[r] = "over"
    <3>1. Len(pending[r]) \in Nat
      BY <1>2
    <3>2. CASE k < Len(pending[r])
      BY <2>1, <3>2 DEF Become, TypeOK, BridgeTypeOK
    <3>3. CASE ~(k < Len(pending[r]))
      BY <1>1, <2>1, <3>1, <3>3
    <3> QED BY <3>2, <3>3
  <2> QED BY <2>2, <2>3
<1>4. /\ pending'[r] = <<>> /\ calls'[r] = calls[r] /\ interrupted'[r] = interrupted[r]
      /\ DOMAIN pending'[r] = {}
  BY DEF ReplyDone, TypeOK, BridgeTypeOK
<1>5. /\ Increasing(told'[r])
      /\ \A i \in DOMAIN told'[r] : \/ \E j \in DOMAIN told[r] : told'[r][i] = told[r][j]
                                   \/ \E j \in DOMAIN pending[r] : told'[r][i] = pending[r][j]
  <2>1. /\ Increasing(told[r]) /\ Increasing(pending[r])
        /\ \A i \in DOMAIN told[r], j \in DOMAIN pending[r] : told[r][i] < pending[r][j]
    BY <1>1 DEF InOrder
  <2>2. PICK s \in Seq(Positions), t \in Seq(Positions) : s = told[r] /\ t = pending[r]
    BY <1>2
  <2>3. /\ k \in 0 .. Len(t) /\ Increasing(s) /\ Increasing(t)
        /\ \A i \in DOMAIN s, j \in DOMAIN t : s[i] < t[j]
    BY <2>1, <2>2
  <2>4. /\ Increasing(s \o SubSeq(t, 1, k))
        /\ \A i \in DOMAIN (s \o SubSeq(t, 1, k)) :
             \/ \E j \in DOMAIN s : (s \o SubSeq(t, 1, k))[i] = s[j]
             \/ \E j \in DOMAIN t : (s \o SubSeq(t, 1, k))[i] = t[j]
    BY <2>3, ConcatIncreasing
  <2>5. told'[r] = s \o SubSeq(t, 1, k)
    BY <1>3, <2>2
  <2>6. PICK c : c = s \o SubSeq(t, 1, k)
    OBVIOUS
  <2>7. /\ Increasing(c)
        /\ \A i \in DOMAIN c : (\E j \in DOMAIN s : c[i] = s[j]) \/ (\E j \in DOMAIN t : c[i] = t[j])
    BY <2>4, <2>6
  <2>8. told'[r] = c /\ told[r] = s /\ pending[r] = t
    BY <2>2, <2>5, <2>6
  <2>9. Increasing(told'[r])
    BY <2>7, <2>8 DEF Increasing
  <2>10. \A i \in DOMAIN told'[r] : \/ \E j \in DOMAIN told[r] : told'[r][i] = told[r][j]
                                   \/ \E j \in DOMAIN pending[r] : told'[r][i] = pending[r][j]
    BY <2>7, <2>8
  <2> QED BY <2>9, <2>10
<1>6. InOrder(r)'
  <2>1. \A i \in DOMAIN told'[r] : /\ told'[r][i] \in 1 .. Len(calls[r])
                                  /\ told'[r][i] \notin interrupted[r]
    BY <1>1, <1>5 DEF InOrder
  <2>2. Increasing(pending'[r])
    BY <1>4 DEF Increasing
  <2> QED BY <1>1, <1>4, <1>5, <2>1, <2>2 DEF InOrder
<1>7. Complete(r)'
  <2> SUFFICES ASSUME worker'[r] = "live", NEW n \in 1 .. Len(calls[r])
               PROVE  n \in interrupted[r] \/ \E i \in DOMAIN told'[r] : told'[r][i] = n
    BY <1>4 DEF Complete
  <2>1. k = Len(pending[r])
    BY <1>3
  <2>2. /\ DOMAIN told'[r] = 1 .. Len(told[r]) + k
        /\ \A i \in 1 .. Len(told[r]) : told'[r][i] = told[r][i]
        /\ \A i \in 1 .. k : told'[r][Len(told[r]) + i] = pending[r][i]
    <3>1. PICK s \in Seq(Positions), t \in Seq(Positions) : s = told[r] /\ t = pending[r]
      BY <1>2
    <3>2. /\ DOMAIN (s \o SubSeq(t, 1, k)) = 1 .. Len(s) + k
          /\ \A i \in 1 .. Len(s) : (s \o SubSeq(t, 1, k))[i] = s[i]
          /\ \A i \in 1 .. k : (s \o SubSeq(t, 1, k))[Len(s) + i] = t[i]
      BY <3>1, ConcatElements
    <3> QED BY <1>3, <3>1, <3>2
  <2>3. /\ DOMAIN told[r] = 1 .. Len(told[r]) /\ Len(told[r]) \in Nat
        /\ DOMAIN pending[r] = 1 .. k /\ k \in Nat
    BY <1>2, <2>1
  <2>4. CASE \E i \in DOMAIN told[r] : told[r][i] = n
    <3>1. PICK i \in DOMAIN told[r] : told[r][i] = n
      BY <2>4
    <3>2. i \in DOMAIN told'[r] /\ told'[r][i] = n
      BY <2>2, <2>3, <3>1
    <3> QED BY <3>2
  <2>5. CASE \E i \in DOMAIN pending[r] : pending[r][i] = n
    <3>1. PICK i \in DOMAIN pending[r] : pending[r][i] = n
      BY <2>5
    <3>2. i \in 1 .. k
      BY <2>3, <3>1
    <3>3. told'[r][Len(told[r]) + i] = n
      BY <2>2, <3>1, <3>2
    <3>4. Len(told[r]) + i \in DOMAIN told'[r]
      BY <2>2, <2>3, <3>2
    <3> QED BY <3>3, <3>4
  <2> QED BY <1>1, <2>4, <2>5 DEF Complete
<1>8. Fresh(r)'
  BY <1>3 DEF Fresh
<1> QED BY <1>6, <1>7, <1>8 DEF Kept

LEMMA ReplyInterruptedKept ==
  ASSUME TypeOK, Accounted, NEW r \in Rooms, ReplyInterrupted(r)
  PROVE  Kept(r)
<1>1. InOrder(r) /\ Complete(r) /\ worker[r] = "live"
  BY DEF Accounted, ReplyInterrupted
<1>2. /\ pending'[r] = <<>> /\ DOMAIN pending'[r] = {} /\ told'[r] = told[r]
      /\ calls'[r] = calls[r] /\ worker'[r] \in {"live", "over"}
      /\ interrupted'[r] = interrupted[r] \cup {pending[r][i] : i \in DOMAIN pending[r]}
  BY <1>1 DEF ReplyInterrupted, Become, TypeOK, BridgeTypeOK
<1>3. InOrder(r)'
  <2>1. told[r] \in Seq(Positions) /\ pending[r] \in Seq(Positions)
    BY DEF TypeOK, BridgeTypeOK
  <2>2. \A i \in DOMAIN told[r], j \in DOMAIN pending[r] : told[r][i] # pending[r][j]
    BY <1>1, <2>1 DEF InOrder
  <2>3. \A i \in DOMAIN told[r] : told[r][i] \notin interrupted'[r]
    BY <1>1, <1>2, <2>2 DEF InOrder
  <2>4. interrupted'[r] \subseteq 1 .. Len(calls[r])
    BY <1>1, <1>2 DEF InOrder
  <2>5. Increasing(told'[r]) /\ Increasing(pending'[r])
    BY <1>1, <1>2 DEF InOrder, Increasing
  <2> QED BY <1>1, <1>2, <2>3, <2>4, <2>5 DEF InOrder
<1>4. Complete(r)'
  BY <1>1, <1>2 DEF Complete
<1>5. Fresh(r)'
  BY <1>2 DEF Fresh
<1> QED BY <1>3, <1>4, <1>5 DEF Kept

LEMMA ExitKept ==
  ASSUME TypeOK, Accounted, NEW r \in Rooms, Exit(r)
  PROVE  Kept(r)
<1>1. /\ pending'[r] = <<>> /\ told'[r] = <<>> /\ interrupted'[r] = {}
      /\ worker'[r] = "dead"
  BY DEF Exit, Become, TypeOK, BridgeTypeOK
<1>2. DOMAIN pending'[r] = {} /\ DOMAIN told'[r] = {}
  BY <1>1
<1> QED BY <1>1, <1>2 DEF Kept, InOrder, Complete, Fresh, Increasing

LEMMA StepAccounted == TypeOK /\ Unstarted /\ Accounted /\ [Next]_vars => Accounted'
<1> SUFFICES ASSUME TypeOK, Unstarted, Accounted, [Next]_vars, NEW q \in Rooms PROVE Kept(q)
  BY DEF Accounted, Kept
<1>1. CASE UNCHANGED bridgeVars
  BY <1>1, SameRoomKept DEF bridgeVars, SameRoom
<1>2. CASE Controller
  BY <1>1, <1>2 DEF Controller, Start, Collect, TimeOut, GiveUp
<1>3. ASSUME NEW r \in Rooms, Runner(r) \/ Bridge(r) PROVE Kept(q)
  <2>1. CASE q # r
    BY <1>3, <2>1, OthersSame, SameRoomKept
  <2>2. ASSUME Runner(r) PROVE Kept(r)
    <3>1. UNCHANGED toolVars
      BY <2>2 DEF Runner, Reset, Breaks, StartBridge, Heard, OnTrack, HangUp, Stopped,
         StillRunning, Judge, bridgeVars, toolVars
    <3>2. CASE StartBridge(r)
      BY <3>1, <3>2, WorkerKept DEF StartBridge, Step, Unstarted
    <3>3. CASE Heard(r)
      BY <3>1, <3>3, WorkerKept DEF Heard, OnTrack
    <3>4. CASE worker' = worker
      BY <3>1, <3>4, WorkerKept
    <3> QED BY <2>2, <3>2, <3>3, <3>4 DEF Runner, Reset, Breaks, HangUp, Stopped, StillRunning,
            Judge, bridgeVars
  <2>3. ASSUME Bridge(r) PROVE Kept(r)
    <3>1. CASE Join(r) \/ SessionReady(r)
      BY <3>1, WorkerKept DEF Join, SessionReady
    <3>2. CASE Transcript(r)
      BY <3>2, WorkerKept DEF Transcript
    <3>3. CASE SessionError(r) \/ SocketCloses(r)
      <4>1. UNCHANGED toolVars /\ worker'[r] = "over"
        BY <3>3 DEF SessionError, SocketCloses, Become, TypeOK, BridgeTypeOK
      <4> QED BY <4>1, WorkerKept
    <3> QED BY <2>3, <3>1, <3>2, <3>3, ToolCallKept, ReplyDoneKept, ReplyInterruptedKept, ExitKept
            DEF Bridge, Session
  <2> QED BY <1>3, <2>1, <2>2, <2>3
<1>4. CASE Elsewhere
  BY <1>4, SameRoomKept DEF Elsewhere, OtherRow, toolVars, SameRoom
<1> QED BY <1>1, <1>2, <1>3, <1>4 DEF Next, vars

-----------------------------------------------------------------------------
(* Every variable of an evaluation has its type; no result is of a call    *)
(* that was never made room for (dashboard.py, bridge.py).                 *)
THEOREM EvaluationTypes == Spec => []TypeOK
BY InitTyped, StepTyped, PTL DEF Spec

(* An evaluation is judged by rows that no other script resets while it    *)
(* runs: the controller never has two scripts alive, whatever the timing   *)
(* of requests, time-outs and bridges that outlive their script            *)
(* (dashboard.py:60-110).                                                  *)
THEOREM OneScriptAtATime == Spec => []OneRunner
<1>1. Init => TypeOK /\ OneRunner /\ Timed
  BY InitTyped, InitOneRunner
<1>2. TypeOK /\ OneRunner /\ Timed /\ [Next]_vars => TypeOK' /\ OneRunner' /\ Timed'
  BY StepTyped, StepOneRunner
<1> QED BY <1>1, <1>2, PTL DEF Spec

(* A verdict of "passed" is true when it is given and stays true, for any  *)
(* number of rooms, of rows and of the newest that the verdict looks at:   *)
(* the required tool ran, the newest rows show no error, and a forbidden   *)
(* tool ran only if its event could not be stored or was pushed out of     *)
(* them (run_voice_evaluation.py:115-140, store.py:291-296, bridge.py).    *)
THEOREM PassesAreEarned == Spec => []PassIsEarned
<1>1. Init => TypeOK /\ Judged /\ Witnessed
  BY InitTyped, InitVerdict
<1>2. TypeOK /\ Judged /\ Witnessed /\ [Next]_vars => TypeOK' /\ Judged' /\ Witnessed'
  BY StepTyped, StepJudged, StepWitnessed
<1>3. Judged => PassIsEarned
  BY DEF Judged, PassIsEarned, Ran
<1> QED BY <1>1, <1>2, <1>3, PTL DEF Spec

(* However many calls a session makes and however its replies end, each    *)
(* result is sent once at most, in the order of the calls, never after an  *)
(* interruption, and none is lost while the session lives                  *)
(* (bridge.py:110-160).                                                    *)
THEOREM ResultsStayAccounted == Spec => []ResultsAccounted
<1>1. Init => TypeOK /\ Unstarted /\ Accounted
  BY InitTyped, InitAccounted
<1>2. TypeOK /\ Unstarted /\ Accounted /\ [Next]_vars => TypeOK' /\ Unstarted' /\ Accounted'
  BY StepTyped, StepUnstarted, StepAccounted
<1>3. TypeOK /\ Accounted => ResultsAccounted
  BY AccountedSuffices
<1> QED BY <1>1, <1>2, <1>3, PTL DEF Spec

-----------------------------------------------------------------------------
(* The agent monitor.                                                      *)

(* The names of the stages, and the categories of the health check.        *)
StageSet == {Stages[i] : i \in DOMAIN Stages}
HealthFailures == {"health_check_unhealthy", "health_check_unreachable"}

(* The stages in the order they are passed. *)
LEMMA StageOrder ==
  /\ \A i, j \in 1 .. 11 : Stages[i] = Stages[j] => i = j
  /\ DOMAIN Stages = 1 .. 11
BY DEF Stages

(* No stage leads back to the health check, and the last three are entered *)
(* from the one before only.                                               *)
LEMMA NextStage ==
  ASSUME NEW s \in StageSet, s # "success"
  PROVE  /\ Stages[Nth(s) + 1] \in StageSet
         /\ Stages[Nth(s) + 1] # "health_check"
         /\ Stages[Nth(s) + 1] \in {"probe_send", "response_wait"}
              => s \in {"agent_join_wait", "probe_send"}
         /\ Stages[Nth(s) + 1] = "success" => s = "response_wait"
<1>1. PICK n \in 1 .. 11 : s = Stages[n]
  BY StageOrder DEF StageSet
<1>2. Nth(s) = n
  BY <1>1, StageOrder DEF Nth
<1>3. n \in 1 .. 10
  BY <1>1 DEF Stages
<1>4. n + 1 \in 1 .. 11 /\ Stages[n + 1] # Stages[1]
  BY <1>3, StageOrder
<1>5. Stages[1] = "health_check" /\ Stages[8] = "agent_join_wait" /\ Stages[9] = "probe_send"
      /\ Stages[10] = "response_wait" /\ Stages[11] = "success"
  BY DEF Stages
<1>6. /\ Stages[n + 1] = Stages[9] => n = 8
      /\ Stages[n + 1] = Stages[10] => n = 9
      /\ Stages[n + 1] = Stages[11] => n = 10
  BY <1>3, <1>4, StageOrder
<1> QED BY <1>1, <1>2, <1>4, <1>5, <1>6, StageOrder DEF StageSet

(* Of eleven conditions whose last holds, some is the first that does.     *)
LEMMA FirstMatch ==
  ASSUME NEW b, b[11]
  PROVE  \E i \in 1 .. 11 : b[i] /\ \A j \in 1 .. i - 1 : ~b[j]
<1> DEFINE P(i) == b[i] /\ \A j \in 1 .. i - 1 : ~b[j]
<1> SUFFICES ASSUME \A i \in 1 .. 11 : ~P(i) PROVE FALSE
  OBVIOUS
<1>1. ~b[1]
  BY DEF P
<1>2. ~b[2]
  BY <1>1
<1>3. ~b[3]
  BY <1>1, <1>2
<1>4. ~b[4]
  BY <1>1, <1>2, <1>3
<1>5. ~b[5]
  BY <1>1, <1>2, <1>3, <1>4
<1>6. ~b[6]
  BY <1>1, <1>2, <1>3, <1>4, <1>5
<1>7. ~b[7]
  BY <1>1, <1>2, <1>3, <1>4, <1>5, <1>6
<1>8. ~b[8]
  BY <1>1, <1>2, <1>3, <1>4, <1>5, <1>6, <1>7
<1>9. ~b[9]
  BY <1>1, <1>2, <1>3, <1>4, <1>5, <1>6, <1>7, <1>8
<1>10. ~b[10]
  BY <1>1, <1>2, <1>3, <1>4, <1>5, <1>6, <1>7, <1>8, <1>9
<1> QED BY <1>1, <1>2, <1>3, <1>4, <1>5, <1>6, <1>7, <1>8, <1>9, <1>10

(* classify_failure always answers with a category; those of the health    *)
(* check are kept for its stage, and those of the agent for the stages     *)
(* that wait for it or for a message that says so.                         *)
LEMMA Classified ==
  ASSUME NEW at \in StageSet, NEW hints \in SUBSET Hints
  PROVE  /\ Classify(at, hints) \in Categories
         /\ Classify(at, hints) \in HealthFailures <=> at = "health_check"
         /\ Classify(at, hints) = "agent_not_joined" => at = "agent_join_wait" \/ "unjoined" \in hints
         /\ Classify(at, hints) = "agent_not_responded" => at = "response_wait" \/ "unanswered" \in hints
<1> DEFINE branches == <<
       <<at = "health_check" /\ "http" \in hints, "health_check_unhealthy">>,
       <<at = "health_check", "health_check_unreachable">>,
       <<"quota" \in hints, "livekit_quota_exhausted">>,
       <<"429" \in hints, "livekit_rate_limited">>,
       <<"auth" \in hints, "livekit_auth_failed">>,
       <<"5xx" \in hints, "livekit_server_error">>,
       <<at = "agent_join_wait" \/ "unjoined" \in hints, "agent_not_joined">>,
       <<at = "response_wait" \/ "unanswered" \in hints, "agent_not_responded">>,
       <<"network" \in hints, "network_error">>,
       <<"missing" \in hints, "config_missing">>,
       <<TRUE, "unknown_error">> >>
       first(i) == branches[i][1] /\ \A j \in 1 .. i - 1 : ~branches[j][1]
       chosen == CHOOSE i \in 1 .. 11 : first(i)
<1>1. DOMAIN branches = 1 .. 11
  OBVIOUS
<1>2. Classify(at, hints) = branches[chosen][2]
  BY <1>1 DEF Classify
<1>3. chosen \in 1 .. 11 /\ first(chosen)
  <2>0. branches[11][1]
    OBVIOUS
  <2> HIDE DEF branches
  <2> DEFINE b == [i \in 1 .. 11 |-> branches[i][1]]
  <2>1. b[11]
    BY <2>0
  <2>2. \E i \in 1 .. 11 : b[i] /\ \A j \in 1 .. i - 1 : ~b[j]
    <3> HIDE DEF b
    <3> QED BY <2>1, FirstMatch
  <2>3. \E i \in 1 .. 11 : first(i)
    BY <2>2
  <2> QED BY <2>3
<1>4. /\ \A i \in 1 .. 11 : branches[i][2] \in Categories
      /\ \A i \in 1 .. 11 : branches[i][2] \in HealthFailures <=> i \in {1, 2}
      /\ \A i \in 1 .. 11 : branches[i][2] = "agent_not_joined" => i = 7
      /\ \A i \in 1 .. 11 : branches[i][2] = "agent_not_responded" => i = 8
  <2> SUFFICES ASSUME NEW i \in 1 .. 11
               PROVE  /\ branches[i][2] \in Categories
                      /\ branches[i][2] \in HealthFailures <=> i \in {1, 2}
                      /\ branches[i][2] = "agent_not_joined" => i = 7
                      /\ branches[i][2] = "agent_not_responded" => i = 8
    OBVIOUS
  <2>1. /\ branches[1][2] = "health_check_unhealthy" /\ branches[2][2] = "health_check_unreachable"
        /\ branches[3][2] = "livekit_quota_exhausted" /\ branches[4][2] = "livekit_rate_limited"
        /\ branches[5][2] = "livekit_auth_failed" /\ branches[6][2] = "livekit_server_error"
        /\ branches[7][2] = "agent_not_joined" /\ branches[8][2] = "agent_not_responded"
        /\ branches[9][2] = "network_error" /\ branches[10][2] = "config_missing"
        /\ branches[11][2] = "unknown_error"
    OBVIOUS
  <2>2. \/ i = 1 \/ i = 2 \/ i = 3 \/ i = 4 \/ i = 5 \/ i = 6 \/ i = 7 \/ i = 8 \/ i = 9 \/ i = 10
        \/ i = 11
    OBVIOUS
  <2> HIDE DEF branches
  <2> QED BY <2>1, <2>2 DEF Categories, HealthFailures
<1>5. /\ branches[1][1] => at = "health_check"
      /\ branches[2][1] => at = "health_check"
      /\ at = "health_check" => branches[2][1]
      /\ branches[7][1] => at = "agent_join_wait" \/ "unjoined" \in hints
      /\ branches[8][1] => at = "response_wait" \/ "unanswered" \in hints
  OBVIOUS
<1>6. /\ chosen \in {1, 2} <=> at = "health_check"
      /\ chosen = 7 => at = "agent_join_wait" \/ "unjoined" \in hints
      /\ chosen = 8 => at = "response_wait" \/ "unanswered" \in hints
  <2>1. chosen \in 1 .. 11 /\ branches[chosen][1] /\ \A j \in 1 .. chosen - 1 : ~branches[j][1]
    BY <1>3
  <2> HIDE DEF branches, first, chosen
  <2>2. chosen > 2 => ~branches[2][1]
    BY <2>1
  <2> QED BY <1>5, <2>1, <2>2
<1> QED
  <2> HIDE DEF branches, first, chosen
  <2> QED BY <1>2, <1>3, <1>4, <1>6

-----------------------------------------------------------------------------
(* What a run knows at each point of it: the probe has passed the stages   *)
(* before its own, and the status it started from is the file's.           *)
Run ==
  /\ phase = "probing" => result = "none"
  /\ phase \in {"judged", "told", "saving"} => result # "none"
  /\ phase # "asleep" => known = IF file = "missing" THEN "none" ELSE file

StagesPassed ==
  /\ stage \in {"probe_send", "response_wait", "success"} => joined
  /\ stage = "success" => heard
  /\ result = "ok" => stage = "success"

(* Until a failure that was told is taken back, the file or unsaved says   *)
(* so; and a run that found it in the file takes it back before it saves.  *)
Remembered ==
  /\ notice = "failure" /\ file # "failure" => unsaved
  /\ phase \in {"told", "saving"} /\ mode # "failures_only" /\ result = "ok" /\ known = "failure"
       => notice = "ok"

(* The last conjunct as long as recoveries are told.                       *)
MonitorInv ==
  /\ MonitorTypeOK /\ Run /\ StagesPassed /\ BlameFits
  /\ mode # "failures_only" => Remembered

(* A run starts at a stage. *)
LEMMA FirstStage == "health_check" \in {Stages[i] : i \in DOMAIN Stages}
<1>1. Stages[1] = "health_check"
  BY DEF Stages
<1> QED BY <1>1, StageOrder

(* The invariant is inductive. *)
LEMMA InitMonitorInv == MonitorInit => MonitorInv
BY FirstStage DEF MonitorInit, MonitorInv, MonitorTypeOK, Run, StagesPassed, BlameFits, Remembered

(* The probe goes on: it reaches "success" past a joined and heard agent.  *)
LEMMA AdvanceStep ==
  ASSUME MonitorInv, AdvanceProbe, UNCHANGED mode
  PROVE  MonitorInv'
<1>1. /\ stage \in StageSet /\ stage' = Stages[Nth(stage) + 1]
      /\ stage' \in StageSet
      /\ stage' # "health_check"
      /\ stage' \in {"probe_send", "response_wait"} => stage \in {"agent_join_wait", "probe_send"}
      /\ stage' = "success" => stage = "response_wait"
  BY NextStage DEF MonitorInv, MonitorTypeOK, AdvanceProbe, StageSet
<1> QED
  BY <1>1
  DEF MonitorInv, MonitorTypeOK, Run, StagesPassed, BlameFits, Remembered, AdvanceProbe, run, StageSet

(* The probe fails at its stage, with a category of that stage.            *)
LEMMA FailStep ==
  ASSUME MonitorInv, ProbeFails, UNCHANGED mode
  PROVE  MonitorInv'
<1>1. PICK hints \in SUBSET Hints :
        result' = Classify(stage, hints) /\ claims' = hints \cap Claims
  BY DEF ProbeFails
<1>2. /\ stage \in StageSet
      /\ result' \in Categories
      /\ result' \in HealthFailures <=> stage = "health_check"
      /\ result' = "agent_not_joined" => stage = "agent_join_wait" \/ "unjoined" \in hints
      /\ result' = "agent_not_responded" => stage = "response_wait" \/ "unanswered" \in hints
  BY <1>1, Classified DEF MonitorInv, MonitorTypeOK, StageSet
<1>3. result' \notin {"none", "ok"}
  BY <1>2 DEF Categories
<1>4. /\ claims' \subseteq Claims
      /\ result' = "agent_not_joined" => stage = "agent_join_wait" \/ "unjoined" \in claims'
      /\ result' = "agent_not_responded" => stage = "response_wait" \/ "unanswered" \in claims'
  BY <1>1, <1>2 DEF Claims
<1> QED
  BY <1>2, <1>3, <1>4
  DEF MonitorInv, MonitorTypeOK, Run, StagesPassed, BlameFits, Remembered, ProbeFails, StageSet,
      HealthFailures

(* The outcome is told and saved, or any of that is cut short.             *)
LEMMA ReportStep ==
  ASSUME MonitorInv, Tell \/ TellFails \/ NothingToTell \/ WriteTmp \/ Replace \/ Cut, UNCHANGED mode
  PROVE  MonitorInv'
<1>1. Status(result) \in {"ok", "failure"} /\ (Status(result) = "ok" <=> result = "ok")
  BY DEF Status
<1>2. MonitorTypeOK' /\ Run' /\ StagesPassed' /\ BlameFits'
  <2> USE DEF MonitorInv, MonitorTypeOK, Run, StagesPassed, BlameFits, probe
  <2>1. CASE Tell
    BY <1>1, <2>1 DEF Tell
  <2>2. CASE TellFails \/ NothingToTell \/ WriteTmp \/ Cut
    BY <2>2 DEF TellFails, NothingToTell, WriteTmp, Cut
  <2>3. CASE Replace
    BY <1>1, <2>3 DEF Replace
  <2> QED BY <2>1, <2>2, <2>3
<1>3. mode # "failures_only" => Remembered'
  <2> HAVE mode # "failures_only"
  <2>1. CASE Tell
    BY <1>1, <2>1 DEF MonitorInv, Remembered, Tell, probe
  <2>2. CASE NothingToTell
    <3>1. ~(result = "ok" /\ known = "failure")
      BY <1>1, <2>2 DEF MonitorInv, MonitorTypeOK, Modes, NothingToTell, ShouldNotify, OnChange
    <3> QED BY <2>2, <3>1 DEF MonitorInv, Remembered, NothingToTell, probe
  <2>3. CASE Replace
    BY <1>1, <2>3 DEF MonitorInv, Run, Remembered, Replace, probe
  <2>4. CASE TellFails \/ WriteTmp \/ Cut
    BY <2>4 DEF MonitorInv, Remembered, TellFails, WriteTmp, Cut, probe
  <2> QED BY <2>1, <2>2, <2>3, <2>4
<1> QED BY <1>2, <1>3 DEF MonitorInv

(* The run starts, and what the agent and the clock do meanwhile.          *)
LEMMA OtherStep ==
  ASSUME MonitorInv, UNCHANGED mode,
         \/ Load \/ AgentJoins \/ AgentSpeaks \/ ProbeSucceeds \/ AgentChanges \/ WindowEnds
         \/ UNCHANGED monitorVars
  PROVE  MonitorInv'
<1> USE DEF MonitorInv, MonitorTypeOK, Run, StagesPassed, BlameFits, Remembered
<1>1. CASE Load
  BY <1>1, FirstStage DEF Load
<1>2. CASE AgentJoins
  BY <1>2 DEF AgentJoins, run
<1>3. CASE AgentSpeaks
  BY <1>3 DEF AgentSpeaks, run
<1>4. CASE ProbeSucceeds
  BY <1>4 DEF ProbeSucceeds
<1>5. CASE AgentChanges
  BY <1>5 DEF AgentChanges, run, probe
<1>6. CASE WindowEnds
  <2>1. MonitorTypeOK' /\ Run'
    BY <1>6 DEF WindowEnds, run, probe
  <2>2. StagesPassed' /\ BlameFits'
    BY <1>6 DEF WindowEnds, run, probe
  <2>3. mode # "failures_only" => Remembered'
    BY <1>6 DEF WindowEnds, run, probe
  <2> QED BY <1>6, <2>1, <2>2, <2>3
<1>7. CASE UNCHANGED monitorVars
  BY <1>7 DEF monitorVars
<1> QED BY <1>1, <1>2, <1>3, <1>4, <1>5, <1>6, <1>7

LEMMA NextMonitorInv == MonitorInv /\ [MonitorNext]_monitorVars => MonitorInv'
<1> SUFFICES ASSUME MonitorInv, [MonitorNext]_monitorVars PROVE MonitorInv'
  OBVIOUS
<1>1. CASE UNCHANGED monitorVars
  BY <1>1, OtherStep DEF monitorVars
<1>2. CASE MonitorNext
  BY <1>2, AdvanceStep, FailStep, ReportStep, OtherStep DEF MonitorNext, Reporting, Probing
<1> QED BY <1>1, <1>2

-----------------------------------------------------------------------------
(* The state file, the probe and the outcome stay in their domains, in     *)
(* every mode and wherever a run is cut short (run_once).                  *)
THEOREM MonitorTypes == MonitorSpec => []MonitorTypeOK
<1>1. MonitorInv => MonitorTypeOK
  BY DEF MonitorInv
<1> QED BY <1>1, InitMonitorInv, NextMonitorInv, PTL DEF MonitorSpec

(* Whatever its message carries, a failure is blamed on the health check   *)
(* exactly when it struck there, on an absent or a silent agent only when  *)
(* it was that or the message itself said so, and a success was heard      *)
(* (classify_failure, run_probe).                                          *)
THEOREM BlameAlwaysFits == MonitorSpec => []BlameFits
<1>1. MonitorInv => BlameFits
  BY DEF MonitorInv
<1> QED BY <1>1, InitMonitorInv, NextMonitorInv, PTL DEF MonitorSpec

(* While the state file says "ok" the team was not left with a failure,    *)
(* through failed sends and crashes, but for a status told by a run that   *)
(* never saved it (should_notify, run_once, save_state).                   *)
THEOREM RecoveriesTold == MonitorSpec => []RecoveryTold
<1>1. MonitorInv => RecoveryTold
  BY DEF MonitorInv, Remembered, RecoveryTold
<1> QED BY <1>1, InitMonitorInv, NextMonitorInv, PTL DEF MonitorSpec
=============================================================================
