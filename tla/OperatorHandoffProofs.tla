------------------------ MODULE OperatorHandoffProofs ------------------------
(***************************************************************************)
(* Theorems about OperatorHandoff for any number of polls and any limits.  *)
(* The final record is right because of two facts the properties do not    *)
(* say: the agent is out of an open room only after a completed handover,  *)
(* or because the room could not be deleted (Departure), and a record the  *)
(* shutdown wrote agrees with the flags it read, since no task of the      *)
(* agent runs after it (Closed).                                           *)
(***************************************************************************)
EXTENDS OperatorHandoff, TLAPS

(* A poll that is still running has attempts left. *)
Counted == \A p \in Polls : poll[p].at \in {"asleep", "watching"} => poll[p].attempt < MaxAttempts
(* A deleted room is empty. *)
Emptied == room = "deleted" => ~ai /\ ~operator
(* The agent leaves an open room to an operator, or to a room it cannot delete. *)
Departure == room = "open" /\ ~ai => completed \/ stuck
(* Only a final PATCH closes a record, and the one that was applied agrees *)
(* with what the shutdown read.                                            *)
Closed ==
  /\ ~shut => ~record.ended /\ record.status # "completed" /\ ~filed
  /\ shut => /\ room = "deleted" \/ ~ai
             /\ record.ended => ~completed
             /\ transferred => /\ record.status # "completed"
                               /\ record.status = "transferred" \/ late \/ ~filed

IInv == TypeOK /\ Counted /\ Emptied /\ Departure /\ Closed

(* The states of one poll, as in TypeOK. *)
PollStates == [at : {"none", "asleep", "watching", "referring", "recording", "ended"}, attempt : 0 .. MaxAttempts,
               looks : 0 .. MaxLooks, seen : 0 .. Required]

USE HandoffAssumption

-----------------------------------------------------------------------------
LEMMA InitIInv == Init => IInv
<1> SUFFICES ASSUME Init PROVE IInv
  OBVIOUS
<1>1. TypeOK
  <2>1. poll \in [Polls -> PollStates]
    BY DEF Init, NoPoll, PollAt, PollStates
  <2>2. record \in Records /\ patches \in 0 .. MaxPatches
    BY DEF Init, Records
  <2> QED BY <2>1, <2>2 DEF Init, TypeOK, PollStates
<1>2. Counted
  BY DEF Init, Counted, NoPoll, PollAt
<1>3. Emptied /\ Departure /\ Closed
  BY DEF Init, Emptied, Departure, Closed
<1> QED BY <1>1, <1>2, <1>3 DEF IInv

(* What a running poll makes of an attempt is a poll again, with attempts  *)
(* left if it goes on.                                                     *)
LEMMA ContinueType ==
  ASSUME NEW p \in Polls, poll[p] \in PollStates, poll[p].attempt < MaxAttempts
  PROVE  /\ Continue(p) \in PollStates
         /\ Continue(p).at \in {"asleep", "watching"} => Continue(p).attempt < MaxAttempts
<1> DEFINE n == poll[p].attempt + 1
<1>1. n \in 0 .. MaxAttempts
  BY DEF PollStates
<1>2. Continue(p) = IF n = MaxAttempts THEN PollOver ELSE PollAt("asleep", n, 0, 0)
  BY DEF Continue
<1> HIDE DEF n
<1> QED BY <1>1, <1>2 DEF PollStates, PollAt, PollOver

(* A step of one poll that leaves it a poll with attempts left keeps the   *)
(* type and the count of all of them.                                      *)
LEMMA OnePoll ==
  ASSUME TypeOK, Counted, NEW p \in Polls, NEW next \in PollStates,
         poll' = [poll EXCEPT ![p] = next],
         next.at \in {"asleep", "watching"} => next.attempt < MaxAttempts
  PROVE  /\ poll' \in [Polls -> PollStates]
         /\ \A q \in Polls : poll'[q].at \in {"asleep", "watching"} => poll'[q].attempt < MaxAttempts
BY DEF TypeOK, Counted, PollStates

-----------------------------------------------------------------------------
(* The polls keep the type and their count. *)
LEMMA PollsKept ==
  ASSUME TypeOK, Counted, mode' \in Modes /\ known' \in BOOLEAN, NEW p \in Polls, PollStep(p) \/ Accepts(p)
  PROVE  TypeOK' /\ Counted'
<1>0. poll \in [Polls -> PollStates] /\ poll[p] \in PollStates
  BY DEF TypeOK, PollStates
<1>1. CASE ForwardAccepted(p)
  <2>1. PICK next : next = PollAt("asleep", 0, 0, 0)
    OBVIOUS
  <2>2. next \in PollStates /\ next.attempt < MaxAttempts
    BY <2>1 DEF PollStates, PollAt
  <2>3. poll' = [poll EXCEPT ![p] = next]
    BY <1>1, <2>1 DEF ForwardAccepted, Spawned
  <2> QED BY <1>1, <2>2, <2>3, OnePoll
          DEF ForwardAccepted, TypeOK, Counted, PollStates, platform, roomVars
<1>2. CASE PollStatus(p)
  <2>1. poll[p].attempt < MaxAttempts
    BY <1>2 DEF PollStatus, Counted
  <2>2. PICK status : poll' = [poll EXCEPT ![p] = AfterStatus(p, status)]
    BY <1>2 DEF PollStatus
  <2>3. /\ AfterStatus(p, status) \in PollStates
        /\ AfterStatus(p, status).at \in {"asleep", "watching"}
             => AfterStatus(p, status).attempt < MaxAttempts
    <3>1. CASE status = "transferred"
      BY <1>0, <2>1, <3>1 DEF AfterStatus, PollAt, PollStates
    <3>2. CASE status \in {"unknown", "failed"}
      BY <1>0, <2>1, <3>2 DEF AfterStatus, PollAt, PollOver, PollStates
    <3>3. CASE status \notin {"transferred", "unknown", "failed"}
      <4>1. AfterStatus(p, status) = Continue(p)
        BY <3>3 DEF AfterStatus
      <4> QED BY <1>0, <2>1, <4>1, ContinueType
    <3> QED BY <3>1, <3>2, <3>3
  <2> QED BY <1>2, <2>2, <2>3, OnePoll
          DEF PollStatus, TypeOK, Counted, PollStates, platform, roomVars
<1>3. CASE Look(p)
  <2>1. PICK next : next = PollAt("watching", poll[p].attempt, poll[p].looks + 1, Seen(p))
    OBVIOUS
  <2>2. Seen(p) \in 0 .. Required
    BY <1>0, <1>3 DEF Look, Seen, PollStates
  <2>3. next \in PollStates /\ next.attempt < MaxAttempts
    BY <1>0, <1>3, <2>1, <2>2 DEF Look, Counted, PollAt, PollStates
  <2>4. poll' = [poll EXCEPT ![p] = next]
    BY <1>3, <2>1 DEF Look
  <2> QED BY <1>3, <2>3, <2>4, OnePoll
          DEF Look, TypeOK, Counted, PollStates, platform, roomVars
<1>4. CASE LookTimeout(p)
  BY <1>0, <1>4, OnePoll, ContinueType
  DEF LookTimeout, TypeOK, Counted, PollStates, platform, roomVars
<1>5. CASE HandOver(p)
  <2>1. PICK next : next = PollOver
    OBVIOUS
  <2>2. next \in PollStates /\ next.at = "ended"
    BY <2>1 DEF PollOver, PollAt, PollStates
  <2>3. poll' = [poll EXCEPT ![p] = next]
    BY <1>5, <2>1 DEF HandOver
  <2>4. /\ poll' \in [Polls -> PollStates]
        /\ \A q \in Polls : poll'[q].at \in {"asleep", "watching"} => poll'[q].attempt < MaxAttempts
    BY <2>2, <2>3, OnePoll
  <2>5. ai' \in BOOLEAN
    BY <1>5 DEF HandOver, TypeOK
  <2> QED BY <1>5, <2>4, <2>5
          DEF HandOver, TypeOK, Counted, PollStates, platform, roomVars
<1>6. CASE ForwardSip(p)
  <2>1. PICK next : next = PollAt("referring", 0, 0, 0)
    OBVIOUS
  <2>2. next \in PollStates /\ next.attempt < MaxAttempts
    BY <2>1 DEF PollStates, PollAt
  <2>3. poll' = [poll EXCEPT ![p] = next]
    BY <1>6, <2>1 DEF ForwardSip
  <2> QED BY <1>6, <2>2, <2>3, OnePoll
          DEF ForwardSip, TypeOK, Counted, PollStates, platform, roomVars
<1>7. CASE Refer(p)
  <2>1. PICK next \in {PollAt("recording", 0, 0, 0), PollOver} : poll' = [poll EXCEPT ![p] = next]
    BY <1>7 DEF Refer
  <2>2. next \in PollStates /\ next.at \notin {"asleep", "watching"}
    BY <2>1 DEF PollStates, PollOver, PollAt
  <2> QED BY <1>7, <2>1, <2>2, OnePoll
          DEF Refer, TypeOK, Counted, PollStates, platform, roomVars
<1>8. CASE SipRecorded(p)
  <2>1. PICK next : next = PollOver
    OBVIOUS
  <2>2. next \in PollStates /\ next.at = "ended"
    BY <2>1 DEF PollOver, PollAt, PollStates
  <2>3. poll' = [poll EXCEPT ![p] = next]
    BY <1>8, <2>1 DEF SipRecorded
  <2>4. record' \in Records
    BY <1>8 DEF SipRecorded, Records, TypeOK
  <2> QED BY <1>8, <2>2, <2>3, <2>4, OnePoll
          DEF SipRecorded, TypeOK, Counted, PollStates, roomVars
<1> QED BY <1>1, <1>2, <1>3, <1>4, <1>5, <1>6, <1>7, <1>8 DEF PollStep, Accepts

LEMMA TypeKept ==
  ASSUME TypeOK, Counted, [Next]_vars
  PROVE  TypeOK' /\ Counted'
<1>0. mode' \in Modes /\ known' \in BOOLEAN
  BY DEF TypeOK, Next, fixed, vars
<1>1. CASE UNCHANGED vars
  BY <1>0, <1>1 DEF TypeOK, Counted, vars
<1>2. CASE Forward \/ ForwardUnavailable \/ ForwardRefused
  BY <1>0, <1>2 DEF TypeOK, Counted, Forward, ForwardUnavailable, ForwardRefused, platform, roomVars
<1>3. CASE ForwardPatched
  BY <1>0, <1>3 DEF TypeOK, Counted, Records, ForwardPatched, Reopens, platform, roomVars
<1>4. CASE OperatorRequested
  BY <1>0, <1>4 DEF TypeOK, Counted, OperatorRequested, platform, roomVars
<1>5. ASSUME NEW p \in Polls, Accepts(p) \/ PollStep(p) PROVE TypeOK' /\ Counted'
  BY <1>0, <1>5, PollsKept
<1>6. CASE SessionEvent \/ SilenceGoodbye \/ SilenceEnds \/ ToolEnds
  BY <1>0, <1>6 DEF TypeOK, Counted, SessionEvent, SilenceGoodbye, SilenceEnds, ToolEnds, EndCall,
     platform, roomVars
<1>7. CASE DeleteRoom
  <2>1. ai' \in BOOLEAN /\ operator' \in BOOLEAN /\ stuck' \in BOOLEAN /\ room' \in {"open", "deleted"}
    BY <1>7 DEF DeleteRoom, TypeOK
  <2>2. ending' = "none" /\ monitor' = "off"
    BY <1>7 DEF DeleteRoom
  <2>3. UNCHANGED <<forward, poll, transferred, completed, patches, shut, platform>>
    BY <1>7 DEF DeleteRoom
  <2> QED BY <1>0, <2>1, <2>2, <2>3 DEF TypeOK, Counted, platform
<1>8. CASE SyncTranscript \/ SyncLands
  BY <1>0, <1>8 DEF TypeOK, Counted, Records, SyncTranscript, SyncLands, Reopens, agentVars, platform, roomVars
<1>9. CASE Shutdown
  <2>1. poll \in [Polls -> PollStates] /\ PollOver \in PollStates /\ PollOver.at = "ended"
    BY DEF TypeOK, PollStates, PollOver, PollAt
  <2>2. poll' = [p \in Polls |-> IF poll[p].at \in {"none", "recording"} THEN poll[p] ELSE PollOver]
    BY <1>9 DEF Shutdown
  <2> HIDE DEF PollOver
  <2>3. poll' \in [Polls -> PollStates]
    BY <2>1, <2>2
  <2>7. ASSUME NEW p \in Polls PROVE poll'[p].at \notin {"asleep", "watching"}
    <3>1. poll[p].at \in {"none", "recording"} \/ poll'[p].at = "ended"
      BY <2>1, <2>2
    <3>2. poll[p].at \in {"none", "recording"} => poll'[p].at \in {"none", "recording"}
      BY <2>2
    <3> QED BY <3>1, <3>2
  <2>4. record' \in Records /\ filed' \in BOOLEAN
    <3>1. FinalRecord \in Records /\ record \in Records /\ filed \in BOOLEAN
      BY DEF FinalRecord, TypeOK, Records
    <3>2. (record' = FinalRecord /\ filed' = TRUE) \/ UNCHANGED <<record, filed>>
      BY <1>9 DEF Shutdown
    <3> QED BY <3>1, <3>2
  <2>5. shut' = TRUE /\ monitor' = "off"
    BY <1>9 DEF Shutdown
  <2>6. UNCHANGED <<forward, ending, transferred, completed, patches, queue, late, roomVars>>
    BY <1>9 DEF Shutdown
  <2>8. Counted'
    BY <2>7 DEF Counted
  <2> QED BY <1>0, <2>3, <2>4, <2>5, <2>6, <2>8 DEF TypeOK, PollStates, roomVars
<1>10. CASE World
  <2>1. CASE QueueMoves
    <3>1. queue' \in Statuses
      BY <2>1 DEF QueueMoves
    <3>2. UNCHANGED <<agentVars, patches, shut, record, late, filed, roomVars>>
      BY <2>1 DEF QueueMoves
    <3> QED BY <1>0, <3>1, <3>2 DEF TypeOK, Counted, agentVars, roomVars
  <2>2. CASE OperatorJoins
    BY <1>0, <2>2 DEF TypeOK, Counted, OperatorJoins, agentVars, platform, roomVars
  <2>3. CASE OperatorLeaves
    <3>1. operator' \in BOOLEAN
      BY <2>3 DEF OperatorLeaves
    <3>2. UNCHANGED <<agentVars, patches, shut, platform, ai, room, stuck>>
      BY <2>3 DEF OperatorLeaves
    <3> QED BY <1>0, <3>1, <3>2 DEF TypeOK, Counted, agentVars, platform
  <2>4. CASE CallerLeaves
    <3>1. ai' \in BOOLEAN /\ operator' \in BOOLEAN /\ room' \in {"open", "deleted"}
      BY <2>4 DEF CallerLeaves
    <3>2. UNCHANGED <<agentVars, patches, shut, platform, stuck>>
      BY <2>4 DEF CallerLeaves
    <3> QED BY <1>0, <3>1, <3>2 DEF TypeOK, Counted, agentVars, platform
  <2> QED BY <1>10, <2>1, <2>2, <2>3, <2>4 DEF World
<1> QED BY <1>1, <1>2, <1>3, <1>4, <1>5, <1>6, <1>7, <1>8, <1>9, <1>10 DEF Next, Agent, Over

-----------------------------------------------------------------------------
(* The steps that change who is in the room. *)
LEMMA RoomSteps ==
  ASSUME [Next]_vars
  PROVE  \/ UNCHANGED roomVars
         \/ \E p \in Polls : HandOver(p)
         \/ DeleteRoom \/ OperatorJoins \/ OperatorLeaves \/ CallerLeaves
BY DEF Next, Agent, World, Over, PollStep, Accepts, ForwardSip, Refer, SipRecorded,
     Forward, ForwardUnavailable, ForwardPatched,
     OperatorRequested, ForwardRefused, ForwardAccepted, PollStatus, Look, LookTimeout,
     SessionEvent, SilenceGoodbye, SilenceEnds, ToolEnds, EndCall, SyncTranscript, SyncLands,
     Shutdown, QueueMoves, vars, roomVars, agentVars, platform

(* A deleted room stays empty: only the operator of an open room joins. *)
LEMMA EmptiedKept == ASSUME TypeOK, Emptied, [Next]_vars PROVE Emptied'
<1>1. CASE UNCHANGED roomVars
  BY <1>1 DEF Emptied, roomVars
<1>2. ASSUME NEW p \in Polls, HandOver(p) PROVE Emptied'
  BY <1>2 DEF Emptied, HandOver
<1>3. CASE DeleteRoom \/ OperatorJoins \/ OperatorLeaves \/ CallerLeaves
  BY <1>3 DEF Emptied, DeleteRoom, OperatorJoins, OperatorLeaves, CallerLeaves
<1> QED BY <1>1, <1>2, <1>3, RoomSteps

(* The agent leaves an open room by a handover, which sets completed. *)
LEMMA DepartureKept == ASSUME TypeOK, Departure, [Next]_vars PROVE Departure'
<1>1. CASE UNCHANGED <<ai, room, completed, stuck>>
  BY <1>1 DEF Departure
<1>2. ASSUME NEW p \in Polls, HandOver(p) PROVE Departure'
  BY <1>2 DEF Departure, HandOver
<1>3. CASE DeleteRoom \/ CallerLeaves
  BY <1>3 DEF Departure, DeleteRoom, CallerLeaves
<1>4. [Next]_vars => \/ UNCHANGED <<ai, room, completed, stuck>>
                     \/ \E p \in Polls : HandOver(p)
                     \/ DeleteRoom \/ CallerLeaves
  BY DEF Next, Agent, World, Over, PollStep, Accepts, ForwardSip, Refer, SipRecorded,
     Forward, ForwardUnavailable, ForwardPatched,
     OperatorRequested, ForwardRefused, ForwardAccepted, PollStatus, Look, LookTimeout,
     SessionEvent, SilenceGoodbye, SilenceEnds, ToolEnds, EndCall, SyncTranscript, SyncLands,
     Shutdown, QueueMoves, OperatorJoins, OperatorLeaves, vars, roomVars, agentVars, platform
<1> QED BY <1>1, <1>2, <1>3, <1>4

(* After the shutdown no task changes what it read, and only a straggling  *)
(* PATCH changes the status it wrote.                                      *)
LEMMA ClosedKept == ASSUME TypeOK, Closed, [Next]_vars PROVE Closed'
<1>1. CASE Shutdown
  <2>1. /\ shut' /\ ~shut
        /\ room' = "deleted" \/ ~ai'
        /\ completed' = completed /\ transferred' = transferred /\ late' = late
    BY <1>1 DEF Shutdown, roomVars, TypeOK
  <2>2. ~record.ended /\ record.status # "completed" /\ ~filed
    BY <2>1 DEF Closed
  <2>3. CASE record' = FinalRecord
    <3>1. CASE completed
      <4>1. record'.status = "transferred" /\ record'.ended = record.ended
        BY <2>3, <3>1 DEF FinalRecord, TypeOK, Records
      <4> QED BY <2>1, <2>2, <3>1, <4>1 DEF Closed, TypeOK
    <3>2. CASE ~completed
      <4>1. record'.status = IF transferred THEN "transferred" ELSE "completed"
        BY <2>3, <3>2 DEF FinalRecord
      <4> QED BY <2>1, <3>2, <4>1 DEF Closed, TypeOK
    <3> QED BY <3>1, <3>2
  <2>4. CASE UNCHANGED <<record, filed>>
    <3>1. record' = record /\ ~filed'
      BY <2>2, <2>4
    <3>2. ~record'.ended /\ record'.status # "completed"
      BY <2>2, <3>1
    <3> QED BY <2>1, <3>1, <3>2 DEF Closed
  <2> QED BY <1>1, <2>3, <2>4 DEF Shutdown
<1>2. CASE ~shut /\ ~shut'
  <2>1. ~record.ended /\ record.status # "completed" /\ ~filed
    BY <1>2 DEF Closed
  <2>2. \/ UNCHANGED <<record, filed>>
        \/ ForwardPatched \/ SyncLands \/ \E p \in Polls : SipRecorded(p)
    BY <1>2 DEF Next, Agent, World, Over, PollStep, Accepts, ForwardSip, Refer,
       Forward, ForwardUnavailable, OperatorRequested, ForwardRefused, ForwardAccepted, PollStatus,
       Look, LookTimeout, HandOver, SessionEvent, SilenceGoodbye, SilenceEnds, ToolEnds, EndCall,
       DeleteRoom, SyncTranscript, Shutdown, QueueMoves, OperatorJoins,
       OperatorLeaves, CallerLeaves, vars, roomVars, agentVars, platform
  <2>3. ~record'.ended /\ record'.status # "completed" /\ ~filed'
    BY <2>1, <2>2 DEF ForwardPatched, SyncLands, SipRecorded, Reopens, TypeOK, Records
  <2> QED BY <1>2, <2>3 DEF Closed
<1>3. CASE shut
  <2>1. CASE \E p \in Polls : SipRecorded(p)
    <3>1. PICK p \in Polls : SipRecorded(p)
      BY <2>1
    <3>2. /\ record'.ended = record.ended
          /\ record'.status = record.status \/ record'.status = "transferred"
      BY <3>1 DEF SipRecorded, TypeOK, Records
    <3> QED BY <1>3, <3>1, <3>2 DEF SipRecorded, Closed, roomVars
  <2>2. CASE ~ \E p \in Polls : SipRecorded(p)
    <3>1. /\ shut' /\ completed' = completed /\ transferred' = transferred
          /\ record'.ended = record.ended
          /\ UNCHANGED <<record, late, filed>> \/ (late' /\ record'.status = "in_progress")
          /\ room' = "deleted" \/ (room' = room /\ ai' = ai)
      BY <1>3, <2>2 DEF Next, Agent, World, Over, PollStep, Accepts, ForwardSip, Refer, Alive,
         Serving, Forward, ForwardUnavailable, ForwardPatched, OperatorRequested, ForwardRefused,
         ForwardAccepted, PollStatus, Look, LookTimeout, HandOver, SessionEvent, SilenceGoodbye,
         SilenceEnds, ToolEnds, EndCall, DeleteRoom, SyncTranscript, SyncLands, Reopens, Shutdown,
         QueueMoves, OperatorJoins, OperatorLeaves, CallerLeaves, TypeOK, Records, vars, roomVars,
         agentVars, platform
    <3> QED BY <1>3, <3>1 DEF Closed
  <2> QED BY <2>1, <2>2
<1>4. shut' => shut \/ Shutdown
  BY DEF Next, Agent, World, Over, PollStep, Accepts, ForwardSip, Refer, SipRecorded,
     Forward, ForwardUnavailable, ForwardPatched,
     OperatorRequested, ForwardRefused, ForwardAccepted, PollStatus, Look, LookTimeout, HandOver,
     SessionEvent, SilenceGoodbye, SilenceEnds, ToolEnds, EndCall, DeleteRoom, SyncTranscript,
     SyncLands, QueueMoves, OperatorJoins, OperatorLeaves, CallerLeaves, vars
<1> QED BY <1>1, <1>2, <1>3, <1>4 DEF TypeOK

LEMMA StepIInv == IInv /\ [Next]_vars => IInv'
BY TypeKept, EmptiedKept, DepartureKept, ClosedKept DEF IInv

-----------------------------------------------------------------------------
(* The handoff is type correct for any number of polls, attempts and looks *)
(* (tenant_agent.py, do_forward_to_operator to _end_call_completely).      *)
THEOREM HandoffTypeOK == Spec => []TypeOK
<1>1. IInv => TypeOK
  BY DEF IInv
<1> QED BY InitIInv, StepIInv, <1>1, PTL DEF Spec

(* The shutdown of an agent never closes the record of a call an operator  *)
(* goes on with, unless its room could not be deleted                      *)
(* (lifecycle/shutdown.py).                                                *)
THEOREM LiveCallStaysOpen == Spec => []LiveCallNotEnded
<1>1. IInv => LiveCallNotEnded
  BY DEF IInv, TypeOK, Departure, Closed, LiveCallNotEnded
<1> QED BY InitIInv, StepIInv, <1>1, PTL DEF Spec

(* A call accepted for transfer is never recorded as completed, and says   *)
(* transferred once its final PATCH was applied and no earlier one landed  *)
(* after it, for any number of polls and any order of the requests         *)
(* (lifecycle/shutdown.py).                                                *)
THEOREM TransferStaysRecorded == Spec => []TransferRecorded
<1>1. IInv => TransferRecorded
  BY DEF IInv, Closed, TransferRecorded
<1> QED BY InitIInv, StepIInv, <1>1, PTL DEF Spec

(* While its room can be deleted the caller is never left alone by the     *)
(* agent: the handoff implements CallerAttendance.                         *)
THEOREM CallerStaysAttended == Spec => CallerAttended
<1>1. Init => Attendance!Init
  BY DEF Init, Present, Ended, Attendance!Init
<1>2. ASSUME IInv, [Next]_vars
      PROVE  [Attendance!Next]_<<Present, Ended>>
  <2>0. /\ Emptied /\ Departure
        /\ ai \in BOOLEAN /\ operator \in BOOLEAN /\ stuck \in BOOLEAN
    BY <1>2 DEF IInv, TypeOK
  <2>1. CASE UNCHANGED roomVars
    BY <2>1 DEF roomVars, Present, Ended
  <2>2. CASE stuck
    <3>1. stuck'
      BY <1>2, <2>0, <2>2, RoomSteps
      DEF HandOver, DeleteRoom, OperatorJoins, OperatorLeaves, CallerLeaves, roomVars
    <3> QED BY <2>2, <3>1 DEF Present, Ended
  <2>3. ASSUME ~stuck, NEW p \in Polls, HandOver(p)
        PROVE  Attendance!AiLeaves \/ UNCHANGED <<Present, Ended>>
    <3>1. operator
      BY <2>3 DEF HandOver, Seen
    <3>2. room # "deleted"
      BY <2>0, <3>1 DEF Emptied
    <3>3. UNCHANGED <<operator, room, stuck>> /\ ai' \in {FALSE, ai}
      BY <2>3 DEF HandOver
    <3>4. CASE ai' = ai
      BY <3>3, <3>4 DEF Present, Ended
    <3>5. CASE ai' = FALSE
      <4>1. "operator" \in Present /\ Present' = {"operator"}
        BY <2>3, <3>1, <3>3, <3>5 DEF Present
      <4> QED BY <2>3, <3>2, <3>3, <4>1 DEF Ended, Attendance!AiLeaves
    <3> QED BY <3>3, <3>4, <3>5
  <2>4. ASSUME ~stuck, DeleteRoom \/ CallerLeaves
        PROVE  Attendance!CallEnds \/ UNCHANGED <<Present, Ended>>
    <3>1. Ended' /\ Present' = {}
      BY <2>4 DEF DeleteRoom, CallerLeaves, Present, Ended
    <3>2. CASE room = "deleted"
      BY <2>0, <2>4, <3>1, <3>2 DEF Emptied, Present, Ended
    <3>3. CASE room # "deleted"
      BY <2>4, <3>1, <3>3 DEF Attendance!CallEnds, Ended
    <3> QED BY <3>2, <3>3
  <2>5. ASSUME ~stuck, OperatorJoins PROVE Attendance!OperatorJoins
    <3>1. Present' = Present \cup {"operator"}
      BY <2>5 DEF OperatorJoins, Present
    <3> QED BY <2>5, <3>1 DEF OperatorJoins, Ended, Attendance!OperatorJoins
  <2>6. ASSUME ~stuck, OperatorLeaves PROVE Attendance!OperatorLeaves
    <3>1. Present' = Present \ {"operator"}
      BY <2>6 DEF OperatorLeaves, Present
    <3>2. room # "deleted"
      BY <2>0, <2>6 DEF OperatorLeaves, Emptied
    <3> QED BY <2>6, <3>1, <3>2 DEF OperatorLeaves, Ended, Attendance!OperatorLeaves
  <2>7. \/ UNCHANGED roomVars
        \/ \E p \in Polls : HandOver(p)
        \/ DeleteRoom \/ OperatorJoins \/ OperatorLeaves \/ CallerLeaves
    BY <1>2, RoomSteps
  <2> QED BY <2>1, <2>2, <2>3, <2>4, <2>5, <2>6, <2>7 DEF Attendance!Next
<1> QED BY InitIInv, StepIInv, <1>1, <1>2, PTL DEF Spec, CallerAttended, Attendance!Spec
=============================================================================
