-------------------------- MODULE CallerAttendance --------------------------
(***************************************************************************)
(* What the web transfer promises about a call, without tasks, polls or    *)
(* requests: while the call lasts somebody is with the caller.  The AI is  *)
(* there from the start and leaves only to an operator who is in the room; *)
(* an operator comes and goes as a person does; the call can end at any    *)
(* time.                                                                   *)
(***************************************************************************)
VARIABLES present,  \* who is with the caller: a subset of {"ai", "operator"}
          over      \* the call has ended

Init == present = {"ai"} /\ over = FALSE

OperatorJoins == ~over /\ present' = present \cup {"operator"} /\ UNCHANGED over
OperatorLeaves == ~over /\ present' = present \ {"operator"} /\ UNCHANGED over
AiLeaves == ~over /\ "operator" \in present /\ present' = {"operator"} /\ UNCHANGED over
CallEnds == ~over /\ present' = {} /\ over' = TRUE

Next == OperatorJoins \/ OperatorLeaves \/ AiLeaves \/ CallEnds
Spec == Init /\ [][Next]_<<present, over>>
=============================================================================
