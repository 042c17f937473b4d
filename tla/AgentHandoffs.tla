---------------------------- MODULE AgentHandoffs ----------------------------
(***************************************************************************)
(* The chain of agents one call goes through: the main agent, the appeal   *)
(* agents it hands to, the main agents they come back to, and the ones a   *)
(* language switch creates.  What the call has done so far (the transfer   *)
(* guardian's proposal, the appeal's id, the rating, the transfer flags)   *)
(* is kept on agent objects, some of it copied from one to the next; the   *)
(* shutdown callback reads the first of them.                              *)
(*                                                                         *)
(* One step is one tool call, up to its return; the submission of an       *)
(* appeal, which awaits the platform, is two.  What happens while a        *)
(* forward to the operator is under way is the subject of OperatorHandoff. *)
(***************************************************************************)
EXTENDS Integers

CONSTANTS
  MaxAgents,         \* bound on the agents one call creates
  Threshold,         \* _LOOP_BREAK_THRESHOLD, 2 in the code
  MaxStrikes,        \* bound on the strict requests one agent counts
  MaxFiled,          \* bound on the submissions of a call
  Outcomes,          \* what a submission may come to
  AppealConfigured,  \* BOOLEAN: the tenant has an appeal sub-agent
  Switching          \* BOOLEAN: the tenant is multilingual

ASSUME AgentAssumption ==
  /\ MaxAgents \in Nat \ {0}
  /\ Threshold \in Nat \ {0} /\ MaxStrikes \in Nat /\ Threshold =< MaxStrikes
  /\ MaxFiled \in Nat \ {0}
  /\ Outcomes \subseteq {"filed", "anonymous", "refused", "lost"}
  /\ AppealConfigured \in BOOLEAN /\ Switching \in BOOLEAN

Ids == 1 .. MaxAgents

VARIABLES
  made,        \* agents created so far: 1 .. made
  current,     \* session.current_agent
  parent,      \* _parent_agent of an appeal agent, 0 of a main agent
  proposed,    \* agents with a _proposed_escalation_reason
  strikes,     \* _transfer_rejection_count
  prompts,     \* reflection prompts since the last one a confirm or a transfer used up
  murojaat,    \* agents with a murojaat_id
  submitted,   \* appeal agents with _submitted_once
  sending,     \* submissions of an appeal agent that are under way
  filed,       \* appeals the platform has recorded for the call
  slips,       \* history: times an appeal on file was lost sight of
  offered,     \* agents with transferred set
  left,        \* agents with handoff_completed set
  meta,        \* agents with _pending_transfer_metadata
  rated,       \* agents with _pending_csat
  polls,       \* agents whose operator poll runs
  open,        \* the guardian's clock: within office hours
  asked,       \* the LLM has called end_call
  ending,      \* a _disconnect_when_done task runs
  phase,       \* talking, over (the AI is out of the room), closed
  final        \* what the last PATCH said of the call

session == <<made, current, parent>>
guardian == <<proposed, strikes, prompts>>
appeals == <<murojaat, submitted, sending, filed, slips>>
flags == <<offered, left, meta, rated, polls>>
call == <<open, asked, ending, phase, final>>
vars == <<made, current, parent, proposed, strikes, prompts, murojaat, submitted, sending,
          filed, slips, offered, left, meta, rated, polls, open, asked, ending, phase, final>>

Finals == [transferred : BOOLEAN, ended : BOOLEAN, linked : BOOLEAN, meta : BOOLEAN,
           csat : BOOLEAN]
NoFinal == [transferred |-> FALSE, ended |-> FALSE, linked |-> FALSE, meta |-> FALSE,
            csat |-> FALSE]

SessionOK ==
  /\ made \in Ids /\ current \in 1 .. made
  /\ parent \in [Ids -> 0 .. MaxAgents]
GuardianOK ==
  /\ proposed \subseteq 1 .. made
  /\ strikes \in [Ids -> 0 .. MaxStrikes]
  /\ prompts \in Nat
AppealsOK ==
  /\ murojaat \subseteq 1 .. made /\ submitted \subseteq 1 .. made
  /\ sending \in [Ids -> 0 .. MaxFiled]
  /\ filed \in Nat /\ slips \in Nat
FlagsOK ==
  /\ offered \subseteq 1 .. made /\ left \subseteq 1 .. made /\ meta \subseteq 1 .. made
  /\ rated \subseteq 1 .. made /\ polls \subseteq 1 .. made
CallOK ==
  /\ open \in BOOLEAN /\ asked \in BOOLEAN /\ ending \in BOOLEAN
  /\ phase \in {"talking", "over", "closed"}
  /\ final \in Finals
TypeOK == SessionOK /\ GuardianOK /\ AppealsOK /\ FlagsOK /\ CallOK

Init ==
  /\ made = 1 /\ current = 1
  /\ parent = [a \in Ids |-> 0]
  /\ proposed = {} /\ strikes = [a \in Ids |-> 0] /\ prompts = 0
  /\ murojaat = {} /\ submitted = {} /\ sending = [a \in Ids |-> 0] /\ filed = 0
  /\ slips = 0
  /\ offered = {} /\ left = {} /\ meta = {} /\ rated = {} /\ polls = {}
  /\ open \in BOOLEAN
  /\ asked = FALSE /\ ending = FALSE
  /\ phase = "talking"
  /\ final = NoFinal

Main(a) == parent[a] = 0

(* The agent that holds the guardian's state: a sub-agent delegates to its parent. *)
Owner == IF Main(current) THEN current ELSE parent[current]

(* The LLM may call a tool; a submission under way keeps it waiting. *)
Tool == phase = "talking" /\ sending[current] = 0

-----------------------------------------------------------------------------
(* From one agent to the next. *)

Become(p) ==
  /\ made < MaxAgents
  /\ made' = made + 1
  /\ current' = made + 1
  /\ parent' = [parent EXCEPT ![made + 1] = p]

(* build_appeal_handoff_from_agent: an appeal agent under the current one. *)
BecomeAppeal == Become(current)

(* _create_main_agent copies the appeal's id and the transfer flag of the  *)
(* parent p; nothing else of what the module keeps.                        *)
Inherit(S, p) == IF p \in S THEN S \cup {made + 1} ELSE S
ReturnToMain(p, ids) == Become(0) /\ murojaat' = Inherit(ids, p)

(* The new agent of a language switch does not get the appeal's id. *)
SelectLanguage ==
  /\ Tool /\ Switching /\ Main(current)
  /\ Become(0)
  /\ slips' = IF current \in murojaat THEN slips + 1 ELSE slips
  /\ UNCHANGED <<guardian, murojaat, submitted, sending, filed, flags, call>>

TransferToAppeal ==
  /\ Tool /\ AppealConfigured /\ Main(current)
  /\ current \notin murojaat
  /\ BecomeAppeal
  /\ UNCHANGED <<guardian, appeals, flags, call>>

CancelAndReturn ==
  /\ Tool /\ ~Main(current)
  /\ ReturnToMain(parent[current], murojaat)
  /\ offered' = Inherit(offered, parent[current])
  /\ UNCHANGED <<guardian, submitted, sending, filed, slips, left, meta, rated, polls, call>>

-----------------------------------------------------------------------------
(* The transfer guardian. *)

(* Out of office hours a main agent with an appeal agent configured hands  *)
(* to it; without one the request goes on to the operator.  A sub-agent    *)
(* only says that nobody is there.                                         *)
Redirects == AppealConfigured /\ Main(current)
Passes == open \/ (Main(current) /\ ~AppealConfigured)

(* buffer_metadata: the agent that forwards keeps why. *)
Buffered_SubOnly == IF Main(current) THEN meta ELSE meta \cup {made + 1}  \* mutant
Buffered == meta \cup {IF Main(current) THEN current ELSE made + 1}

(* buffer_metadata and do_forward_to_operator, on the current main agent   *)
(* or on a new one: the platform accepts the forward, or it comes to       *)
(* nothing (refused, no call record, no operator on shift).                *)
Fire ==
  /\ IF Main(current) THEN UNCHANGED <<session, murojaat>>
                      ELSE ReturnToMain(parent[current], murojaat)
  /\ meta' = Buffered
  /\ \E accepted \in {{}, {current'}} :
       /\ offered' = accepted \cup
            (IF Main(current) THEN offered ELSE Inherit(offered, parent[current]))
       /\ polls' = polls \cup accepted
  /\ prompts' = 0
  /\ UNCHANGED <<submitted, sending, filed, slips, left, rated, call>>

Cleared_Kept == proposed   \* mutant: the proposal survives
Cleared == proposed \ {Owner}
NoStrikes == [strikes EXCEPT ![Owner] = 0]

RequestRedirected ==
  /\ Tool /\ ~open /\ Redirects
  /\ BecomeAppeal
  /\ UNCHANGED <<guardian, appeals, flags, call>>

RequestLenient ==
  /\ Tool /\ Passes
  /\ proposed' = Cleared
  /\ strikes' = NoStrikes
  /\ Fire

LoopBreaks_Late(count) == count > Threshold   \* mutant: off by one
LoopBreaks(count) == count >= Threshold

RequestStrict ==
  /\ Tool /\ Passes
  /\ strikes[Owner] < MaxStrikes
  /\ strikes' = [strikes EXCEPT ![Owner] = @ + 1]
  /\ \/ /\ ~LoopBreaks(strikes[Owner] + 1)
        /\ proposed' = proposed \cup {Owner}
        /\ prompts' = prompts + 1
        /\ UNCHANGED <<session, appeals, flags, call>>
     \/ /\ LoopBreaks(strikes[Owner] + 1)
        /\ proposed' = Cleared
        /\ Fire

(* confirm_escalation with a reasoning; without one nothing happens. *)
Confirm ==
  /\ Tool /\ Owner \in proposed
  /\ proposed' = Cleared /\ strikes' = NoStrikes /\ prompts' = 0
ConfirmFires == Confirm /\ Passes /\ Fire
ConfirmRedirected ==
  /\ Confirm /\ ~open /\ Redirects
  /\ BecomeAppeal
  /\ UNCHANGED <<appeals, flags, call>>
ConfirmOutOfHours ==
  /\ Confirm /\ ~open /\ ~Main(current)
  /\ UNCHANGED <<session, appeals, flags, call>>

-----------------------------------------------------------------------------
(* confirm_and_submit of the appeal agent, its fields complete. *)

MayFile_Twice ==                            \* mutant: _submit_started is not asked
  current \notin submitted /\ parent[current] \notin murojaat
MayFile ==
  /\ current \notin submitted
  /\ parent[current] \notin murojaat
  /\ sending[current] = 0

Submit ==
  /\ phase = "talking" /\ ~Main(current)
  /\ MayFile
  /\ filed + sending[current] < MaxFiled
  /\ sending' = [sending EXCEPT ![current] = @ + 1]
  /\ UNCHANGED <<session, guardian, murojaat, submitted, filed, slips, flags, call>>

(* The submission is over: the appeal is on file (with or without an id in *)
(* the answer), it is not, or it is and the answer was lost.               *)
SubmitEnds(a, outcome) ==
  /\ phase # "closed" /\ sending[a] > 0
  /\ sending' = [sending EXCEPT ![a] = @ - 1]
  /\ filed' = IF outcome = "refused" THEN filed ELSE filed + 1
  /\ slips' = IF outcome \in {"anonymous", "lost"} THEN slips + 1 ELSE slips
  /\ IF outcome \in {"filed", "anonymous"}
     THEN /\ submitted' = submitted \cup {a}
          /\ ReturnToMain(parent[a], murojaat \cup (IF outcome = "filed" THEN {parent[a]} ELSE {}))
          /\ offered' = Inherit(offered, parent[a])
     ELSE UNCHANGED <<submitted, session, murojaat, offered>>
  /\ UNCHANGED <<guardian, left, meta, rated, polls, call>>

-----------------------------------------------------------------------------
(* The end of the call. *)

CollectCsat ==
  /\ Tool /\ Main(current)
  /\ rated' = rated \cup {current}
  /\ UNCHANGED <<session, guardian, appeals, offered, left, meta, polls, call>>

(* The agent in charge starts the task that hangs up. *)
EndCall ==
  /\ Tool /\ Main(current)
  /\ asked' = TRUE
  /\ ending' = TRUE
  /\ UNCHANGED <<session, guardian, appeals, flags, open, phase, final>>

(* A sub-agent calls do_end_call of a main agent that does not run yet: it *)
(* has no session, the exception is logged, and the session swaps to it.   *)
EndCallFromAppeal ==
  /\ Tool /\ ~Main(current)
  /\ asked' = TRUE
  /\ ReturnToMain(parent[current], murojaat)
  /\ offered' = Inherit(offered, parent[current])
  /\ UNCHANGED <<guardian, submitted, sending, filed, slips, left, meta, rated, polls,
                 open, ending, phase, final>>

HangUp ==
  /\ phase = "talking" /\ ending
  /\ phase' = "over" /\ ending' = FALSE
  /\ UNCHANGED <<session, guardian, appeals, flags, open, asked, final>>

(* The operator takes the call over from the poll of agent a. *)
HandedOver(a) ==
  /\ phase = "talking" /\ a \in polls
  /\ polls' = polls \ {a}
  /\ left' = left \cup {a}
  /\ offered' = offered \cup {a}
  /\ phase' = "over"
  /\ UNCHANGED <<session, guardian, appeals, meta, rated, open, asked, ending, final>>

CallerLeaves ==
  /\ phase = "talking"
  /\ phase' = "over"
  /\ UNCHANGED <<session, guardian, appeals, flags, open, asked, ending, final>>

(* on_shutdown was registered with the first agent and reads that one. *)
Shutdown ==
  /\ phase = "over"
  /\ phase' = "closed"
  /\ final' = [transferred |-> 1 \in offered \cup left, ended |-> 1 \notin left,
               linked |-> 1 \in murojaat, meta |-> 1 \in meta, csat |-> 1 \in rated]
  /\ UNCHANGED <<session, guardian, appeals, flags, open, asked, ending>>

ClockMoves ==
  /\ phase = "talking"
  /\ open' = ~open
  /\ UNCHANGED <<session, guardian, appeals, flags, asked, ending, phase, final>>

Over == phase = "closed" /\ UNCHANGED vars

Next ==
  \/ SelectLanguage \/ TransferToAppeal \/ CancelAndReturn
  \/ RequestRedirected \/ RequestLenient \/ RequestStrict
  \/ ConfirmFires \/ ConfirmRedirected \/ ConfirmOutOfHours
  \/ Submit \/ \E a \in Ids, outcome \in Outcomes : SubmitEnds(a, outcome)
  \/ CollectCsat \/ EndCall \/ EndCallFromAppeal \/ HangUp
  \/ \E a \in Ids : HandedOver(a)
  \/ CallerLeaves \/ Shutdown \/ ClockMoves \/ Over

Spec == Init /\ [][Next]_vars

-----------------------------------------------------------------------------
(* Properties. *)

(* The agent in charge can always get back to a main agent: whoever opens  *)
(* an appeal, the tool or the out-of-hours gate, is a main agent, so what  *)
(* _create_main_agent copies from the parent is there to be copied.        *)
NoNestedAppeals == \A a \in 1 .. made : parent[a] < a /\ (~Main(a) => Main(parent[a]))

(* confirm_escalation fires only on a reflection prompt nothing has fired  *)
(* since: a transfer, whatever reason, agent or loop break fired it, uses  *)
(* up the proposal.                                                        *)
ProposalUnspent == Owner \in proposed => prompts > 0

(* Whichever agents of the call open appeals, and by whichever path, there *)
(* is one appeal on file and one more for each time the call lost sight of *)
(* one: its answer was lost or had no id, or a language switch dropped it. *)
AppealsAccounted == filed =< 1 + slips

(* "One successful appeal submission per call" (confirm_and_submit).       *)
AtMostOneAppeal == filed =< 1

(* The loop break: an agent that holds the guardian's count prompts fewer  *)
(* than Threshold times before a transfer, and an agent that was left is   *)
(* not counted on again (evaluate_request).  This is what the code and its *)
(* tests do with their 2: the second request breaks the loop               *)
(* (transfer_guardian.py:44, 126).  The comments that speak of three       *)
(* strikes, or of a break at the request after the Threshold-th, allow one *)
(* prompt more than this.                                                  *)
LoopBreakInTime == prompts =< (Threshold - 1) * Owner

(* A final record that says the call was transferred says why.             *)
TransferExplained == phase = "closed" /\ final.transferred => final.meta

(* The final PATCH tells what happened to the call: an operator it was     *)
(* handed to goes on with it, an appeal that was filed and not lost sight  *)
(* of is linked, and the caller's rating is in it.                         *)
FinalTellsTheCall ==
  phase = "closed" => /\ left # {} => ~final.ended
                      /\ filed > slips => final.linked
                      /\ rated # {} => final.csat

(* Once end_call was called, the call is over or about to be.              *)
EndCallHangsUp == asked => ending \/ phase # "talking"
=============================================================================
