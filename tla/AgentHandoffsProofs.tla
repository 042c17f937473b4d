------------------------- MODULE AgentHandoffsProofs -------------------------
(***************************************************************************)
(* What AgentHandoffs keeps for any number of agents, requests and         *)
(* submissions.                                                            *)
(***************************************************************************)
EXTENDS AgentHandoffs, TLAPS

-----------------------------------------------------------------------------
(* The chain of agents. *)

(* The session's part of the type invariant and NoNestedAppeals: inductive *)
(* together, because a return goes to the parent of the current agent.     *)
Chain ==
  /\ MaxAgents \in Nat
  /\ made \in 1 .. MaxAgents /\ current \in 1 .. made
  /\ parent \in [1 .. MaxAgents -> 0 .. MaxAgents]
  /\ \A a \in 1 .. made : parent[a] < a /\ (parent[a] # 0 => parent[parent[a]] = 0)

LEMMA ChainIs == Chain => SessionOK /\ NoNestedAppeals
BY DEF Chain, SessionOK, NoNestedAppeals, Main, Ids

LEMMA ChainInit == Init => Chain
BY AgentAssumption DEF Init, Chain, Ids

(* A step leaves the session alone, comes (back) to a new main agent, or   *)
(* opens an appeal agent under the current main agent.                     *)
SessionSteps ==
  \/ UNCHANGED session
  \/ Become(0)
  \/ Main(current) /\ Become(current)

LEMMA StepsOfSession == [Next]_vars => SessionSteps
<1>. SUFFICES ASSUME [Next]_vars PROVE SessionSteps
  OBVIOUS
<1>. USE DEF SessionSteps
<1>1. ASSUME Fire PROVE SessionSteps
  BY <1>1 DEF Fire, ReturnToMain
<1>2. CASE SelectLanguage \/ CancelAndReturn \/ EndCallFromAppeal
  BY <1>2 DEF SelectLanguage, CancelAndReturn, EndCallFromAppeal, ReturnToMain
<1>3. CASE TransferToAppeal \/ RequestRedirected \/ ConfirmRedirected
  BY <1>3 DEF TransferToAppeal, RequestRedirected, ConfirmRedirected, Redirects, BecomeAppeal
<1>4. CASE RequestLenient \/ RequestStrict \/ ConfirmFires
  BY <1>1, <1>4 DEF RequestLenient, RequestStrict, ConfirmFires
<1>5. ASSUME NEW a \in Ids, NEW outcome \in Outcomes, SubmitEnds(a, outcome)
      PROVE  SessionSteps
  BY <1>5 DEF SubmitEnds, ReturnToMain
<1>6. CASE ConfirmOutOfHours \/ Submit \/ CollectCsat \/ EndCall \/ HangUp
  BY <1>6 DEF ConfirmOutOfHours, Submit, CollectCsat, EndCall, HangUp
<1>7. ASSUME NEW a \in Ids, HandedOver(a) PROVE SessionSteps
  BY <1>7 DEF HandedOver
<1>8. CASE CallerLeaves \/ Shutdown \/ ClockMoves \/ Over \/ UNCHANGED vars
  BY <1>8 DEF CallerLeaves, Shutdown, ClockMoves, Over, vars, session
<1>. QED  BY <1>2, <1>3, <1>4, <1>5, <1>6, <1>7, <1>8 DEF Next

LEMMA ChainStep == Chain /\ [Next]_vars => Chain' /\ made =< made'
<1>. SUFFICES ASSUME Chain, [Next]_vars PROVE Chain' /\ made =< made'
  OBVIOUS
<1>1. SessionSteps
  BY StepsOfSession
<1>2. CASE UNCHANGED session
  BY <1>2 DEF Chain, session
<1>3. CASE Become(0)
  BY <1>3 DEF Chain, Become
<1>4. CASE Main(current) /\ Become(current)
  BY <1>4 DEF Chain, Become, Main
<1>. QED  BY <1>1, <1>2, <1>3, <1>4 DEF SessionSteps

(* NoNestedAppeals: every parent is a main agent created before its child, *)
(* so the flags _create_main_agent copies are a main agent's flags.        *)
THEOREM AppealsNotNested == Spec => []NoNestedAppeals
<1>1. Init => Chain
  BY ChainInit
<1>2. Chain /\ [Next]_vars => Chain'
  BY ChainStep
<1>3. Chain => NoNestedAppeals
  BY ChainIs
<1>. QED  BY <1>1, <1>2, <1>3, PTL DEF Spec

LEMMA OwnerExists ==
  ASSUME Chain
  PROVE  Owner \in 1 .. made /\ Owner \in Ids /\ Main(Owner)
BY DEF Chain, Owner, Main, Ids

-----------------------------------------------------------------------------
(* The transfer guardian. *)

(* What a step may do to the guardian's state, and with whom in charge.    *)
GuardianSteps ==
  \/ UNCHANGED guardian /\ (Owner' = Owner \/ Owner' = made + 1)
  \/ /\ proposed' = Cleared /\ prompts' = 0
     /\ strikes' \in {NoStrikes, [strikes EXCEPT ![Owner] = @ + 1]}
     /\ Owner' = Owner \/ Owner' = made + 1
  \/ /\ proposed' = proposed \cup {Owner} /\ prompts' = prompts + 1
     /\ strikes' = [strikes EXCEPT ![Owner] = @ + 1]
     /\ ~LoopBreaks(strikes[Owner] + 1)
     /\ Owner' = Owner

LEMMA OwnerStays == UNCHANGED session => Owner' = Owner
BY DEF session, Owner, Main

LEMMA OwnerOfNewMain == ASSUME Chain, Become(0) PROVE Owner' = made + 1
BY DEF Chain, Become, Owner, Main

LEMMA OwnerOfNewAppeal == ASSUME Chain, Main(current), Become(current) PROVE Owner' = Owner
BY DEF Chain, Become, Owner, Main

LEMMA OwnerOfFire == ASSUME Chain, Fire PROVE Owner' = Owner \/ Owner' = made + 1
BY OwnerStays, OwnerOfNewMain DEF Fire, ReturnToMain

LEMMA StepsOfGuardian == Chain /\ [Next]_vars => GuardianSteps
<1>. SUFFICES ASSUME Chain, [Next]_vars PROVE GuardianSteps
  OBVIOUS
<1>1. CASE SelectLanguage \/ CancelAndReturn \/ EndCallFromAppeal
  BY <1>1, OwnerOfNewMain
     DEF GuardianSteps, SelectLanguage, CancelAndReturn, EndCallFromAppeal, ReturnToMain
<1>2. CASE TransferToAppeal \/ RequestRedirected
  BY <1>2, OwnerOfNewAppeal
     DEF GuardianSteps, TransferToAppeal, RequestRedirected, Redirects, BecomeAppeal
<1>3. CASE ConfirmRedirected
  BY <1>3, OwnerOfNewAppeal
     DEF GuardianSteps, ConfirmRedirected, Confirm, Redirects, BecomeAppeal
<1>4. CASE ConfirmOutOfHours
  BY <1>4, OwnerStays DEF GuardianSteps, ConfirmOutOfHours, Confirm
<1>5. CASE RequestLenient
  BY <1>5, OwnerOfFire DEF GuardianSteps, RequestLenient, Fire
<1>6. CASE ConfirmFires
  BY <1>6, OwnerOfFire DEF GuardianSteps, ConfirmFires, Confirm, Fire
<1>7. CASE RequestStrict
  <2>1. CASE proposed' = Cleared /\ Fire
    BY <1>7, <2>1, OwnerOfFire DEF GuardianSteps, RequestStrict, Fire
  <2>2. CASE /\ proposed' = proposed \cup {Owner} /\ prompts' = prompts + 1
             /\ ~LoopBreaks(strikes[Owner] + 1) /\ UNCHANGED session
    BY <1>7, <2>2, OwnerStays DEF GuardianSteps, RequestStrict
  <2>. QED  BY <1>7, <2>1, <2>2 DEF RequestStrict
<1>8. ASSUME NEW a \in Ids, NEW outcome \in Outcomes, SubmitEnds(a, outcome)
      PROVE  GuardianSteps
  BY <1>8, OwnerStays, OwnerOfNewMain DEF GuardianSteps, SubmitEnds, ReturnToMain
<1>9. CASE Submit \/ CollectCsat \/ EndCall \/ HangUp
  BY <1>9, OwnerStays DEF GuardianSteps, Submit, CollectCsat, EndCall, HangUp
<1>10. ASSUME NEW a \in Ids, HandedOver(a) PROVE GuardianSteps
  BY <1>10, OwnerStays DEF GuardianSteps, HandedOver
<1>11. CASE CallerLeaves \/ Shutdown \/ ClockMoves \/ Over \/ UNCHANGED vars
  BY <1>11, OwnerStays
     DEF GuardianSteps, CallerLeaves, Shutdown, ClockMoves, Over, vars, guardian, session
<1>. QED
  BY <1>1, <1>2, <1>3, <1>4, <1>5, <1>6, <1>7, <1>8, <1>9, <1>10, <1>11 DEF Next

(* A proposal is held by agents that exist, so a new agent has none; the   *)
(* owner's is spent with the transfer, whoever fires it.                   *)
Unspent == proposed \subseteq 1 .. made /\ prompts \in Nat /\ ProposalUnspent

LEMMA UnspentStep ==
  ASSUME Chain, Unspent, [Next]_vars
  PROVE  Unspent'
<1>1. GuardianSteps /\ made =< made' /\ made' \in Nat /\ made \in Nat
  BY StepsOfGuardian, ChainStep DEF Chain
<1>2. Owner \in 1 .. made
  BY OwnerExists
<1>3. CASE UNCHANGED guardian /\ (Owner' = Owner \/ Owner' = made + 1)
  BY <1>1, <1>3 DEF Unspent, ProposalUnspent, guardian
<1>4. CASE /\ proposed' = Cleared /\ prompts' = 0
           /\ Owner' = Owner \/ Owner' = made + 1
  BY <1>1, <1>2, <1>4 DEF Unspent, ProposalUnspent, Cleared
<1>5. CASE /\ proposed' = proposed \cup {Owner} /\ prompts' = prompts + 1
           /\ Owner' = Owner
  BY <1>1, <1>2, <1>5 DEF Unspent, ProposalUnspent
<1>. QED  BY <1>1, <1>3, <1>4, <1>5 DEF GuardianSteps

(* ProposalUnspent: no confirm_escalation fires a second transfer on a     *)
(* reflection prompt that was used up, in any agent of the call.           *)
THEOREM ConfirmNeedsPrompt == Spec => []ProposalUnspent
<1>1. Init => Chain /\ Unspent
  BY ChainInit DEF Init, Unspent, ProposalUnspent
<1>2. Chain /\ Unspent /\ [Next]_vars => (Chain /\ Unspent)'
  BY ChainStep, UnspentStep
<1>3. Unspent => ProposalUnspent
  BY DEF Unspent
<1>. QED  BY <1>1, <1>2, <1>3, PTL DEF Spec

(* The prompts an owner may have caused: Threshold - 1 for each agent before *)
(* it, and no more than it counts itself.  An agent that was not yet in      *)
(* charge has counted nothing; a loop break leaves the count and zeroes the  *)
(* prompts.                                                                  *)
Counted ==
  /\ strikes \in [Ids -> Nat] /\ prompts \in Nat
  /\ \A a \in Ids : a > Owner => strikes[a] = 0
  /\ prompts =< (Threshold - 1) * (Owner - 1) + strikes[Owner]
  /\ LoopBreakInTime

LEMMA MoreAgents ==
  ASSUME NEW t \in Nat, NEW o \in Nat, NEW m \in Nat, o =< m
  PROVE  t * o \in Nat /\ t * o =< t * m
OBVIOUS

LEMMA OneAgentMore ==
  ASSUME NEW t \in Nat, NEW o \in Nat \ {0}
  PROVE  t * (o - 1) \in Nat /\ t * (o - 1) + t = t * o
OBVIOUS

LEMMA OwnerNext ==
  ASSUME Chain, [Next]_vars
  PROVE  made' \in Nat /\ Owner' \in 1 .. made' /\ Owner' \in Ids
<1>1. Chain'
  BY ChainStep
<1>. QED  BY <1>1 DEF Chain, Owner, Main, Ids

LEMMA CountedStep ==
  ASSUME Chain, Counted, [Next]_vars
  PROVE  Counted'
<1>. PICK t \in Nat : t = Threshold - 1
  BY AgentAssumption
<1>. PICK o \in Nat \ {0} : o = Owner
  BY OwnerExists DEF Chain
<1>. PICK n \in Nat \ {0} : n = Owner'
  BY OwnerNext
<1>1. GuardianSteps /\ o =< made /\ made \in Nat /\ o \in Ids
  BY StepsOfGuardian, OwnerExists DEF Chain
<1>2. n \in Ids
  BY OwnerNext
<1>3. /\ strikes \in [Ids -> Nat] /\ prompts \in Nat
      /\ \A a \in Ids : a > o => strikes[a] = 0
      /\ prompts =< t * (o - 1) + strikes[o] /\ prompts =< t * o
  BY DEF Counted, LoopBreakInTime
<1>4. /\ t * (o - 1) \in Nat /\ t * (o - 1) + t = t * o
      /\ t * (n - 1) \in Nat /\ t * (n - 1) + t = t * n
      /\ t * o \in Nat /\ t * n \in Nat
  BY OneAgentMore, MoreAgents
<1>5. SUFFICES /\ strikes' \in [Ids -> Nat] /\ prompts' \in Nat
               /\ \A a \in Ids : a > n => strikes'[a] = 0
               /\ prompts' =< t * (n - 1) + strikes'[n]
               /\ prompts' =< t * n
  BY DEF Counted, LoopBreakInTime
<1>6. CASE UNCHANGED guardian /\ n = o
  BY <1>3, <1>6 DEF guardian
<1>7. CASE UNCHANGED guardian /\ n = made + 1
  <2>1. n - 1 = made /\ t * o =< t * (n - 1)
    BY <1>1, <1>7, MoreAgents
  <2>2. strikes[n] \in Nat
    BY <1>2, <1>3
  <2>. QED  BY <1>1, <1>3, <1>4, <1>7, <2>1, <2>2 DEF guardian
<1>8. CASE /\ prompts' = 0 /\ strikes' \in {NoStrikes, [strikes EXCEPT ![Owner] = @ + 1]}
           /\ n = o \/ n = made + 1
  <2>1. strikes' \in [Ids -> Nat]
    BY <1>1, <1>3, <1>8 DEF NoStrikes
  <2>2. \A a \in Ids : a > n => strikes'[a] = 0
    BY <1>1, <1>3, <1>8 DEF NoStrikes
  <2>. QED  BY <1>2, <1>4, <1>8, <2>1, <2>2
<1>9. CASE /\ prompts' = prompts + 1 /\ strikes' = [strikes EXCEPT ![Owner] = @ + 1]
           /\ ~LoopBreaks(strikes[Owner] + 1) /\ n = o
  <2>1. strikes' \in [Ids -> Nat] /\ strikes'[o] = strikes[o] + 1 /\ strikes[o] \in Nat
    BY <1>1, <1>3, <1>9
  <2>2. strikes[o] + 1 =< t
    BY <1>9, <2>1, AgentAssumption DEF LoopBreaks
  <2>3. \A a \in Ids : a > n => strikes'[a] = 0
    BY <1>1, <1>3, <1>9
  <2>. QED  BY <1>3, <1>4, <1>9, <2>1, <2>2, <2>3
<1>. QED  BY <1>1, <1>6, <1>7, <1>8, <1>9 DEF GuardianSteps

(* LoopBreakInTime, for any Threshold and any number of agents: the LLM is  *)
(* prompted fewer than Threshold times per agent created, whatever the way  *)
(* the call goes in and out of sub-agents and languages.                    *)
THEOREM LoopBreaksInTime == Spec => []LoopBreakInTime
<1>1. Init => Chain /\ Counted
  <2>1. Init => Counted
    <3>. SUFFICES ASSUME Init PROVE Counted
      OBVIOUS
    <3>1. Owner = 1 /\ strikes = [a \in Ids |-> 0] /\ prompts = 0 /\ 1 \in Ids
      BY AgentAssumption DEF Init, Owner, Main, Ids
    <3>2. (Threshold - 1) * (1 - 1) = 0 /\ (Threshold - 1) * 1 = Threshold - 1
          /\ Threshold - 1 \in Nat
      BY AgentAssumption
    <3>. QED  BY <3>1, <3>2 DEF Counted, LoopBreakInTime
  <2>. QED  BY <2>1, ChainInit
<1>2. Chain /\ Counted /\ [Next]_vars => (Chain /\ Counted)'
  BY ChainStep, CountedStep
<1>3. Counted => LoopBreakInTime
  BY DEF Counted
<1>. QED  BY <1>1, <1>2, <1>3, PTL DEF Spec

-----------------------------------------------------------------------------
(* The appeals of a call. *)

(* While no appeal was lost sight of, the owner in charge knows of the one  *)
(* on file; a submission under way is the only one and belongs to the       *)
(* current agent.                                                           *)
Filing ==
  /\ sending \in [Ids -> Nat]
  /\ filed \in Nat /\ slips \in Nat
  /\ filed =< 1 + slips
  /\ filed = 1 + slips => Owner \in murojaat /\ \A a \in Ids : sending[a] = 0
  /\ \A a \in Ids : sending[a] > 0 => a = current /\ sending[a] = 1 /\ ~Main(a)

(* The steps that neither begin nor end a submission pass the knowledge on. *)
Passed ==
  /\ UNCHANGED <<filed, slips, sending>>
  /\ Owner \in murojaat => Owner' \in murojaat'
  /\ UNCHANGED session \/ sending[current] = 0

LEMMA ReturnPasses ==
  ASSUME Chain, ~Main(current), ReturnToMain(parent[current], murojaat)
  PROVE  Owner \in murojaat => Owner' \in murojaat'
BY OwnerOfNewMain DEF ReturnToMain, Inherit, Owner

LEMMA AppealPasses ==
  ASSUME Chain, Main(current), Become(current), UNCHANGED murojaat
  PROVE  Owner \in murojaat => Owner' \in murojaat'
BY OwnerOfNewAppeal

LEMMA FirePasses == ASSUME Chain, Tool, Fire PROVE Passed
<1>1. CASE Main(current)
  BY <1>1, OwnerStays DEF Passed, Fire
<1>2. CASE ~Main(current)
  BY <1>2, ReturnPasses DEF Passed, Fire, Tool
<1>. QED  BY <1>1, <1>2

LEMMA StepsOfFiling ==
  ASSUME Chain, [Next]_vars
  PROVE  \/ Passed \/ SelectLanguage \/ Submit
         \/ \E a \in Ids, outcome \in Outcomes : SubmitEnds(a, outcome)
<1>1. CASE CancelAndReturn \/ EndCallFromAppeal
  BY <1>1, ReturnPasses DEF CancelAndReturn, EndCallFromAppeal, Passed, Tool
<1>2. CASE TransferToAppeal \/ RequestRedirected \/ ConfirmRedirected
  BY <1>2, AppealPasses
     DEF TransferToAppeal, RequestRedirected, ConfirmRedirected, Confirm, Redirects, BecomeAppeal,
         Passed, Tool, appeals
<1>3. CASE RequestLenient \/ ConfirmFires
  BY <1>3, FirePasses DEF RequestLenient, ConfirmFires, Confirm
<1>4. CASE RequestStrict
  BY <1>4, FirePasses, OwnerStays DEF RequestStrict, Passed, appeals
<1>5. CASE ConfirmOutOfHours \/ CollectCsat \/ EndCall \/ HangUp
  BY <1>5, OwnerStays DEF ConfirmOutOfHours, CollectCsat, EndCall, HangUp, Passed, appeals
<1>6. ASSUME NEW a \in Ids, HandedOver(a) PROVE Passed
  BY <1>6, OwnerStays DEF HandedOver, Passed, appeals
<1>7. CASE CallerLeaves \/ Shutdown \/ ClockMoves \/ Over \/ UNCHANGED vars
  BY <1>7, OwnerStays
     DEF CallerLeaves, Shutdown, ClockMoves, Over, vars, Passed, appeals, session
<1>. QED  BY <1>1, <1>2, <1>3, <1>4, <1>5, <1>6, <1>7 DEF Next

LEMMA FilingStep ==
  ASSUME Chain, Filing, [Next]_vars
  PROVE  Filing'
<1>0. current \in Ids /\ parent[current] \in Nat
  BY DEF Chain, Ids
<1>1. CASE Passed
  BY <1>0, <1>1 DEF Passed, Filing, Main, session, Chain, Ids
<1>2. CASE Submit
  <2>1. Owner = parent[current] /\ parent[current] \notin murojaat /\ sending[current] = 0
    BY <1>2 DEF Submit, MayFile, Owner
  <2>2. filed =< slips /\ UNCHANGED <<filed, slips>>
    BY <1>2, <2>1 DEF Submit, Filing
  <2>3. UNCHANGED session /\ sending' = [sending EXCEPT ![current] = @ + 1] /\ ~Main(current)
    BY <1>2 DEF Submit
  <2>. QED  BY <1>0, <2>1, <2>2, <2>3 DEF Filing, Main, session
<1>3. CASE SelectLanguage
  <2>1. /\ sending[current] = 0 /\ Owner = current /\ UNCHANGED <<filed, sending>>
        /\ slips' = IF current \in murojaat THEN slips + 1 ELSE slips
    BY <1>3 DEF SelectLanguage, Tool, Owner
  <2>2. \A a \in Ids : sending[a] = 0
    BY <1>0, <2>1 DEF Filing
  <2>3. filed =< slips' /\ slips' \in Nat
    BY <2>1, <2>2 DEF Filing
  <2>. QED  BY <2>1, <2>2, <2>3 DEF Filing
<1>4. ASSUME NEW a \in Ids, NEW outcome \in Outcomes, SubmitEnds(a, outcome)
      PROVE  Filing'
  <2>1. a = current /\ sending[a] = 1 /\ filed =< slips /\ ~Main(a)
    BY <1>4 DEF SubmitEnds, Filing
  <2>2. sending' \in [Ids -> Nat] /\ \A b \in Ids : sending'[b] = 0
    BY <1>4, <2>1 DEF SubmitEnds, Filing
  <2>3. CASE outcome = "filed"
    <3>1. filed' = filed + 1 /\ slips' = slips /\ Become(0)
      BY <1>4, <2>1, <2>3 DEF SubmitEnds, ReturnToMain
    <3>2. Owner' \in murojaat'
      BY <1>4, <2>3, <3>1, OwnerOfNewMain DEF SubmitEnds, ReturnToMain, Inherit
    <3>. QED  BY <2>1, <2>2, <3>1, <3>2 DEF Filing
  <2>4. CASE outcome # "filed"
    <3>1. filed \in Nat /\ slips \in Nat /\ outcome \in {"anonymous", "refused", "lost"}
      BY <2>4, AgentAssumption DEF Filing
    <3>2. CASE outcome = "refused"
      <4>1. filed' = filed /\ slips' = slips
        BY <1>4, <3>2 DEF SubmitEnds
      <4>. QED  BY <2>1, <2>2, <3>1, <4>1 DEF Filing
    <3>3. CASE outcome \in {"anonymous", "lost"}
      <4>1. filed' = filed + 1 /\ slips' = slips + 1
        BY <1>4, <3>3 DEF SubmitEnds
      <4>. QED  BY <2>1, <2>2, <3>1, <4>1 DEF Filing
    <3>. QED  BY <3>1, <3>2, <3>3
  <2>. QED  BY <2>3, <2>4
<1>. QED  BY <1>1, <1>2, <1>3, <1>4, StepsOfFiling

(* AppealsAccounted, for any number of agents and submissions: the appeal   *)
(* tool, the out-of-hours gate, cancellations and retries never file a      *)
(* second appeal unless the call lost sight of one.                         *)
THEOREM AppealsAreAccounted == Spec => []AppealsAccounted
<1>1. Init => Chain /\ Filing
  BY ChainInit DEF Init, Filing
<1>2. Chain /\ Filing /\ [Next]_vars => (Chain /\ Filing)'
  BY ChainStep, FilingStep
<1>3. Filing => AppealsAccounted
  BY DEF Filing, AppealsAccounted
<1>. QED  BY <1>1, <1>2, <1>3, PTL DEF Spec

-----------------------------------------------------------------------------
(* What the final record says of a transfer. *)

(* The first agent, which the shutdown reads, keeps a reason whenever a     *)
(* forward of its own was accepted; no other agent's flag reaches it.       *)
Explained ==
  /\ made \in Nat \ {0}
  /\ 1 \in offered \cup left \cup polls => 1 \in meta
  /\ final.transferred => final.meta

LEMMA ExplainedStep ==
  ASSUME Chain, Explained, [Next]_vars
  PROVE  Explained'
<1>1. made' \in Nat \ {0} /\ made + 1 # 1
  BY ChainStep DEF Chain
<1>2. ASSUME UNCHANGED <<flags, final>> PROVE Explained'
  BY <1>1, <1>2 DEF Explained, flags
<1>3. ASSUME NEW p, offered' = Inherit(offered, p), UNCHANGED <<left, meta, polls, final>>
      PROVE  Explained'
  BY <1>1, <1>3 DEF Explained, Inherit
<1>4. ASSUME Fire PROVE Explained'
  <2>1. CASE Main(current)
    <3>1. /\ current' = current /\ meta' = meta \cup {current}
          /\ offered' \subseteq offered \cup {current'} /\ polls' \subseteq polls \cup {current'}
          /\ UNCHANGED <<left, final>>
      BY <1>4, <2>1 DEF Fire, Buffered, session, call
    <3>. QED  BY <1>1, <3>1 DEF Explained
  <2>2. CASE ~Main(current)
    <3>1. /\ current' = made + 1 /\ meta' = meta \cup {made + 1}
          /\ offered' \subseteq offered \cup {made + 1} /\ polls' \subseteq polls \cup {made + 1}
          /\ UNCHANGED <<left, final>>
      BY <1>4, <2>2 DEF Fire, Buffered, ReturnToMain, Become, Inherit, call
    <3>. QED  BY <1>1, <3>1 DEF Explained
  <2>. QED  BY <2>1, <2>2
<1>5. CASE SelectLanguage \/ TransferToAppeal \/ RequestRedirected \/ ConfirmRedirected
           \/ ConfirmOutOfHours \/ Submit
  BY <1>2, <1>5 DEF SelectLanguage, TransferToAppeal, RequestRedirected, ConfirmRedirected,
                    ConfirmOutOfHours, Submit, call
<1>6. CASE CancelAndReturn \/ EndCallFromAppeal
  BY <1>3, <1>6 DEF CancelAndReturn, EndCallFromAppeal, call
<1>7. CASE RequestLenient \/ RequestStrict \/ ConfirmFires
  BY <1>2, <1>4, <1>7 DEF RequestLenient, RequestStrict, ConfirmFires, call
<1>8. ASSUME NEW a \in Ids, NEW outcome \in Outcomes, SubmitEnds(a, outcome)
      PROVE  Explained'
  BY <1>2, <1>3, <1>8 DEF SubmitEnds, flags, call
<1>9. CASE CollectCsat
  BY <1>1, <1>9 DEF CollectCsat, Explained, call
<1>10. ASSUME NEW a \in Ids, HandedOver(a) PROVE Explained'
  BY <1>1, <1>10 DEF HandedOver, Explained
<1>11. CASE Shutdown
  BY <1>1, <1>11 DEF Shutdown, Explained, flags
<1>12. CASE EndCall \/ HangUp \/ CallerLeaves \/ ClockMoves \/ Over \/ UNCHANGED vars
  BY <1>2, <1>12 DEF EndCall, HangUp, CallerLeaves, ClockMoves, Over, vars, flags
<1>. QED
  BY <1>5, <1>6, <1>7, <1>8, <1>9, <1>10, <1>11, <1>12 DEF Next

(* TransferExplained, for any number of agents: a final record that says    *)
(* transferred carries the reason, whichever agent the call had swapped to. *)
THEOREM TransfersExplained == Spec => []TransferExplained
<1>1. Init => Chain /\ Explained
  BY ChainInit DEF Init, Explained, NoFinal
<1>2. Chain /\ Explained /\ [Next]_vars => (Chain /\ Explained)'
  BY ChainStep, ExplainedStep
<1>3. Explained => TransferExplained
  BY DEF Explained, TransferExplained
<1>. QED  BY <1>1, <1>2, <1>3, PTL DEF Spec

-----------------------------------------------------------------------------
(* Type correctness, one group of variables after the other. *)

LEMMA GuardianTyped ==
  ASSUME Chain, GuardianOK, [Next]_vars
  PROVE  GuardianOK'
<1>1. GuardianSteps /\ made =< made' /\ made' \in Nat /\ made \in Nat /\ Owner \in 1 .. made
  BY StepsOfGuardian, ChainStep, OwnerExists DEF Chain
<1>2. proposed' \subseteq 1 .. made' /\ prompts' \in Nat
  <2>1. \/ proposed' = proposed /\ prompts' = prompts
        \/ proposed' = proposed \ {Owner} /\ prompts' = 0
        \/ proposed' = proposed \cup {Owner} /\ prompts' = prompts + 1
    BY <1>1 DEF GuardianSteps, Cleared, guardian
  <2>2. proposed \subseteq 1 .. made /\ prompts \in Nat
    BY DEF GuardianOK
  <2>3. proposed' \subseteq proposed \cup {Owner}
    BY <2>1
  <2>4. prompts' \in Nat
    BY <2>1, <2>2
  <2>. QED  BY <1>1, <2>2, <2>3, <2>4
<1>3. strikes' \in {strikes, NoStrikes} \/ (/\ strikes[Owner] < MaxStrikes
                                          /\ strikes' = [strikes EXCEPT ![Owner] = @ + 1])
  <2>1. CASE RequestLenient \/ RequestStrict \/ ConfirmFires \/ ConfirmRedirected \/ ConfirmOutOfHours
    BY <2>1 DEF RequestLenient, RequestStrict, ConfirmFires, ConfirmRedirected, ConfirmOutOfHours,
                Confirm
  <2>2. CASE SelectLanguage \/ TransferToAppeal \/ CancelAndReturn \/ RequestRedirected \/ Submit
    BY <2>2 DEF SelectLanguage, TransferToAppeal, CancelAndReturn, RequestRedirected, Submit,
                guardian
  <2>3. ASSUME NEW a \in Ids, NEW outcome \in Outcomes, SubmitEnds(a, outcome) \/ HandedOver(a)
        PROVE  strikes' = strikes
    BY <2>3 DEF SubmitEnds, HandedOver, guardian
  <2>4. CASE CollectCsat \/ EndCall \/ EndCallFromAppeal \/ HangUp \/ CallerLeaves \/ Shutdown
             \/ ClockMoves \/ Over \/ UNCHANGED vars
    BY <2>4 DEF CollectCsat, EndCall, EndCallFromAppeal, HangUp, CallerLeaves, Shutdown,
                ClockMoves, Over, vars, guardian
  <2>5. ASSUME NEW a \in Ids, HandedOver(a) PROVE strikes' = strikes
    BY <2>5 DEF HandedOver, guardian
  <2>. QED  BY <2>1, <2>2, <2>3, <2>4, <2>5 DEF Next
<1>4. MaxStrikes \in Nat /\ strikes \in [Ids -> 0 .. MaxStrikes]
  BY AgentAssumption DEF GuardianOK
<1>5. strikes' \in [Ids -> 0 .. MaxStrikes]
  BY <1>3, <1>4 DEF NoStrikes
<1>. QED  BY <1>2, <1>5 DEF GuardianOK

(* Only an appeal agent that exists submits. *)
Senders == \A a \in Ids : sending[a] > 0 => a \in 1 .. made /\ parent[a] # 0

LEMMA SendersStep ==
  ASSUME Chain, AppealsOK, Senders, [Next]_vars
  PROVE  Senders'
<1>1. made =< made' /\ made' \in Nat /\ made \in Nat /\ current \in 1 .. made /\ current \in Ids
  BY ChainStep DEF Chain, Ids
<1>2. \A a \in 1 .. made : parent'[a] = parent[a]
  BY StepsOfSession DEF SessionSteps, Become, session, Chain
<1>3. UNCHANGED sending \/ Submit \/ \E a \in Ids : sending' = [sending EXCEPT ![a] = @ - 1]
  <2>1. CASE SelectLanguage \/ TransferToAppeal \/ RequestRedirected \/ ConfirmRedirected
             \/ ConfirmOutOfHours \/ CancelAndReturn \/ EndCallFromAppeal
    BY <2>1 DEF SelectLanguage, TransferToAppeal, RequestRedirected, ConfirmRedirected,
                ConfirmOutOfHours, CancelAndReturn, EndCallFromAppeal, appeals
  <2>2. CASE RequestLenient \/ RequestStrict \/ ConfirmFires
    BY <2>2 DEF RequestLenient, RequestStrict, ConfirmFires, Fire, appeals
  <2>3. ASSUME NEW a \in Ids, NEW outcome \in Outcomes, SubmitEnds(a, outcome)
        PROVE  \E b \in Ids : sending' = [sending EXCEPT ![b] = @ - 1]
    BY <2>3 DEF SubmitEnds
  <2>4. CASE CollectCsat \/ EndCall \/ HangUp \/ CallerLeaves \/ Shutdown \/ ClockMoves
             \/ Over \/ UNCHANGED vars
    BY <2>4 DEF CollectCsat, EndCall, HangUp, CallerLeaves, Shutdown, ClockMoves, Over, vars,
                appeals
  <2>5. ASSUME NEW a \in Ids, HandedOver(a) PROVE UNCHANGED sending
    BY <2>5 DEF HandedOver, appeals
  <2>. QED  BY <2>1, <2>2, <2>3, <2>4, <2>5 DEF Next
<1>4. sending \in [Ids -> Nat]
  BY AgentAssumption DEF AppealsOK
<1>5. CASE Submit
  <2>1. sending' = [sending EXCEPT ![current] = @ + 1] /\ parent[current] # 0
    BY <1>5 DEF Submit, Main
  <2>. QED  BY <1>1, <1>2, <1>4, <2>1 DEF Senders
<1>6. ASSUME NEW a \in Ids, sending' = [sending EXCEPT ![a] = @ - 1] PROVE Senders'
  BY <1>1, <1>2, <1>4, <1>6 DEF Senders
<1>7. CASE UNCHANGED sending
  BY <1>1, <1>2, <1>7 DEF Senders
<1>. QED  BY <1>3, <1>5, <1>6, <1>7

LEMMA AppealsTyped ==
  ASSUME Chain, AppealsOK, Senders, [Next]_vars
  PROVE  AppealsOK'
<1>1. made =< made' /\ made' \in Nat /\ made \in Nat /\ current \in 1 .. made /\ current \in Ids
  BY ChainStep DEF Chain, Ids
<1>2. ASSUME UNCHANGED appeals PROVE AppealsOK'
  BY <1>1, <1>2 DEF AppealsOK, appeals
<1>3. ASSUME NEW p, ReturnToMain(p, murojaat), UNCHANGED <<submitted, sending, filed, slips>>
      PROVE  AppealsOK'
  BY <1>1, <1>3 DEF AppealsOK, ReturnToMain, Become, Inherit
<1>4. ASSUME Fire PROVE AppealsOK'
  <2>1. CASE Main(current)
    BY <1>2, <1>4, <2>1 DEF Fire, appeals
  <2>. QED  BY <1>3, <1>4, <2>1 DEF Fire
<1>5. CASE TransferToAppeal \/ RequestRedirected \/ ConfirmRedirected \/ ConfirmOutOfHours
  BY <1>2, <1>5 DEF TransferToAppeal, RequestRedirected, ConfirmRedirected, ConfirmOutOfHours
<1>12. CASE SelectLanguage
  BY <1>1, <1>12 DEF SelectLanguage, AppealsOK
<1>6. CASE CancelAndReturn \/ EndCallFromAppeal
  BY <1>3, <1>6 DEF CancelAndReturn, EndCallFromAppeal
<1>7. CASE RequestLenient \/ RequestStrict \/ ConfirmFires
  BY <1>2, <1>4, <1>7 DEF RequestLenient, RequestStrict, ConfirmFires
<1>8. CASE Submit
  <2>1. sending[current] \in 0 .. MaxFiled /\ filed + sending[current] < MaxFiled
    BY <1>1, <1>8 DEF Submit, AppealsOK
  <2>2. sending' = [sending EXCEPT ![current] = @ + 1] /\ UNCHANGED <<made, murojaat, submitted, filed, slips>>
    BY <1>8 DEF Submit, session
  <2>3. sending[current] + 1 \in 0 .. MaxFiled
    BY <2>1, AgentAssumption DEF AppealsOK
  <2>. QED  BY <1>1, <2>2, <2>3 DEF AppealsOK
<1>9. ASSUME NEW a \in Ids, NEW outcome \in Outcomes, SubmitEnds(a, outcome)
      PROVE  AppealsOK'
  <2>1. sending' \in [Ids -> 0 .. MaxFiled] /\ filed' \in Nat /\ slips' \in Nat
    BY <1>9, AgentAssumption DEF SubmitEnds, AppealsOK
  <2>2. CASE outcome \in {"filed", "anonymous"}
    <3>1. a \in 1 .. made /\ parent[a] # 0
      BY <1>9, AgentAssumption DEF SubmitEnds, Senders, AppealsOK
    <3>2. parent[a] \in 1 .. made
      BY <3>1 DEF Chain
    <3>3. murojaat \subseteq 1 .. made /\ submitted \subseteq 1 .. made
      BY DEF AppealsOK
    <3>4. made' = made + 1 /\ submitted' = submitted \cup {a}
          /\ murojaat' \subseteq murojaat \cup {parent[a], made + 1}
      BY <1>9, <2>2 DEF SubmitEnds, ReturnToMain, Become, Inherit
    <3>5. murojaat' \subseteq 1 .. made' /\ submitted' \subseteq 1 .. made'
      BY <1>1, <3>1, <3>2, <3>3, <3>4
    <3>. QED  BY <2>1, <3>5 DEF AppealsOK
  <2>3. CASE outcome \notin {"filed", "anonymous"}
    BY <1>1, <1>9, <2>1, <2>3 DEF SubmitEnds, AppealsOK, session
  <2>. QED  BY <2>2, <2>3
<1>10. CASE CollectCsat \/ EndCall \/ HangUp \/ CallerLeaves \/ Shutdown \/ ClockMoves
            \/ Over \/ UNCHANGED vars
  BY <1>2, <1>10 DEF CollectCsat, EndCall, HangUp, CallerLeaves, Shutdown, ClockMoves, Over,
                     vars, appeals
<1>11. ASSUME NEW a \in Ids, HandedOver(a) PROVE AppealsOK'
  BY <1>2, <1>11 DEF HandedOver
<1>. QED
  BY <1>5, <1>6, <1>7, <1>8, <1>9, <1>10, <1>11, <1>12 DEF Next

LEMMA FlagsTyped ==
  ASSUME Chain, FlagsOK, [Next]_vars
  PROVE  FlagsOK'
<1>1. /\ made =< made' /\ made' \in Nat /\ made \in Nat /\ current \in 1 .. made
      /\ current' \in 1 .. made'
  BY ChainStep DEF Chain
<1>2. ASSUME UNCHANGED flags PROVE FlagsOK'
  BY <1>1, <1>2 DEF FlagsOK, flags
<1>3. ASSUME NEW p, Become(0), offered' = Inherit(offered, p), UNCHANGED <<left, meta, rated, polls>>
      PROVE  FlagsOK'
  BY <1>1, <1>3 DEF FlagsOK, Become, Inherit
<1>4. ASSUME Fire PROVE FlagsOK'
  <2>1. made' = made + 1 \/ Main(current)
    BY <1>4 DEF Fire, ReturnToMain, Become
  <2>2. offered' \subseteq offered \cup {current', made'}
    BY <1>1, <1>4, <2>1 DEF Fire, Inherit
  <2>3. meta' \subseteq meta \cup {current, made'} /\ polls' \subseteq polls \cup {current'}
        /\ UNCHANGED <<left, rated>>
    BY <1>1, <1>4, <2>1 DEF Fire, Buffered
  <2>4. /\ offered \subseteq 1 .. made /\ left \subseteq 1 .. made /\ meta \subseteq 1 .. made
        /\ rated \subseteq 1 .. made /\ polls \subseteq 1 .. made
    BY DEF FlagsOK
  <2>5. made' \in 1 .. made'
    BY <1>1
  <2>6. offered' \subseteq 1 .. made'
    BY <1>1, <2>2, <2>4, <2>5
  <2>7. meta' \subseteq 1 .. made' /\ polls' \subseteq 1 .. made'
    BY <1>1, <2>3, <2>4
  <2>8. left' \subseteq 1 .. made' /\ rated' \subseteq 1 .. made'
    BY <1>1, <2>3, <2>4
  <2>. QED  BY <2>6, <2>7, <2>8 DEF FlagsOK
<1>5. CASE SelectLanguage \/ TransferToAppeal \/ RequestRedirected \/ ConfirmRedirected
           \/ ConfirmOutOfHours \/ Submit
  BY <1>2, <1>5 DEF SelectLanguage, TransferToAppeal, RequestRedirected, ConfirmRedirected,
                    ConfirmOutOfHours, Submit
<1>6. CASE CancelAndReturn \/ EndCallFromAppeal
  BY <1>3, <1>6 DEF CancelAndReturn, EndCallFromAppeal, ReturnToMain
<1>7. CASE RequestLenient \/ RequestStrict \/ ConfirmFires
  BY <1>2, <1>4, <1>7 DEF RequestLenient, RequestStrict, ConfirmFires
<1>8. ASSUME NEW a \in Ids, NEW outcome \in Outcomes, SubmitEnds(a, outcome)
      PROVE  FlagsOK'
  BY <1>2, <1>3, <1>8 DEF SubmitEnds, ReturnToMain, flags
<1>9. CASE CollectCsat
  BY <1>1, <1>9 DEF CollectCsat, FlagsOK
<1>10. ASSUME NEW a \in Ids, HandedOver(a) PROVE FlagsOK'
  BY <1>1, <1>10 DEF HandedOver, FlagsOK
<1>11. CASE EndCall \/ HangUp \/ CallerLeaves \/ Shutdown \/ ClockMoves \/ Over \/ UNCHANGED vars
  BY <1>2, <1>11 DEF EndCall, HangUp, CallerLeaves, Shutdown, ClockMoves, Over, vars, flags
<1>. QED
  BY <1>5, <1>6, <1>7, <1>8, <1>9, <1>10, <1>11 DEF Next

LEMMA CallTyped ==
  ASSUME CallOK, [Next]_vars
  PROVE  CallOK'
<1>1. ASSUME UNCHANGED call PROVE CallOK'
  BY <1>1 DEF CallOK, call
<1>2. CASE SelectLanguage \/ TransferToAppeal \/ CancelAndReturn \/ RequestRedirected
           \/ RequestLenient \/ RequestStrict
  BY <1>1, <1>2 DEF SelectLanguage, TransferToAppeal, CancelAndReturn, RequestRedirected,
                    RequestLenient, RequestStrict, Fire
<1>3. CASE ConfirmFires \/ ConfirmRedirected \/ ConfirmOutOfHours \/ Submit \/ CollectCsat
  BY <1>1, <1>3 DEF ConfirmFires, ConfirmRedirected, ConfirmOutOfHours, Submit, CollectCsat, Fire
<1>4. ASSUME NEW a \in Ids, NEW outcome \in Outcomes, SubmitEnds(a, outcome) PROVE CallOK'
  BY <1>1, <1>4 DEF SubmitEnds
<1>5. CASE EndCall \/ EndCallFromAppeal \/ HangUp \/ CallerLeaves \/ ClockMoves
  BY <1>5 DEF EndCall, EndCallFromAppeal, HangUp, CallerLeaves, ClockMoves, CallOK
<1>6. CASE Shutdown
  BY <1>6 DEF Shutdown, CallOK, Finals
<1>7. ASSUME NEW a \in Ids, HandedOver(a) PROVE CallOK'
  BY <1>7 DEF HandedOver, CallOK
<1>8. CASE Over \/ UNCHANGED vars
  BY <1>1, <1>8 DEF Over, vars, call
<1>. QED
  BY <1>2, <1>3, <1>4, <1>5, <1>6, <1>7, <1>8 DEF Next

(* TypeOK, for any number of agents, requests and submissions. *)
THEOREM AgentsTypeOK == Spec => []TypeOK
<1>. DEFINE Inv == Chain /\ Senders /\ GuardianOK /\ AppealsOK /\ FlagsOK /\ CallOK
<1>1. Init => Inv
  <2>. SUFFICES ASSUME Init PROVE Inv
    OBVIOUS
  <2>1. Chain
    BY ChainInit
  <2>2. Senders /\ GuardianOK /\ AppealsOK
    BY AgentAssumption DEF Init, Senders, GuardianOK, AppealsOK
  <2>3. FlagsOK
    BY DEF Init, FlagsOK
  <2>4. CallOK
    BY DEF Init, CallOK, Finals, NoFinal
  <2>. QED  BY <2>1, <2>2, <2>3, <2>4
<1>2. Inv /\ [Next]_vars => Inv'
  BY ChainStep, SendersStep, GuardianTyped, AppealsTyped, FlagsTyped, CallTyped
<1>3. Inv => TypeOK
  BY ChainIs DEF TypeOK
<1>. QED  BY <1>1, <1>2, <1>3, PTL DEF Spec
=============================================================================
