---------------------------- MODULE MCConversation ----------------------------
(* The languages of a call are interchangeable; one of its texts is short. *)
EXTENDS Conversation
Swaps == Permutations(Languages)

(* States that differ only in what no step and no property of the run reads *)
(* any more are one: the flow and the injection flag of agents that were    *)
(* left, and the count of questions asked.                                  *)
Left(a) == IF a.kind = "main" THEN [a EXCEPT !.flow = NoFlow, !.injected = TRUE] ELSE a
Read ==
  <<[i \in DOMAIN agents |-> IF i = Now THEN Me ELSE Left(agents[i])],
    lists, turn, said, told, sent, handed, over>>
=============================================================================
