----------------------------- MODULE Conversation -----------------------------
(***************************************************************************)
(* What is said in a call and what is kept of it (agents/tenant_agent.py,  *)
(* agents/sub_agents/base_sub_agent.py, tools/platform/select_language.py, *)
(* lifecycle/session_events.py and shutdown.py, context/, flows/).  The    *)
(* session hands each turn of the caller to the current agent's callback,  *)
(* then commits it; replies are committed at any time.  Main agents follow *)
(* one another through language switches, which share the history list,   *)
(* and returns from a sub-agent, which copy it; the commits all go to the  *)
(* list of the first agent, syncs send the list of the current one.        *)
(***************************************************************************)
EXTENDS Naturals, SequencesExt, FiniteSetsExt

CONSTANTS
  Texts,       \* what is said
  Short,       \* those of 10 characters or fewer, which no summary quotes
  Languages, Flows,
  NoFlow, NoTurn, NoRequest,
  Closing,     \* the closing message of a submitted appeal
  SyncEvery,   \* user turns from one sync to the next: 5
  WindowSize,  \* window_size of the context window: 5
  Slack,       \* turns it may hold over that: 2
  Questions,   \* turns a summary quotes: 3
  MaxSaid, MaxAgents   \* bounds

ASSUME SizesAssumption ==
  /\ SyncEvery \in Nat \ {0} /\ WindowSize \in Nat \ {0} /\ Slack \in Nat /\ Questions \in Nat \ {0}
  /\ Short \subseteq Texts
  /\ NoTurn \notin [role : {"user"}, text : Texts]

VARIABLES
  agents,   \* the agents of the call in the order they were made; the last one is current
  lists,    \* the lists that are some agent's conversation_history
  turn,     \* the caller's turn from its callback to its commit
  said,     \* history: what was committed
  told,     \* history: the turns the callbacks of main agents were given
  asked,    \* history: how often the LLM was told to ask about the last call's topic
  sent,     \* the latest transcript sent to the platform
  handed,   \* handoff_completed of the first agent: an operator has the call
  over

vars == <<agents, lists, turn, said, told, asked, sent, handed, over>>

User(t) == [role |-> "user", text |-> t]
Reply(t) == [role |-> "agent", text |-> t]

Items == [role : {"user", "agent"}, text : Texts \cup {Closing}]
Turns == [number : Nat, text : Texts]
Windows == [turns : Seq(Turns), summary : SUBSET Turns]
Requests == [final : BOOLEAN, transcript : Seq(Items), told : Seq(Items)]
MainAgents ==
  [kind : {"main"}, list : Nat \ {0}, language : Languages, window : Windows, heard : Seq(Texts),
   unsynced : Nat, injected : BOOLEAN, flow : Flows \cup {NoFlow}]
SubAgents == [kind : {"sub"}, parent : Nat \ {0}]
ASSUME NoRequestAssumption == NoRequest \notin Requests

TypeOK ==
  /\ agents \in Seq(MainAgents \cup SubAgents) /\ lists \in Seq(Seq(Items))
  /\ turn \in Items \cup {NoTurn} /\ said \in Seq(Items) /\ told \in Seq(Items)
  /\ asked \in Nat /\ handed \in BOOLEAN /\ over \in BOOLEAN
  /\ sent \in Requests \cup {NoRequest}

-----------------------------------------------------------------------------
(* context/window.py: recent turns in full, and a summary that quotes the  *)
(* last of the turns let go with them that are not short.                  *)
EmptyWindow == [turns |-> <<>>, summary |-> {}]
Latest(s, n) == IF Len(s) <= n THEN s ELSE SubSeq(s, Len(s) - n + 1, Len(s))
Old(turns) == SubSeq(turns, 1, Len(turns) - WindowSize)
Quoted(old) ==
  LET long == {one \in ToSet(old) : one.text \notin Short}
  IN  {q \in long : Cardinality({later \in long : later.number > q.number}) < Questions}
Compress_OneLess(turns) ==              \* mutant: the oldest of the recent turns is cut as well
  [turns |-> Latest(turns, WindowSize - 1), summary |-> Quoted(Old(turns))]
Compress(turns) ==
  [turns |-> Latest(turns, WindowSize), summary |-> Quoted(Old(turns))]
AddTurn(window, n, t) ==                \* the n-th turn of this agent
  LET turns == Append(window.turns, [number |-> n, text |-> t])
  IN  IF Len(turns) > WindowSize + Slack THEN Compress(turns) ELSE [window EXCEPT !.turns = turns]

-----------------------------------------------------------------------------
NewMain(list, language) ==
  [kind |-> "main", list |-> list, language |-> language, window |-> EmptyWindow,
   heard |-> <<>>, unsynced |-> 0, injected |-> FALSE, flow |-> NoFlow]
Sub(parent) == [kind |-> "sub", parent |-> parent]

Init ==
  /\ \E language \in Languages : agents = <<NewMain(1, language)>>
  /\ lists = <<<<>>>>
  /\ turn = NoTurn /\ said = <<>> /\ told = <<>> /\ asked = 0
  /\ sent = NoRequest /\ handed = FALSE /\ over = FALSE

Now == Len(agents)
Me == agents[Now]
Talking == ~over /\ turn = NoTurn /\ Len(said) < MaxSaid

(* _sync_transcript and on_shutdown: a request with the list as it is.     *)
Sync(transcript, turns) == [final |-> FALSE, transcript |-> transcript, told |-> turns]
Final(transcript) == [final |-> TRUE, transcript |-> transcript, told |-> <<>>]

(* on_user_turn_completed of a main agent: the window, the history, a sync *)
(* every so many turns; the question about the last call unless a flow     *)
(* guides the turn.  The topic of the last call is known.                  *)
Guided(a) == a.flow # NoFlow
Asks(a) == ~a.injected /\ ~Guided(a)
Due(a) == a.unsynced + 1 >= SyncEvery

UserTurn(t) ==
  /\ Talking /\ Me.kind = "main"
  /\ agents' = [agents EXCEPT ![Now] =
       [Me EXCEPT !.window = AddTurn(Me.window, Len(Me.heard) + 1, t), !.heard = Append(@, t),
                  !.unsynced = IF Due(Me) THEN 0 ELSE @ + 1,
                  !.injected = @ \/ ~Guided(Me)]]
  /\ told' = Append(told, User(t))
  /\ LET transcript == Append(lists[Me.list], User(t))
     IN  /\ lists' = [lists EXCEPT ![Me.list] = transcript]
         /\ sent' = IF Due(Me) THEN Sync(transcript, told') ELSE sent
  /\ asked' = IF Asks(Me) THEN asked + 1 ELSE asked
  /\ turn' = User(t)
  /\ UNCHANGED <<said, handed, over>>

(* A sub-agent has no such callback.                                       *)
UserTurnInSub(t) ==
  /\ Talking /\ Me.kind = "sub"
  /\ turn' = User(t)
  /\ UNCHANGED <<agents, lists, said, told, asked, sent, handed, over>>

(* on_conversation_item_added: the list of the first agent, unless its     *)
(* last entry says the same.                                               *)
Known_ByRole(list, item) ==             \* mutant: the texts are not compared
  list # <<>> /\ Last(list).role = item.role
Known(list, item) == list # <<>> /\ Last(list) = item

Committed(item) ==
  /\ said' = Append(said, item)
  /\ LET first == agents[1].list
     IN  lists' = IF Known(lists[first], item) THEN lists ELSE [lists EXCEPT ![first] = Append(@, item)]
  /\ UNCHANGED <<agents, told, asked, sent, handed, over>>

CommitTurn ==
  /\ ~over /\ turn # NoTurn
  /\ Committed(turn)
  /\ turn' = NoTurn

AgentSpeaks(t) ==
  /\ ~over /\ Len(said) < MaxSaid
  /\ Committed(Reply(t))
  /\ UNCHANGED turn

-----------------------------------------------------------------------------
(* The tools, called in reply to a turn.                                   *)
Replying == ~over /\ turn = NoTurn /\ said # <<>>

(* start_flow: what runs ends before the flow asked for is looked up.      *)
StartFlow ==
  /\ Replying /\ Me.kind = "main"
  /\ \E flow \in Flows \cup {NoFlow} :   \* NoFlow: an unknown id
       agents' = [agents EXCEPT ![Now] = [Me EXCEPT !.flow = flow]]
  /\ UNCHANGED <<lists, turn, said, told, asked, sent, handed, over>>

(* select_language: a new main agent with the same list, unless it is the  *)
(* language spoken already.                                                *)
SwitchLanguage ==
  /\ Replying /\ Me.kind = "main" /\ Now < MaxAgents
  /\ \E language \in Languages \ {Me.language} :
       agents' = Append(agents, NewMain(Me.list, language))
  /\ UNCHANGED <<lists, turn, said, told, asked, sent, handed, over>>

Transfer ==
  /\ Replying /\ Me.kind = "main" /\ Now + 1 < MaxAgents
  /\ agents' = Append(agents, Sub(Now))
  /\ UNCHANGED <<lists, turn, said, told, asked, sent, handed, over>>

(* _create_main_agent: a new main agent with a copy of the parent's list,  *)
(* to which a submitted appeal adds its closing message.                   *)
Copied_Fresh(list) == <<>>              \* mutant: the history is not forwarded
Copied(list) == list
Return ==
  /\ Replying /\ Me.kind = "sub" /\ Now < MaxAgents
  /\ LET parent == agents[Me.parent]
     IN  /\ \E closing \in {<<>>, <<Reply(Closing)>>} :
              lists' = Append(lists, Copied(lists[parent.list]) \o closing)
         /\ agents' = Append(agents, NewMain(Len(lists) + 1, parent.language))
  /\ UNCHANGED <<turn, said, told, asked, sent, handed, over>>

-----------------------------------------------------------------------------
(* The poll of the first agent hands the call to an operator.  Whether or  *)
(* not the assistant gets out of the room, what is said goes on; handovers *)
(* of later agents set no flag that the shutdown callback reads.           *)
HandOver ==
  /\ ~over /\ ~handed /\ said # <<>>
  /\ handed' = TRUE
  /\ UNCHANGED <<agents, lists, turn, said, told, asked, sent, over>>

(* The call ends, with a last request of the shutdown callback: of a call  *)
(* that was handed over it carries no transcript.                          *)
End ==
  /\ ~over /\ over' = TRUE
  /\ sent' = IF handed THEN sent ELSE Final(lists[agents[1].list])
  /\ UNCHANGED <<agents, lists, turn, said, told, asked, handed>>

Next ==
  \/ \E t \in Texts : UserTurn(t) \/ UserTurnInSub(t) \/ AgentSpeaks(t)
  \/ CommitTurn \/ StartFlow \/ SwitchLanguage \/ Transfer \/ Return
  \/ HandOver \/ End

Spec == Init /\ [][Next]_vars

-----------------------------------------------------------------------------
(* The entries of s are met in t, in order: at[i] is where the i-th is.    *)
Places(at, s, t) ==
  /\ at \in [DOMAIN s -> DOMAIN t]
  /\ \A i \in DOMAIN s : t[at[i]] = s[i]

(* Each in a place of its own; or one place for what is said repeatedly.   *)
Within(s, t) ==
  \E at \in [DOMAIN s -> DOMAIN t] :
    Places(at, s, t) /\ \A i, j \in DOMAIN s : i < j => at[i] < at[j]
WithinMerged(s, t) ==
  \E at \in [DOMAIN s -> DOMAIN t] :
    Places(at, s, t) /\ \A i, j \in DOMAIN s : i < j => at[i] <= at[j]

(* The record of a call tells it.  One the assistant ended has a final     *)
(* transcript: everything said, by whichever agent and to whichever, in    *)
(* order, repetitions merged, and nothing that was not said or about to    *)
(* be.  One handed over keeps what was synced last: all the caller told    *)
(* main agents but for fewer than SyncEvery turns to each agent since.     *)
Synced == IF sent = NoRequest THEN <<>> ELSE sent.told
TranscriptTells ==
  over =>
    IF handed
    THEN /\ sent = NoRequest \/ ~sent.final
         /\ IsPrefix(Synced, told)
         /\ Len(told) <= Len(Synced) + (SyncEvery - 1) * Now
    ELSE /\ sent # NoRequest /\ sent.final
         /\ WithinMerged(said, sent.transcript)
         /\ ToSet(sent.transcript) \subseteq ToSet(said) \cup {turn}

(* A sync tells what the caller said to every main agent up to then, in    *)
(* order, however lists were shared and copied on the way.                 *)
SyncsTellMainTurns ==
  sent # NoRequest /\ ~sent.final => Within(sent.told, sent.transcript)

(* The recent turns are the last an agent was told, as many as promised.   *)
(* What the summary quotes came before them and is not short; between the  *)
(* first turn it quotes and the recent ones only short turns are missing;  *)
(* and it is not empty unless all the turns let go last are short.         *)
Nth(heard, k) == [number |-> k, text |-> heard[k]]
Adjoins(window, heard) ==
  LET recent == Len(window.turns)
      gone == Len(heard) - recent
      Long(k) == heard[k] \notin Short
      IsQuoted(k) == Nth(heard, k) \in window.summary
  IN  /\ recent <= Len(heard) /\ recent <= WindowSize + Slack
      /\ recent >= IF Len(heard) < WindowSize THEN Len(heard) ELSE WindowSize
      /\ \A k \in 1 .. recent : window.turns[k] = Nth(heard, gone + k)
      /\ \A q \in window.summary : q.number \in 1 .. gone /\ q = Nth(heard, q.number) /\ Long(q.number)
      /\ \A k \in 1 .. gone : Long(k) =>
           /\ (\E q \in window.summary : q.number < k) => IsQuoted(k)
           /\ gone <= k + Slack /\ (\A j \in k + 1 .. gone : ~Long(j)) => IsQuoted(k)

(* The summary and the recent turns of every agent adjoin: nothing but     *)
(* short turns falls between them.                                         *)
SummaryAdjoins ==
  \A i \in DOMAIN agents : agents[i].kind = "main" => Adjoins(agents[i].window, agents[i].heard)

(* The caller of many calls is asked about the last one once: "inject ONCE *)
(* on the first turn" (tenant_agent.py:443).                                *)
HistoryAskedOnce == asked <= 1
=============================================================================
