-------------------------- MODULE ConversationProofs --------------------------
(***************************************************************************)
(* What the transcripts and the context window of a call tell, for calls   *)
(* of any length, with any number of agents and any sizes of the window.   *)
(*                                                                         *)
(* The properties are of what was sent, so the invariant (ConversationInv) *)
(* says what the lists tell before they are sent (ListsTell): the list of  *)
(* the first agent everything committed, the list of the agent a sync      *)
(* would be of everything main agents were told.  A sub-agent commits to   *)
(* lists[1] too and is never synced, so that list is followed back to the  *)
(* main agent the sub-agent returns to (Home), which needs the chain of    *)
(* parents to be well founded (Chain).  The last request stays what it was *)
(* when it was sent, since nothing happens after the end (FinalLast).      *)
(*                                                                         *)
(* A place for every turn is a function from one sequence into the other;  *)
(* the lemmas on Within and WithinMerged show how to extend it.  What a    *)
(* call handed over lacks is bounded by what its agents have not synced    *)
(* (SyncLag), and the window of an agent is followed turn by turn.         *)
(***************************************************************************)
EXTENDS Conversation, SequenceTheorems, FiniteSetTheorems, TLAPS

USE SizesAssumption DEF SizesAssumption

-----------------------------------------------------------------------------
(* What is met in a list is met in whatever the list grows to.             *)
LEMMA WithinLonger ==
  ASSUME NEW S, NEW s \in Seq(S), NEW t \in Seq(S), NEW u \in Seq(S), Within(s, t)
  PROVE  Within(s, t \o u)
<1>1. PICK at \in [DOMAIN s -> DOMAIN t] :
        Places(at, s, t) /\ \A i, j \in DOMAIN s : i < j => at[i] < at[j]
  BY DEF Within
<1>2. DOMAIN t \subseteq DOMAIN (t \o u) /\ \A k \in DOMAIN t : (t \o u)[k] = t[k]
  OBVIOUS
<1>3. at \in [DOMAIN s -> DOMAIN (t \o u)]
  BY <1>2
<1> QED BY <1>1, <1>2, <1>3 DEF Within, Places

(* What is appended to both is met after the rest.                         *)
LEMMA WithinAppended ==
  ASSUME NEW S, NEW s \in Seq(S), NEW t \in Seq(S), NEW e \in S, Within(s, t)
  PROVE  /\ Within(s, Append(t, e))
         /\ Within(Append(s, e), Append(t, e))
<1>1. PICK at \in [DOMAIN s -> DOMAIN t] :
        Places(at, s, t) /\ \A i, j \in DOMAIN s : i < j => at[i] < at[j]
  BY DEF Within
<1>2. /\ DOMAIN s = 1 .. Len(s) /\ DOMAIN t = 1 .. Len(t) /\ Len(s) \in Nat /\ Len(t) \in Nat
      /\ DOMAIN Append(s, e) = 1 .. Len(s) + 1 /\ DOMAIN Append(t, e) = 1 .. Len(t) + 1
      /\ \A k \in DOMAIN t : Append(t, e)[k] = t[k]
      /\ \A k \in DOMAIN s : Append(s, e)[k] = s[k]
      /\ Append(t, e)[Len(t) + 1] = e /\ Append(s, e)[Len(s) + 1] = e
  OBVIOUS
<1>3. Within(s, Append(t, e))
  <2>1. at \in [DOMAIN s -> DOMAIN Append(t, e)]
    BY <1>2
  <2>2. Places(at, s, Append(t, e))
    BY <1>1, <1>2, <2>1 DEF Places
  <2> QED BY <1>1, <2>1, <2>2 DEF Within
<1>4. Within(Append(s, e), Append(t, e))
  <2> DEFINE more == [i \in 1 .. Len(s) + 1 |-> IF i = Len(s) + 1 THEN Len(t) + 1 ELSE at[i]]
  <2>1. more \in [DOMAIN Append(s, e) -> DOMAIN Append(t, e)]
    BY <1>2
  <2>2. Places(more, Append(s, e), Append(t, e))
    BY <1>1, <1>2, <2>1 DEF Places
  <2>3. \A i, j \in DOMAIN Append(s, e) : i < j => more[i] < more[j]
    BY <1>1, <1>2
  <2> QED BY <2>1, <2>2, <2>3 DEF Within
<1> QED BY <1>3, <1>4

(* Of a turn that is committed again right after itself the list keeps one *)
(* item, and still tells both.                                             *)
LEMMA MergedAppended ==
  ASSUME NEW S, NEW s \in Seq(S), NEW t \in Seq(S), NEW e \in S, WithinMerged(s, t)
  PROVE  /\ WithinMerged(s, Append(t, e))
         /\ WithinMerged(Append(s, e), Append(t, e))
         /\ t # <<>> /\ t[Len(t)] = e => WithinMerged(Append(s, e), t)
<1>1. PICK at \in [DOMAIN s -> DOMAIN t] :
        Places(at, s, t) /\ \A i, j \in DOMAIN s : i < j => at[i] <= at[j]
  BY DEF WithinMerged
<1>2. /\ DOMAIN s = 1 .. Len(s) /\ DOMAIN t = 1 .. Len(t) /\ Len(s) \in Nat /\ Len(t) \in Nat
      /\ DOMAIN Append(s, e) = 1 .. Len(s) + 1 /\ DOMAIN Append(t, e) = 1 .. Len(t) + 1
      /\ \A k \in DOMAIN t : Append(t, e)[k] = t[k]
      /\ \A k \in DOMAIN s : Append(s, e)[k] = s[k]
      /\ Append(t, e)[Len(t) + 1] = e /\ Append(s, e)[Len(s) + 1] = e
  OBVIOUS
<1>3. WithinMerged(s, Append(t, e))
  <2>1. at \in [DOMAIN s -> DOMAIN Append(t, e)]
    BY <1>2
  <2>2. Places(at, s, Append(t, e))
    BY <1>1, <1>2, <2>1 DEF Places
  <2> QED BY <1>1, <2>1, <2>2 DEF WithinMerged
<1>4. WithinMerged(Append(s, e), Append(t, e))
  <2> DEFINE more == [i \in 1 .. Len(s) + 1 |-> IF i = Len(s) + 1 THEN Len(t) + 1 ELSE at[i]]
  <2>1. more \in [DOMAIN Append(s, e) -> DOMAIN Append(t, e)]
    BY <1>2
  <2>2. Places(more, Append(s, e), Append(t, e))
    BY <1>1, <1>2, <2>1 DEF Places
  <2>3. \A i, j \in DOMAIN Append(s, e) : i < j => more[i] <= more[j]
    BY <1>1, <1>2
  <2> QED BY <2>1, <2>2, <2>3 DEF WithinMerged
<1>5. ASSUME t # <<>>, t[Len(t)] = e PROVE WithinMerged(Append(s, e), t)
  <2> DEFINE more == [i \in 1 .. Len(s) + 1 |-> IF i = Len(s) + 1 THEN Len(t) ELSE at[i]]
  <2>0. Len(t) \in DOMAIN t
    BY <1>2, <1>5
  <2>1. more \in [DOMAIN Append(s, e) -> DOMAIN t]
    BY <1>2, <2>0
  <2>2. Places(more, Append(s, e), t)
    BY <1>1, <1>2, <1>5, <2>1 DEF Places
  <2>3. \A i, j \in DOMAIN Append(s, e) : i < j => more[i] <= more[j]
    BY <1>1, <1>2
  <2> QED BY <2>1, <2>2, <2>3 DEF WithinMerged
<1> QED BY <1>3, <1>4, <1>5

-----------------------------------------------------------------------------
(* Latest takes as many of the last elements as there are.                 *)
LEMMA LatestOf ==
  ASSUME NEW S, NEW s \in Seq(S), NEW n \in Nat
  PROVE  /\ Latest(s, n) \in Seq(S)
         /\ Len(Latest(s, n)) = IF Len(s) <= n THEN Len(s) ELSE n
         /\ \A i \in 1 .. Len(Latest(s, n)) : Latest(s, n)[i] = s[Len(s) - Len(Latest(s, n)) + i]
<1>1. CASE Len(s) <= n
  BY <1>1 DEF Latest
<1>2. CASE Len(s) > n
  <2>1. Latest(s, n) = SubSeq(s, Len(s) - n + 1, Len(s))
    BY <1>2 DEF Latest
  <2>2. Len(s) \in Nat /\ Len(s) - n + 1 \in 1 .. Len(s) + 1
    BY <1>2
  <2>3. \A i \in 1 .. Len(s) : s[i] \in S
    OBVIOUS
  <2>4. Len(Latest(s, n)) = n
    BY <1>2, <2>1, <2>2
  <2>5. Latest(s, n) \in Seq(S)
    BY <1>2, <2>1, <2>2, <2>3
  <2>6. \A i \in 1 .. n : Latest(s, n)[i] = s[Len(s) - n + i]
    BY <1>2, <2>1, <2>2
  <2> QED BY <1>2, <2>4, <2>5, <2>6
<1> QED BY <1>1, <1>2

(* The same of the recent turns, for any turns.                            *)
LEMMA LatestRecent ==
  \A x \in Seq(Turns) :
    /\ Latest(x, WindowSize) \in Seq(Turns)
    /\ Len(Latest(x, WindowSize)) = IF Len(x) <= WindowSize THEN Len(x) ELSE WindowSize
    /\ \A i \in 1 .. Len(Latest(x, WindowSize)) :
         Latest(x, WindowSize)[i] = x[Len(x) - Len(Latest(x, WindowSize)) + i]
<1>1. WindowSize \in Nat
  OBVIOUS
<1> QED BY <1>1, LatestOf, Zenon

(* What a summary quotes of the turns from g + 1 to e: long ones, none of  *)
(* them missing after the first, and the last of them.                     *)
LEMMA QuotedOf ==
  ASSUME NEW h \in Seq(Texts), NEW g \in Nat, NEW e \in Nat, g <= e, e <= Len(h),
         NEW old, ToSet(old) = {Nth(h, k) : k \in g + 1 .. e}
  PROVE  /\ \A q \in Quoted(old) :
              q \in Turns /\ q.number \in g + 1 .. e /\ q = Nth(h, q.number) /\ h[q.number] \notin Short
         /\ \A k \in 1 .. e : h[k] \notin Short =>
              /\ (\E q \in Quoted(old) : q.number < k) => Nth(h, k) \in Quoted(old)
              /\ g + 1 <= k /\ (\A j \in k + 1 .. e : h[j] \in Short) => Nth(h, k) \in Quoted(old)
<1> DEFINE long == {one \in ToSet(old) : one.text \notin Short}
           After(q) == {later \in long : later.number > q.number}
<1>1. /\ \A k \in 1 .. e : h[k] \in Texts
      /\ \A k \in g + 1 .. e : k \in 1 .. e
  OBVIOUS
<1>2. \A k : Nth(h, k).number = k /\ Nth(h, k).text = h[k]
  BY DEF Nth
<1>3. Quoted(old) = {q \in long : Cardinality(After(q)) < Questions}
  BY DEF Quoted
<1>4. IsFiniteSet(ToSet(old))
  <2>1. IsFiniteSet(g + 1 .. e)
    BY FS_Interval
  <2> DEFINE f == [k \in g + 1 .. e |-> Nth(h, k)]
  <2>2. f \in Surjection(g + 1 .. e, ToSet(old))
    BY DEF Surjection
  <2> QED BY <2>1, <2>2, FS_Surjection
<1>5. \A q : IsFiniteSet(After(q)) /\ Cardinality(After(q)) \in Nat
  <2> SUFFICES ASSUME NEW q PROVE IsFiniteSet(After(q)) /\ Cardinality(After(q)) \in Nat
    OBVIOUS
  <2>1. After(q) \subseteq ToSet(old)
    OBVIOUS
  <2> HIDE DEF After
  <2>2. IsFiniteSet(After(q))
    BY <1>4, <2>1, FS_Subset
  <2> QED BY <2>2, FS_CardinalityType
<1>6. ASSUME NEW q \in long
      PROVE  q \in Turns /\ q.number \in g + 1 .. e /\ q = Nth(h, q.number) /\ h[q.number] \notin Short
  <2>1. PICK k \in g + 1 .. e : q = Nth(h, k)
    OBVIOUS
  <2>2. k \in Nat /\ h[k] \in Texts
    BY <1>1
  <2>3. q \in Turns
    BY <2>1, <2>2 DEF Nth, Turns
  <2>4. q.number = k /\ q.text = h[k] /\ q.text \notin Short
    BY <1>2, <2>1
  <2> QED BY <2>1, <2>3, <2>4
<1>7. ASSUME NEW k \in g + 1 .. e, h[k] \notin Short PROVE Nth(h, k) \in long
  BY <1>2, <1>7
<1> HIDE DEF long
<1>8. ASSUME NEW k \in 1 .. e, h[k] \notin Short, NEW q \in Quoted(old), q.number < k
      PROVE  Nth(h, k) \in Quoted(old)
  <2>1. q \in long /\ Cardinality(After(q)) < Questions
    BY <1>3, <1>8
  <2>2. q.number \in g + 1 .. e
    BY <1>6, <2>1
  <2>3. k \in g + 1 .. e
    BY <1>8, <2>2
  <2>4. Nth(h, k) \in long
    BY <1>7, <1>8, <2>3
  <2>5. After(Nth(h, k)) \subseteq After(q)
    <3> SUFFICES ASSUME NEW later \in After(Nth(h, k)) PROVE later.number > q.number
      OBVIOUS
    <3>1. later.number > k /\ later \in long
      BY <1>2
    <3>2. later.number \in g + 1 .. e
      BY <1>6, <3>1
    <3> QED BY <1>8, <2>2, <2>3, <3>1, <3>2
  <2>6. Cardinality(After(Nth(h, k))) <= Cardinality(After(q))
    <3> HIDE DEF After
    <3> QED BY <1>5, <2>5, FS_Subset
  <2>7. Cardinality(After(Nth(h, k))) < Questions
    <3> HIDE DEF After
    <3>1. Cardinality(After(Nth(h, k))) \in Nat /\ Cardinality(After(q)) \in Nat
      BY <1>5
    <3> QED BY <2>1, <2>6, <3>1
  <2> QED BY <1>3, <2>4, <2>7
<1>9. ASSUME NEW k \in 1 .. e, h[k] \notin Short, g + 1 <= k, \A j \in k + 1 .. e : h[j] \in Short
      PROVE  Nth(h, k) \in Quoted(old)
  <2>1. k \in g + 1 .. e
    BY <1>9
  <2>2. Nth(h, k) \in long
    BY <1>7, <1>9, <2>1
  <2>3. After(Nth(h, k)) = {}
    <3> SUFFICES ASSUME NEW later \in After(Nth(h, k)) PROVE FALSE
      OBVIOUS
    <3>1. later.number > k /\ later \in long
      BY <1>2
    <3>2. later.number \in g + 1 .. e /\ h[later.number] \notin Short
      BY <1>6, <3>1
    <3>3. later.number \in k + 1 .. e
      BY <2>1, <3>1, <3>2
    <3> QED BY <1>9, <3>2, <3>3
  <2>4. Cardinality(After(Nth(h, k))) = 0
    <3> HIDE DEF After
    <3> QED BY <2>3, FS_EmptySet
  <2> HIDE DEF After
  <2> QED BY <1>3, <2>2, <2>4
<1> HIDE DEF After
<1> QED BY <1>3, <1>6, <1>8, <1>9

(* A window that is compressed keeps its size in full, and its summary     *)
(* quotes from the rest.                                                   *)
LEMMA Compressed ==
  ASSUME NEW h \in Seq(Texts), NEW g \in Nat, NEW x \in Seq(Turns),
         Len(x) = WindowSize + Slack + 1, g + Len(x) = Len(h),
         \A k \in 1 .. Len(x) : x[k] = Nth(h, g + k)
  PROVE  Compress(x) \in Windows /\ Adjoins(Compress(x), h)
<1>1. PICK w \in Nat \ {0}, l \in Nat, n \in Nat :
        w = WindowSize /\ l = Slack /\ n = Len(h)
  <2>1. WindowSize \in Nat \ {0} /\ Slack \in Nat
    OBVIOUS
  <2>2. Len(h) \in Nat
    OBVIOUS
  <2> QED BY <2>1, <2>2, Zenon
<1> DEFINE old == Old(x)
           turns == Latest(x, WindowSize)
           e == g + l + 1
<1>2. Len(x) = w + l + 1 /\ n = g + w + l + 1 /\ Len(x) \in Nat
  BY <1>1
<1>3. /\ old \in Seq(Turns) /\ Len(old) = l + 1
      /\ \A i \in 1 .. l + 1 : old[i] = x[i]
  <2>1. old = SubSeq(x, 1, l + 1)
    BY <1>1, <1>2 DEF Old
  <2>2. l + 1 \in 1 .. Len(x)
    BY <1>1, <1>2
  <2> QED BY <2>1, <2>2
<1>4. /\ turns \in Seq(Turns) /\ Len(turns) = w
      /\ \A i \in 1 .. w : turns[i] = x[l + 1 + i]
  <2>1. WindowSize \in Nat
    OBVIOUS
  <2>2. /\ turns \in Seq(Turns) /\ Len(turns) = (IF Len(x) <= WindowSize THEN Len(x) ELSE WindowSize)
        /\ \A i \in 1 .. Len(turns) : turns[i] = x[Len(x) - Len(turns) + i]
    <3>1. turns = Latest(x, WindowSize)
      OBVIOUS
    <3> HIDE DEF turns
    <3> QED BY <3>1, LatestRecent, Zenon
  <2> HIDE DEF turns
  <2>3. Len(turns) = w /\ Len(x) - w = l + 1
    BY <1>1, <1>2, <2>2
  <2>4. \A i \in 1 .. w : Len(x) - w + i = l + 1 + i
    BY <1>2
  <2> QED BY <2>2, <2>3, <2>4
<1>5. Compress(x) = [turns |-> turns, summary |-> Quoted(old)]
  BY DEF Compress
<1>6. ToSet(old) = {Nth(h, k) : k \in g + 1 .. e}
  <2>1. DOMAIN old = 1 .. l + 1
    BY <1>3
  <2>2. \A i \in 1 .. l + 1 : old[i] = Nth(h, g + i)
    BY <1>1, <1>2, <1>3
  <2>3. \A i \in 1 .. l + 1 : g + i \in g + 1 .. e
    BY <1>1
  <2>4. \A k \in g + 1 .. e : k - g \in 1 .. l + 1 /\ g + (k - g) = k
    BY <1>1
  <2>5. ToSet(old) = {old[i] : i \in DOMAIN old}
    BY DEF ToSet
  <2> HIDE DEF old, e
  <2>6. ASSUME NEW q \in ToSet(old) PROVE \E k \in g + 1 .. e : q = Nth(h, k)
    BY <2>1, <2>2, <2>3, <2>5
  <2>7. ASSUME NEW k \in g + 1 .. e PROVE Nth(h, k) \in ToSet(old)
    <3>1. k - g \in DOMAIN old /\ old[k - g] = Nth(h, g + (k - g))
      BY <2>1, <2>2, <2>4
    <3> QED BY <2>4, <2>5, <3>1
  <2> QED BY <2>6, <2>7
<1>7. e \in Nat /\ g <= e /\ e <= Len(h)
  BY <1>1, <1>2
<1> DEFINE summary == Quoted(old)
<1>8. /\ \A q \in summary :
           q \in Turns /\ q.number \in g + 1 .. e /\ q = Nth(h, q.number) /\ h[q.number] \notin Short
      /\ \A k \in 1 .. e : h[k] \notin Short =>
           /\ (\E q \in summary : q.number < k) => Nth(h, k) \in summary
           /\ g + 1 <= k /\ (\A j \in k + 1 .. e : h[j] \in Short) => Nth(h, k) \in summary
  <2> HIDE DEF old, e
  <2> QED BY <1>6, <1>7, QuotedOf
<1>9. [turns |-> turns, summary |-> summary] \in Windows
  <2> HIDE DEF turns, summary
  <2> QED BY <1>4, <1>8 DEF Windows
<1>10. Adjoins([turns |-> turns, summary |-> summary], h)
  <2>1. Len(h) - Len(turns) = e
    BY <1>1, <1>2, <1>4
  <2>2. /\ w <= n /\ w <= w + l /\ w >= (IF n < w THEN n ELSE w)
    BY <1>1, <1>2
  <2>3. \A k \in 1 .. w : turns[k] = Nth(h, e + k)
    <3>1. \A k \in 1 .. w : l + 1 + k \in 1 .. Len(x) /\ g + (l + 1 + k) = e + k
      BY <1>1, <1>2
    <3> HIDE DEF turns, e
    <3> QED BY <1>4, <3>1
  <2>4. \A q \in summary : q.number \in 1 .. e
    <3>1. \A k \in g + 1 .. e : k \in 1 .. e
      OBVIOUS
    <3> HIDE DEF summary, e
    <3> QED BY <1>8, <3>1
  <2>5. \A k \in 1 .. e : e <= k + l => g + 1 <= k
    BY <1>1
  <2> HIDE DEF turns, summary, e
  <2>6. Len(turns) = w /\ WindowSize = w /\ Slack = l /\ Len(h) = n
    BY <1>1, <1>4
  <2>7. \A k \in 1 .. e : h[k] \notin Short =>
           /\ (\E q \in summary : q.number < k) => Nth(h, k) \in summary
           /\ e <= k + l /\ (\A j \in k + 1 .. e : ~(h[j] \notin Short)) => Nth(h, k) \in summary
    BY <1>8, <2>5
  <2> DEFINE window == [turns |-> turns, summary |-> summary]
  <2>8. window.turns = turns /\ window.summary = summary
    OBVIOUS
  <2> HIDE DEF window
  <2>9. Adjoins(window, h)
    BY <1>8, <2>1, <2>2, <2>3, <2>4, <2>6, <2>7, <2>8 DEF Adjoins
  <2> QED BY <2>9 DEF window
<1> QED BY <1>5, <1>9, <1>10

-----------------------------------------------------------------------------
(* The first agent keeps the first list, every main agent some list, and a *)
(* sub-agent has a main agent before it to return to.                      *)
Chain ==
  /\ agents # <<>> /\ agents[1].kind = "main" /\ agents[1].list = 1
  /\ \A i \in DOMAIN agents :
       /\ agents[i].kind = "main" => agents[i].list \in DOMAIN lists
       /\ agents[i].kind = "sub" =>
            agents[i].parent \in 1 .. i - 1 /\ agents[agents[i].parent].kind = "main"

(* The list of the current agent, or of the one it returns to.             *)
Home == IF Me.kind = "main" THEN Me.list ELSE agents[Me.parent].list

(* What the lists tell before any of them is sent.                         *)
ListsTell ==
  /\ WithinMerged(said, lists[1])
  /\ ToSet(lists[1]) \subseteq ToSet(said) \cup (IF turn = NoTurn THEN {} ELSE {turn})
  /\ Within(told, lists[Home])

(* The final request is the last one, and one handed over has none.        *)
FinalLast ==
  /\ sent # NoRequest /\ sent.final => over /\ ~handed /\ sent.transcript = lists[1]
  /\ over /\ ~handed => sent # NoRequest /\ sent.final

(* What main agents were told and no sync has: what the current agent      *)
(* counts, and less than a sync's worth for each agent before it.          *)
Counted == IF Me.kind = "main" THEN Me.unsynced ELSE 0
Lags(turns) ==
  /\ IsPrefix(turns, told)
  /\ Counted <= SyncEvery - 1
  /\ Len(told) <= Len(turns) + (SyncEvery - 1) * (Now - 1) + Counted
SyncLag == (over => handed) => Lags(Synced)

ConversationInv ==
  TypeOK /\ Chain /\ ListsTell /\ FinalLast /\ SyncLag /\ SyncsTellMainTurns /\ SummaryAdjoins

(* Indices, types and the list in use, for citing together.                *)
LEMMA ChainFacts ==
  ASSUME TypeOK, Chain
  PROVE  /\ Len(agents) \in Nat /\ Now \in 1 .. Len(agents) /\ DOMAIN agents = 1 .. Len(agents)
         /\ Len(lists) \in Nat /\ DOMAIN lists = 1 .. Len(lists) /\ 1 \in DOMAIN lists
         /\ \A i \in DOMAIN lists : lists[i] \in Seq(Items)
         /\ \A i \in DOMAIN agents : agents[i] \in MainAgents \cup SubAgents
         /\ \A i \in DOMAIN agents : agents[i].kind = "main" => agents[i] \in MainAgents
         /\ \A i \in DOMAIN agents : agents[i].kind # "main" => agents[i] \in SubAgents
         /\ Home \in DOMAIN lists
<1>1. /\ Len(agents) \in Nat /\ Now \in 1 .. Len(agents) /\ DOMAIN agents = 1 .. Len(agents)
      /\ Len(lists) \in Nat /\ DOMAIN lists = 1 .. Len(lists)
      /\ \A i \in DOMAIN lists : lists[i] \in Seq(Items)
      /\ \A i \in DOMAIN agents : agents[i] \in MainAgents \cup SubAgents
  BY DEF TypeOK, Chain, Now
<1>2. 1 \in DOMAIN lists
  BY <1>1 DEF Chain
<1>3. \A i \in DOMAIN agents : /\ agents[i].kind = "main" => agents[i] \in MainAgents
                               /\ agents[i].kind # "main" => agents[i] \in SubAgents
  BY <1>1 DEF MainAgents, SubAgents
<1>4. Home \in DOMAIN lists
  <2>1. CASE Me.kind = "main"
    BY <1>1, <2>1 DEF Chain, Home, Me, Now
  <2>2. CASE Me.kind # "main"
    <3>1. Me.kind = "sub"
      BY <1>1, <1>3, <2>2 DEF Me, Now, SubAgents
    <3>2. Me.parent \in DOMAIN agents /\ agents[Me.parent].kind = "main"
      BY <1>1, <3>1 DEF Chain, Me, Now
    <3> QED BY <2>2, <3>2 DEF Chain, Home
  <2> QED BY <2>1, <2>2
<1> QED BY <1>1, <1>2, <1>3, <1>4

(* What is said makes an item.                                             *)
LEMMA ItemTypes ==
  /\ \A t \in Texts : User(t) \in Items /\ Reply(t) \in Items /\ User(t) # NoTurn
  /\ Reply(Closing) \in Items
<1>1. \A t \in Texts : User(t) \in [role : {"user"}, text : Texts]
  BY DEF User
<1> QED BY <1>1 DEF User, Reply, Items

(* Of an agent that was told nothing there is nothing to miss.             *)
LEMMA NothingYet == Adjoins(EmptyWindow, <<>>) /\ EmptyWindow \in Windows
<1>1. Len(<<>>) = 0 /\ 0 <= WindowSize + Slack /\ ~(0 < 0)
  OBVIOUS
<1>2. EmptyWindow.turns = <<>> /\ EmptyWindow.summary = {}
  BY DEF EmptyWindow
<1>3. 0 < WindowSize /\ 1 .. 0 = {} /\ 0 - 0 = 0
  OBVIOUS
<1>4. EmptyWindow \in Windows
  BY DEF EmptyWindow, Windows
<1> QED BY <1>1, <1>2, <1>3, <1>4 DEF Adjoins

(* What begins a list begins whatever it grows to.                         *)
LEMMA PrefixAppended ==
  ASSUME NEW S, NEW s \in Seq(S), NEW t \in Seq(S), NEW e \in S
  PROVE  IsPrefix(t, t) /\ (IsPrefix(s, t) => IsPrefix(s, Append(t, e)))
<1>1. /\ Append(t, e) \in Seq(S) /\ Len(Append(t, e)) = Len(t) + 1 /\ Len(t) \in Nat /\ Len(s) \in Nat
      /\ \A k \in 1 .. Len(t) : Append(t, e)[k] = t[k]
  OBVIOUS
<1>2. ASSUME Len(s) <= Len(t) PROVE SubSeq(t, 1, Len(s)) = SubSeq(Append(t, e), 1, Len(s))
  <2>1. PICK u \in Seq(S), n \in Nat, m \in Nat : u = Append(t, e) /\ n = Len(s) /\ m = Len(t)
    BY <1>1
  <2>2. n <= m /\ Len(u) = m + 1 /\ \A k \in 1 .. n : u[k] = t[k]
    BY <1>1, <1>2, <2>1
  <2>3. \A k \in 1 .. n : 1 + k - 1 = k /\ k \in 1 .. m /\ k \in 1 .. m + 1
    BY <2>2
  <2>4. SubSeq(t, 1, n) = [k \in 1 .. n |-> t[k]]
    BY <2>1, <2>2, <2>3
  <2>5. SubSeq(u, 1, n) = [k \in 1 .. n |-> u[k]]
    BY <2>1, <2>2, <2>3
  <2>6. [k \in 1 .. n |-> t[k]] = [k \in 1 .. n |-> u[k]]
    BY <2>2
  <2> QED BY <2>1, <2>4, <2>5, <2>6
<1>3. IsPrefix(s, t) => IsPrefix(s, Append(t, e))
  <2>1. Len(s) <= Len(t) => Len(s) <= Len(Append(t, e))
    BY <1>1
  <2> QED BY <1>2, <2>1 DEF IsPrefix
<1>4. IsPrefix(t, t)
  <2>1. Len(t) <= Len(t)
    BY <1>1
  <2> QED BY <2>1 DEF IsPrefix
<1> QED BY <1>3, <1>4

-----------------------------------------------------------------------------
(* A call begins with one main agent that keeps one empty list.            *)
LEMMA InitConversation == Init => ConversationInv
<1> SUFFICES ASSUME Init PROVE ConversationInv
  OBVIOUS
<1>1. PICK language \in Languages : agents = <<NewMain(1, language)>>
  BY DEF Init
<1>2. /\ Len(agents) = 1 /\ DOMAIN agents = 1 .. 1 /\ agents[1] = NewMain(1, language)
      /\ lists = <<<<>>>> /\ DOMAIN lists = 1 .. 1 /\ lists[1] = <<>>
  BY <1>1 DEF Init
<1>3. NewMain(1, language) \in MainAgents
  BY NothingYet DEF NewMain, MainAgents
<1>4. TypeOK
  <2>1. \A S : \A first \in S : <<first>> \in Seq(S)
    OBVIOUS
  <2>2. agents \in Seq(MainAgents \cup SubAgents)
    BY <1>1, <1>3, <2>1
  <2>3. <<>> \in Seq(Items)
    OBVIOUS
  <2>4. lists \in Seq(Seq(Items))
    BY <1>2, <2>1, <2>3
  <2> QED BY <2>2, <2>3, <2>4 DEF Init, TypeOK
<1>0. /\ agents[1].kind = "main" /\ agents[1].list = 1 /\ agents[1].heard = <<>>
      /\ agents[1].window = EmptyWindow /\ agents[1].unsynced = 0
  BY <1>2 DEF NewMain
<1>5. Chain /\ FinalLast /\ SyncsTellMainTurns
  <2>1. agents # <<>>
    BY <1>2
  <2>2. \A i \in DOMAIN agents : i = 1
    BY <1>2
  <2> QED BY <1>0, <1>2, <2>1, <2>2 DEF Init, Chain, FinalLast, SyncsTellMainTurns
<1>6. ListsTell
  <2>1. Home = 1
    BY <1>2 DEF Home, Me, Now, NewMain
  <2>2. Places(<<>>, <<>>, <<>>)
    BY DEF Places
  <2>3. Within(<<>>, <<>>) /\ WithinMerged(<<>>, <<>>)
    <3>1. <<>> \in [DOMAIN <<>> -> DOMAIN <<>>] /\ DOMAIN <<>> = {}
      OBVIOUS
    <3> QED BY <2>2, <3>1 DEF Within, WithinMerged
  <2>4. ToSet(<<>>) = {}
    BY DEF ToSet
  <2> QED BY <1>2, <2>1, <2>3, <2>4 DEF Init, ListsTell
<1>7. SummaryAdjoins
  <2>1. \A i \in DOMAIN agents : i = 1
    BY <1>2
  <2> QED BY <1>0, <2>1, NothingYet DEF SummaryAdjoins
<1>8. SyncLag
  <2>1. Synced = <<>> /\ told = <<>> /\ Len(<<>>) = 0 /\ IsPrefix(<<>>, <<>>)
    BY DEF Init, Synced, IsPrefix
  <2>2. Now = 1 /\ Counted = 0
    BY <1>0, <1>2 DEF Now, Me, Counted
  <2>3. (SyncEvery - 1) * (1 - 1) = 0 /\ 0 <= SyncEvery - 1
    OBVIOUS
  <2> QED BY <2>1, <2>2, <2>3 DEF SyncLag, Lags
<1> QED BY <1>4, <1>5, <1>6, <1>7, <1>8 DEF ConversationInv

-----------------------------------------------------------------------------
(* Appending adds one element.                                             *)
LEMMA SetOfAppended ==
  ASSUME NEW S, NEW s \in Seq(S), NEW e \in S
  PROVE  ToSet(Append(s, e)) = ToSet(s) \cup {e}
<1>1. /\ DOMAIN s = 1 .. Len(s) /\ DOMAIN Append(s, e) = 1 .. Len(s) + 1 /\ Len(s) \in Nat
      /\ \A k \in 1 .. Len(s) : Append(s, e)[k] = s[k]
      /\ Append(s, e)[Len(s) + 1] = e
  OBVIOUS
<1>2. Len(s) + 1 \in 1 .. Len(s) + 1
  BY <1>1
<1>3. \A k \in 1 .. Len(s) + 1 : k \in 1 .. Len(s) \/ k = Len(s) + 1
  BY <1>1
<1>4. \A k \in 1 .. Len(s) : k \in 1 .. Len(s) + 1
  BY <1>1
<1> QED BY <1>1, <1>2, <1>3, <1>4, Zenon DEF ToSet

(* Appending an item to one of the lists leaves the other lists alone.     *)
LEMMA OneListLonger ==
  ASSUME NEW S, NEW L \in Seq(Seq(S)), NEW n \in DOMAIN L, NEW e \in S,
         NEW M, M = [L EXCEPT ![n] = Append(@, e)]
  PROVE  /\ M \in Seq(Seq(S)) /\ DOMAIN M = DOMAIN L
         /\ M[n] = Append(L[n], e)
         /\ \A i \in DOMAIN L : i # n => M[i] = L[i]
<1>1. L[n] \in Seq(S)
  OBVIOUS
<1>2. Append(L[n], e) \in Seq(S)
  BY <1>1
<1> QED BY <1>2

(* The parts that speak of the agents alone stay when the agents do.       *)
LEMMA SameAgents ==
  ASSUME ConversationInv, ~over, UNCHANGED <<agents, told, sent, handed, over>>,
         TypeOK', DOMAIN lists' = DOMAIN lists, ListsTell'
  PROVE  ConversationInv'
<1>1. Chain'
  BY DEF ConversationInv, Chain
<1>2. FinalLast'
  BY DEF ConversationInv, FinalLast
<1>3. SyncsTellMainTurns'
  BY DEF ConversationInv, SyncsTellMainTurns
<1>4. SummaryAdjoins'
  BY DEF ConversationInv, SummaryAdjoins
<1>5. SyncLag'
  BY DEF ConversationInv, SyncLag, Lags, Synced, Counted, Me, Now
<1> QED BY <1>1, <1>2, <1>3, <1>4, <1>5 DEF ConversationInv

(* conversation_item_added: an item goes to the first agent's list, unless *)
(* that list has it already.                                               *)
LEMMA CommittedStep ==
  ASSUME ConversationInv, ~over, NEW item \in Items, Committed(item),
         \/ turn = item /\ turn' = NoTurn
         \/ turn' = turn
  PROVE  ConversationInv'
<1>1. /\ said \in Seq(Items) /\ told \in Seq(Items) /\ lists \in Seq(Seq(Items))
      /\ said' = Append(said, item) /\ UNCHANGED <<agents, told, asked, sent, handed, over>>
      /\ agents[1].list = 1
      /\ lists' = IF Known(lists[1], item) THEN lists ELSE [lists EXCEPT ![1] = Append(@, item)]
  BY DEF ConversationInv, TypeOK, Chain, Committed
<1>2. /\ 1 \in DOMAIN lists /\ Home \in DOMAIN lists
      /\ lists[1] \in Seq(Items) /\ lists[Home] \in Seq(Items)
  BY ChainFacts DEF ConversationInv
<1>3. Home' = Home
  BY <1>1 DEF Home, Me, Now
<1>4. /\ lists' \in Seq(Seq(Items)) /\ DOMAIN lists' = DOMAIN lists
      /\ \/ lists' = lists /\ lists[1] # <<>> /\ lists[1][Len(lists[1])] = item
         \/ lists'[1] = Append(lists[1], item) /\ \A i \in DOMAIN lists : i # 1 => lists'[i] = lists[i]
  <2>1. CASE Known(lists[1], item)
    <3>1. lists[1] # <<>> /\ lists[1][Len(lists[1])] = item
      BY <2>1 DEF Known, Last
    <3>2. lists' = lists
      BY <1>1, <2>1
    <3> QED BY <1>1, <3>1, <3>2
  <2>2. CASE ~Known(lists[1], item)
    BY <1>1, <1>2, <2>2, OneListLonger
  <2> QED BY <2>1, <2>2
<1>5. TypeOK'
  <2>1. said' \in Seq(Items)
    BY <1>1
  <2> QED BY <1>1, <1>4, <2>1 DEF ConversationInv, TypeOK
<1>6. WithinMerged(said', lists'[1])
  BY <1>1, <1>2, <1>4, MergedAppended DEF ConversationInv, ListsTell
<1>7. Within(told', lists'[Home'])
  <2>1. lists'[Home] = lists[Home] \/ lists'[Home] = Append(lists[Home], item)
    BY <1>2, <1>4
  <2> QED BY <1>1, <1>2, <1>3, <2>1, WithinAppended DEF ConversationInv, ListsTell
<1>8. ToSet(lists'[1]) \subseteq ToSet(said') \cup (IF turn' = NoTurn THEN {} ELSE {turn'})
  <2>1. ToSet(said') = ToSet(said) \cup {item}
    BY <1>1, SetOfAppended
  <2>2. ToSet(lists'[1]) \subseteq ToSet(lists[1]) \cup {item}
    <3>1. ToSet(Append(lists[1], item)) = ToSet(lists[1]) \cup {item}
      BY <1>2, SetOfAppended
    <3>2. lists'[1] = lists[1] \/ lists'[1] = Append(lists[1], item)
      BY <1>4
    <3> QED BY <3>1, <3>2
  <2>3. ToSet(lists[1]) \subseteq ToSet(said) \cup (IF turn = NoTurn THEN {} ELSE {turn})
    BY DEF ConversationInv, ListsTell
  <2> QED BY <2>1, <2>2, <2>3
<1> QED BY <1>1, <1>4, <1>5, <1>6, <1>7, <1>8, SameAgents DEF ListsTell

(* A commit of the caller's turn, or of a reply.                           *)
LEMMA CommitSteps ==
  ASSUME ConversationInv, CommitTurn \/ \E t \in Texts : AgentSpeaks(t)
  PROVE  ConversationInv'
<1>1. CASE CommitTurn
  <2>1. turn \in Items
    BY <1>1 DEF ConversationInv, TypeOK, CommitTurn
  <2> QED BY <1>1, <2>1, CommittedStep DEF CommitTurn
<1>2. ASSUME NEW t \in Texts, AgentSpeaks(t) PROVE ConversationInv'
  BY <1>2, ItemTypes, CommittedStep DEF AgentSpeaks
<1> QED BY <1>1, <1>2

-----------------------------------------------------------------------------
(* A window that is told a turn: its parts still adjoin.                   *)
LEMMA WindowStep ==
  ASSUME NEW window \in Windows, NEW heard \in Seq(Texts), NEW t \in Texts, Adjoins(window, heard)
  PROVE  LET added == AddTurn(window, Len(heard) + 1, t)
         IN  added \in Windows /\ Adjoins(added, Append(heard, t))
<1>1. PICK turns \in Seq(Turns), summary \in SUBSET Turns :
        turns = window.turns /\ summary = window.summary /\ window = [turns |-> turns, summary |-> summary]
  BY DEF Windows
<1>2. PICK n \in Nat, m \in Nat, w \in Nat \ {0}, l \in Nat :
        n = Len(heard) /\ m = Len(turns) /\ w = WindowSize /\ l = Slack
  OBVIOUS
<1>3. PICK g \in Nat : g = n - m /\ m <= n /\ m <= w + l /\ m >= (IF n < w THEN n ELSE w)
  <2>1. m <= n /\ m <= w + l /\ m >= (IF n < w THEN n ELSE w)
    BY <1>1, <1>2 DEF Adjoins
  <2>2. n - m \in Nat
    BY <2>1
  <2> QED BY <2>1, <2>2
<1>4. /\ \A k \in 1 .. m : turns[k] = Nth(heard, g + k)
      /\ \A q \in summary : q.number \in 1 .. g /\ q = Nth(heard, q.number) /\ heard[q.number] \notin Short
      /\ \A k \in 1 .. g : heard[k] \notin Short =>
           /\ (\E q \in summary : q.number < k) => Nth(heard, k) \in summary
           /\ g <= k + l /\ (\A j \in k + 1 .. g : ~(heard[j] \notin Short)) => Nth(heard, k) \in summary
  BY <1>1, <1>2, <1>3 DEF Adjoins
<1>5. PICK all : all = Append(heard, t)
  OBVIOUS
<1>6. /\ all \in Seq(Texts) /\ Len(all) = n + 1
      /\ \A k \in 1 .. n : all[k] = heard[k] /\ Nth(all, k) = Nth(heard, k)
      /\ all[n + 1] = t
  BY <1>2, <1>5 DEF Nth
<1>7. PICK more : more = Append(turns, [number |-> n + 1, text |-> t])
  OBVIOUS
<1>8. [number |-> n + 1, text |-> t] \in Turns /\ [number |-> n + 1, text |-> t] = Nth(all, n + 1)
  BY <1>6 DEF Turns, Nth
<1>9. /\ more \in Seq(Turns) /\ Len(more) = m + 1
      /\ \A k \in 1 .. m : more[k] = turns[k]
      /\ more[m + 1] = Nth(all, n + 1)
  BY <1>2, <1>7, <1>8
<1>10. \A k \in 1 .. m + 1 : more[k] = Nth(all, g + k)
  <2> SUFFICES ASSUME NEW k \in 1 .. m + 1 PROVE more[k] = Nth(all, g + k)
    OBVIOUS
  <2>1. CASE k = m + 1
    <3>1. g + k = n + 1
      BY <1>3, <2>1
    <3> QED BY <1>9, <2>1, <3>1
  <2>2. CASE k # m + 1
    <3>1. k \in 1 .. m /\ g + k \in 1 .. n
      BY <1>3, <2>2
    <3> QED BY <1>4, <1>6, <1>9, <3>1
  <2> QED BY <2>1, <2>2
<1>11. CASE m + 1 <= w + l
  <2>1. AddTurn(window, n + 1, t) = [turns |-> more, summary |-> summary]
    <3>1. ~(Len(more) > WindowSize + Slack)
      BY <1>2, <1>9, <1>11
    <3>2. AddTurn(window, n + 1, t) = [window EXCEPT !.turns = more]
      BY <1>1, <1>7, <3>1 DEF AddTurn
    <3>3. [[turns |-> turns, summary |-> summary] EXCEPT !.turns = more] = [turns |-> more, summary |-> summary]
      OBVIOUS
    <3> QED BY <1>1, <3>2, <3>3
  <2>2. [turns |-> more, summary |-> summary] \in Windows
    BY <1>9 DEF Windows
  <2>3. (n + 1) - (m + 1) = g /\ m + 1 <= n + 1 /\ m + 1 >= (IF n + 1 < w THEN n + 1 ELSE w)
    BY <1>3
  <2>4. \A k \in 1 .. g : k \in 1 .. n
    BY <1>3
  <2>5. /\ \A q \in summary : q.number \in 1 .. g /\ q = Nth(all, q.number) /\ all[q.number] \notin Short
        /\ \A k \in 1 .. g : all[k] \notin Short =>
             /\ (\E q \in summary : q.number < k) => Nth(all, k) \in summary
             /\ g <= k + l /\ (\A j \in k + 1 .. g : ~(all[j] \notin Short)) => Nth(all, k) \in summary
    <3>1. \A k \in 1 .. g : \A j \in k + 1 .. g : j \in 1 .. g
      OBVIOUS
    <3> QED BY <1>4, <1>6, <2>4, <3>1
  <2> DEFINE added == [turns |-> more, summary |-> summary]
  <2>6. added.turns = more /\ added.summary = summary
    OBVIOUS
  <2> HIDE DEF added
  <2>7. Adjoins(added, all)
    BY <1>2, <1>6, <1>9, <1>10, <1>11, <2>3, <2>5, <2>6 DEF Adjoins
  <2> QED BY <1>2, <1>5, <2>1, <2>2, <2>7 DEF added
<1>12. CASE m + 1 > w + l
  <2>1. AddTurn(window, n + 1, t) = Compress(more)
    <3>1. Len(more) > WindowSize + Slack
      BY <1>2, <1>9, <1>12
    <3>2. Append(window.turns, [number |-> n + 1, text |-> t]) = more
      BY <1>1, <1>7
    <3>3. AddTurn(window, n + 1, t) =
            IF Len(more) > WindowSize + Slack THEN Compress(more) ELSE [window EXCEPT !.turns = more]
      BY <3>2 DEF AddTurn
    <3> QED BY <3>1, <3>3
  <2>2. Len(more) = WindowSize + Slack + 1 /\ g + Len(more) = Len(all)
    <3>1. m + 1 = w + l + 1 /\ g + (m + 1) = n + 1
      BY <1>3, <1>12
    <3> QED BY <1>2, <1>6, <1>9, <3>1
  <2>3. Compress(more) \in Windows /\ Adjoins(Compress(more), all)
    BY <1>6, <1>9, <1>10, <2>2, Compressed
  <2> QED BY <1>2, <1>5, <2>1, <2>3
<1> QED BY <1>11, <1>12

(* What replaces one element of a sequence leaves the others.              *)
LEMMA ReplacedOne ==
  ASSUME NEW S, NEW s \in Seq(S), NEW n \in DOMAIN s, NEW e \in S,
         NEW r, r = [s EXCEPT ![n] = e]
  PROVE  /\ r \in Seq(S) /\ DOMAIN r = DOMAIN s /\ Len(r) = Len(s)
         /\ r[n] = e /\ \A i \in DOMAIN s : i # n => r[i] = s[i]
OBVIOUS

(* The agent a after its callback for t. *)
Turned(a, t) ==
  [a EXCEPT !.window = AddTurn(a.window, Len(a.heard) + 1, t), !.heard = Append(@, t),
            !.unsynced = IF Due(a) THEN 0 ELSE @ + 1,
            !.injected = @ \/ ~Guided(a)]

(* It is a main agent still, and nothing falls out of its window.          *)
LEMMA TurnedAgent ==
  ASSUME NEW a \in MainAgents, NEW t \in Texts, AddTurn(a.window, Len(a.heard) + 1, t) \in Windows
  PROVE  /\ Turned(a, t) \in MainAgents /\ Turned(a, t).kind = "main" /\ Turned(a, t).list = a.list
         /\ Turned(a, t).window = AddTurn(a.window, Len(a.heard) + 1, t) /\ Turned(a, t).heard = Append(a.heard, t)
         /\ Turned(a, t).unsynced = (IF Due(a) THEN 0 ELSE a.unsynced + 1)
<1> DEFINE b == Turned(a, t)
<1>1. PICK list, language, window, heard, unsynced, injected, flow :
        /\ list \in Nat \ {0} /\ language \in Languages /\ window \in Windows /\ heard \in Seq(Texts)
        /\ unsynced \in Nat /\ injected \in BOOLEAN /\ flow \in Flows \cup {NoFlow}
        /\ a = [kind |-> "main", list |-> list, language |-> language, window |-> window,
                heard |-> heard, unsynced |-> unsynced, injected |-> injected, flow |-> flow]
  BY DEF MainAgents
<1>2. PICK count \in Nat, asks \in BOOLEAN, view \in Windows, more \in Seq(Texts) :
        /\ count = IF Due(a) THEN 0 ELSE unsynced + 1
        /\ asks = (injected \/ ~Guided(a))
        /\ view = AddTurn(a.window, Len(a.heard) + 1, t)
        /\ more = Append(heard, t)
  <2>1. (IF Due(a) THEN 0 ELSE unsynced + 1) \in Nat
    BY <1>1
  <2>2. (injected \/ ~Guided(a)) \in BOOLEAN
    OBVIOUS
  <2>3. Append(heard, t) \in Seq(Texts)
    BY <1>1
  <2> QED BY <2>1, <2>2, <2>3, Zenon
<1>3. b = [kind |-> "main", list |-> list, language |-> language, window |-> view,
           heard |-> more, unsynced |-> count, injected |-> asks, flow |-> flow]
  <2>1. a.unsynced = unsynced /\ a.injected = injected /\ a.flow = flow /\ a.heard = heard
    BY <1>1
  <2>2. b = [a EXCEPT !.window = view, !.heard = more, !.unsynced = count, !.injected = asks]
    BY <1>2, <2>1 DEF Turned
  <2> QED BY <1>1, <2>2
<1> HIDE DEF b
<1>4. b \in MainAgents
  BY <1>1, <1>3 DEF MainAgents
<1>5. /\ b.kind = "main" /\ b.list = a.list
      /\ b.window = AddTurn(a.window, Len(a.heard) + 1, t) /\ b.heard = Append(a.heard, t)
      /\ b.unsynced = (IF Due(a) THEN 0 ELSE a.unsynced + 1)
  BY <1>1, <1>2, <1>3
<1> QED BY <1>4, <1>5 DEF b

(* on_user_turn_completed of the current main agent, with the sync that is *)
(* due.                                                                    *)
LEMMA UserTurnStep ==
  ASSUME ConversationInv, NEW t \in Texts, UserTurn(t)
  PROVE  ConversationInv'
<1> USE ChainFacts DEF ConversationInv
<1>1. PICK c, a, n, b :
        /\ c = Now /\ a = Me /\ n = Me.list
        /\ b = Turned(a, t)
  OBVIOUS
<1>2. /\ c \in DOMAIN agents /\ a = agents[c] /\ a \in MainAgents /\ a.kind = "main"
      /\ n \in DOMAIN lists /\ n = a.list /\ c = Len(agents)
  BY <1>1 DEF UserTurn, Me, Now, Chain
<1>3. /\ agents' = [agents EXCEPT ![c] = b]
      /\ lists' = [lists EXCEPT ![n] = Append(lists[n], User(t))]
      /\ told' = Append(told, User(t)) /\ turn' = User(t) /\ turn = NoTurn
      /\ \/ Due(a) /\ sent' = Sync(Append(lists[n], User(t)), told')
         \/ ~Due(a) /\ sent' = sent
      /\ ~over /\ UNCHANGED <<said, handed, over>>
      /\ asked' \in {asked, asked + 1}
  BY <1>1 DEF UserTurn, Talking, Turned
<1>4. /\ AddTurn(a.window, Len(a.heard) + 1, t) \in Windows
      /\ Adjoins(AddTurn(a.window, Len(a.heard) + 1, t), Append(a.heard, t))
  <2>1. a.window \in Windows /\ a.heard \in Seq(Texts)
    BY <1>2 DEF MainAgents
  <2>2. Adjoins(a.window, a.heard)
    BY <1>2 DEF SummaryAdjoins
  <2> QED BY <2>1, <2>2, WindowStep
<1>5. /\ b \in MainAgents /\ b.kind = "main" /\ b.list = n
      /\ b.window = AddTurn(a.window, Len(a.heard) + 1, t) /\ b.heard = Append(a.heard, t)
      /\ b.unsynced = (IF Due(a) THEN 0 ELSE a.unsynced + 1)
  <2>1. /\ b \in MainAgents /\ b.kind = "main" /\ b.list = a.list
        /\ b.window = AddTurn(a.window, Len(a.heard) + 1, t) /\ b.heard = Append(a.heard, t)
        /\ b.unsynced = (IF Due(a) THEN 0 ELSE a.unsynced + 1)
    <3> HIDE ChainFacts
    <3> QED BY <1>1, <1>2, <1>4, TurnedAgent
  <2> QED BY <1>2, <2>1
<1>6. /\ DOMAIN agents' = DOMAIN agents /\ Len(agents') = Len(agents)
      /\ agents'[c] = b /\ \A i \in DOMAIN agents : i # c => agents'[i] = agents[i]
      /\ agents' \in Seq(MainAgents \cup SubAgents)
  <2>1. b \in MainAgents \cup SubAgents
    BY <1>5
  <2>2. agents \in Seq(MainAgents \cup SubAgents) /\ c \in DOMAIN agents
    BY <1>2 DEF TypeOK
  <2>3. PICK s, r : s = agents /\ r = agents'
    OBVIOUS
  <2> HIDE ChainFacts
  <2>4. s \in Seq(MainAgents \cup SubAgents) /\ c \in DOMAIN s /\ r = [s EXCEPT ![c] = b]
    BY <1>3, <2>2, <2>3
  <2>5. /\ r \in Seq(MainAgents \cup SubAgents) /\ DOMAIN r = DOMAIN s /\ Len(r) = Len(s)
        /\ r[c] = b /\ \A i \in DOMAIN s : i # c => r[i] = s[i]
    BY <2>1, <2>4, ReplacedOne
  <2> QED BY <2>3, <2>5
<1>7. /\ lists' \in Seq(Seq(Items)) /\ DOMAIN lists' = DOMAIN lists
      /\ lists'[n] = Append(lists[n], User(t))
      /\ \A i \in DOMAIN lists : i # n => lists'[i] = lists[i]
  BY <1>2, <1>3, ItemTypes, OneListLonger DEF TypeOK
<1>8. Me' = b /\ Home' = n /\ Home = n
  BY <1>1, <1>2, <1>5, <1>6 DEF Me, Now, Home
<1>9. lists[n] \in Seq(Items) /\ lists[1] \in Seq(Items) /\ 1 \in DOMAIN lists
  BY <1>2
<1>10. TypeOK'
  <2>1. agents' \in Seq(MainAgents \cup SubAgents)
    BY <1>6
  <2>2. told' \in Seq(Items) /\ turn' \in Items \cup {NoTurn} /\ asked' \in Nat
    BY <1>3, ItemTypes DEF TypeOK
  <2>3. Append(lists[n], User(t)) \in Seq(Items)
    BY <1>9, ItemTypes
  <2>4. sent' \in Requests \cup {NoRequest}
    <3>1. Sync(Append(lists[n], User(t)), told') \in Requests
      BY <2>2, <2>3 DEF Requests, Sync
    <3> QED BY <1>3, <3>1 DEF TypeOK
  <2> QED BY <1>3, <1>7, <2>1, <2>2, <2>4 DEF TypeOK
<1>11. Chain'
  <2>1. agents' # <<>> /\ 1 \in DOMAIN agents
    BY <1>6 DEF Chain
  <2>2. agents'[1].kind = "main" /\ agents'[1].list = 1
    BY <1>2, <1>5, <1>6, <2>1 DEF Chain
  <2>3. ASSUME NEW i \in DOMAIN agents'
        PROVE  /\ agents'[i].kind = "main" => agents'[i].list \in DOMAIN lists'
               /\ agents'[i].kind = "sub" =>
                    agents'[i].parent \in 1 .. i - 1 /\ agents'[agents'[i].parent].kind = "main"
    <3>1. CASE i = c
      BY <1>2, <1>5, <1>6, <1>7, <3>1
    <3>2. CASE i # c
      <4>1. agents'[i] = agents[i] /\ i \in DOMAIN agents
        BY <1>6, <3>2
      <4>2. agents[i].kind = "sub" => agents[i].parent \in DOMAIN agents
        BY <4>1 DEF Chain
        <4>3. agents[i].kind = "main" => agents[i].list \in DOMAIN lists'
          BY <1>7, <4>1 DEF Chain
        <4>4. ASSUME agents[i].kind = "sub"
              PROVE  agents[i].parent \in 1 .. i - 1 /\ agents'[agents[i].parent].kind = "main"
          <5>1. agents[i].parent \in 1 .. i - 1 /\ agents[agents[i].parent].kind = "main"
            BY <4>1, <4>4 DEF Chain
          <5>2. agents[i].parent = c => agents'[agents[i].parent].kind = "main"
            BY <1>5, <1>6
          <5>3. agents[i].parent # c => agents'[agents[i].parent] = agents[agents[i].parent]
            BY <1>6, <4>2, <4>4
          <5> QED BY <5>1, <5>2, <5>3
        <4> QED BY <4>1, <4>3, <4>4
    <3> QED BY <3>1, <3>2
  <2> QED BY <2>1, <2>2, <2>3 DEF Chain
<1>12. ListsTell'
  <2>1. WithinMerged(said', lists'[1])
    <3>1. lists'[1] = lists[1] \/ lists'[1] = Append(lists[1], User(t))
      BY <1>7, <1>9
    <3> QED BY <1>3, <1>9, <3>1, ItemTypes, MergedAppended DEF ListsTell, TypeOK
  <2>2. ToSet(lists'[1]) \subseteq ToSet(said') \cup (IF turn' = NoTurn THEN {} ELSE {turn'})
    <3>1. lists'[1] = lists[1] \/ lists'[1] = Append(lists[1], User(t))
      BY <1>7, <1>9
    <3>2. ToSet(Append(lists[1], User(t))) = ToSet(lists[1]) \cup {User(t)}
      BY <1>9, ItemTypes, SetOfAppended
    <3>3. ToSet(lists[1]) \subseteq ToSet(said)
      BY <1>3 DEF ListsTell
    <3>4. turn' = User(t) /\ User(t) # NoTurn /\ said' = said
      BY <1>3, ItemTypes
    <3> QED BY <3>1, <3>2, <3>3, <3>4
  <2>3. Within(told', lists'[Home'])
    BY <1>3, <1>7, <1>8, <1>9, ItemTypes, WithinAppended DEF ListsTell, TypeOK
  <2> QED BY <2>1, <2>2, <2>3 DEF ListsTell
<1>13. FinalLast'
  <2>1. sent # NoRequest => ~sent.final
    BY <1>3 DEF FinalLast
  <2>2. ~Sync(Append(lists[n], User(t)), told').final
    BY DEF Sync
  <2> QED BY <1>3, <2>1, <2>2 DEF FinalLast
<1>14. SyncsTellMainTurns'
  <2>1. Within(told', Append(lists[n], User(t)))
    BY <1>3, <1>8, <1>9, ItemTypes, WithinAppended DEF ListsTell, TypeOK
  <2>2. CASE sent' = sent
    BY <2>2 DEF SyncsTellMainTurns
  <2>3. CASE sent' = Sync(Append(lists[n], User(t)), told')
    <3>1. sent'.told = told' /\ sent'.transcript = Append(lists[n], User(t))
      BY <2>3 DEF Sync
    <3> QED BY <2>1, <3>1 DEF SyncsTellMainTurns
  <2> QED BY <1>3, <2>2, <2>3
<1>15. SummaryAdjoins'
  <2> SUFFICES ASSUME NEW i \in DOMAIN agents', agents'[i].kind = "main"
               PROVE  Adjoins(agents'[i].window, agents'[i].heard)
    BY DEF SummaryAdjoins
  <2>1. CASE i = c
    BY <1>4, <1>5, <1>6, <2>1
  <2>2. CASE i # c
    BY <1>6, <2>2 DEF SummaryAdjoins
  <2> QED BY <2>1, <2>2
<1>16. SyncLag'
  <2>0. PICK p : p = Synced
    OBVIOUS
  <2>1. PICK k \in Nat, len \in Nat, u \in Nat, every \in Nat \ {0} :
          k = Len(agents) /\ len = Len(told) /\ u = a.unsynced /\ every = SyncEvery
    <3>1. Len(agents) \in Nat
      OBVIOUS
    <3>2. Len(told) \in Nat
      BY DEF TypeOK
    <3>3. a.unsynced \in Nat
      BY <1>2 DEF MainAgents
    <3>4. SyncEvery \in Nat \ {0}
      OBVIOUS
    <3> QED BY <3>1, <3>2, <3>3, <3>4, Zenon
  <2>2. Lags(p)
    BY <1>3, <2>0 DEF SyncLag
  <2>3. Now = k /\ Now' = k /\ Counted = u /\ Counted' = b.unsynced
    BY <1>1, <1>2, <1>5, <1>6, <1>8, <2>1 DEF Now, Counted
  <2>4. p \in Seq(Items) /\ told \in Seq(Items) /\ told' \in Seq(Items) /\ Len(told') = len + 1
    <3>1. <<>> \in Seq(Items)
      OBVIOUS
    <3>2. sent # NoRequest => sent.told \in Seq(Items)
      BY DEF TypeOK, Requests
    <3>3. told \in Seq(Items) /\ User(t) \in Items
      BY ItemTypes DEF TypeOK
    <3> QED BY <1>3, <2>0, <2>1, <3>1, <3>2, <3>3 DEF Synced
  <2>5. IsPrefix(p, told) /\ u <= every - 1 /\ len <= Len(p) + (every - 1) * (k - 1) + u
    BY <2>1, <2>2, <2>3 DEF Lags
  <2>6. IsPrefix(p, told') /\ IsPrefix(told', told')
    BY <1>3, <2>4, <2>5, ItemTypes, PrefixAppended
  <2>7. CASE ~Due(a)
    <3>1. Synced' = p /\ b.unsynced = u + 1 /\ u + 1 <= every - 1
      BY <1>3, <1>5, <2>0, <2>1, <2>7 DEF Synced, Due
    <3>2. PICK z \in Int, x \in Nat : z = (every - 1) * (k - 1) /\ x = Len(p)
      BY <2>4
    <3>3. len + 1 <= x + z + (u + 1)
      BY <2>5, <3>2
    <3>4. Len(told') <= Len(p) + (SyncEvery - 1) * (Now' - 1) + Counted'
      BY <2>1, <2>3, <2>4, <3>1, <3>2, <3>3
    <3> QED BY <2>1, <2>3, <2>6, <3>1, <3>4 DEF SyncLag, Lags
  <2>8. CASE Due(a)
    <3>1. Synced' = told'
      <4>1. sent'.told = told' /\ sent' \in Requests
        <5>1. Append(lists[n], User(t)) \in Seq(Items)
          BY <1>9, ItemTypes
        <5>2. sent' = Sync(Append(lists[n], User(t)), told')
          BY <1>3, <2>8
        <5> QED BY <2>4, <5>1, <5>2 DEF Sync, Requests
      <4> QED BY <4>1, NoRequestAssumption DEF Synced
    <3>2. b.unsynced = 0
      BY <1>5, <2>8
    <3>3. 0 <= (every - 1) * (k - 1)
      <4>1. k >= 1
        BY <1>2, <2>1
      <4> QED BY <4>1
    <3>4. PICK z \in Int : z = (every - 1) * (k - 1)
      OBVIOUS
    <3>5. len + 1 <= len + 1 + z + 0 /\ 0 <= every - 1
      BY <3>3, <3>4
    <3> QED BY <2>1, <2>3, <2>4, <2>6, <3>1, <3>2, <3>4, <3>5 DEF SyncLag, Lags
  <2> QED BY <2>7, <2>8
<1> QED BY <1>10, <1>11, <1>12, <1>13, <1>14, <1>15, <1>16

-----------------------------------------------------------------------------
(* Another agent takes over: it starts from a list that tells its caller's *)
(* turns, or it returns to the agent that made it.                         *)
LEMMA AgentAdded ==
  ASSUME ConversationInv, ~over, NEW a \in MainAgents \cup SubAgents, agents' = Append(agents, a),
         lists' \in Seq(Seq(Items)), DOMAIN lists \subseteq DOMAIN lists',
         \A i \in DOMAIN lists : lists'[i] = lists[i],
         UNCHANGED <<turn, said, told, asked, sent, handed, over>>,
         a.kind = "main" => /\ a.list \in DOMAIN lists' /\ Within(told, lists'[a.list])
                            /\ a.window = EmptyWindow /\ a.heard = <<>> /\ a.unsynced = 0,
         a.kind = "sub" => a.parent = Now /\ Me.kind = "main"
  PROVE  ConversationInv'
<1>1. PICK s \in Seq(MainAgents \cup SubAgents), n \in Nat :
        s = agents /\ n = Len(s) /\ n = Now /\ n \in DOMAIN s /\ DOMAIN s = 1 .. n
  BY ChainFacts DEF ConversationInv, TypeOK, Now
<1>2. /\ Append(s, a) \in Seq(MainAgents \cup SubAgents) /\ DOMAIN Append(s, a) = 1 .. n + 1
      /\ Len(Append(s, a)) = n + 1 /\ Append(s, a)[n + 1] = a
      /\ \A i \in 1 .. n : Append(s, a)[i] = s[i]
  BY <1>1
<1>3. /\ agents' \in Seq(MainAgents \cup SubAgents) /\ DOMAIN agents' = 1 .. n + 1
      /\ agents'[n + 1] = a /\ Now' = n + 1 /\ Me' = a
      /\ \A i \in 1 .. n : agents'[i] = agents[i]
      /\ DOMAIN agents = 1 .. n /\ 1 \in 1 .. n
  BY <1>1, <1>2 DEF Now, Me
<1>4. a.kind \in {"main", "sub"}
  BY DEF MainAgents, SubAgents
<1>5. TypeOK'
  BY <1>3 DEF ConversationInv, TypeOK
<1>6. Chain'
  <2>1. agents' # <<>> /\ agents'[1].kind = "main" /\ agents'[1].list = 1
    BY <1>3 DEF ConversationInv, Chain
  <2>2. ASSUME NEW i \in DOMAIN agents'
        PROVE  /\ agents'[i].kind = "main" => agents'[i].list \in DOMAIN lists'
               /\ agents'[i].kind = "sub" =>
                    agents'[i].parent \in 1 .. i - 1 /\ agents'[agents'[i].parent].kind = "main"
    <3>1. CASE i = n + 1
      <4>1. n \in 1 .. i - 1 /\ n \in 1 .. n
        BY <1>1, <1>3, <3>1
      <4>2. Me = agents[n]
        BY <1>1 DEF Me
      <4> QED BY <1>1, <1>3, <3>1, <4>1, <4>2
    <3>2. CASE i # n + 1
      <4>1. i \in 1 .. n
        BY <1>3, <3>2
      <4>2. agents'[i] = agents[i] /\ i \in DOMAIN agents
        BY <1>3, <4>1
      <4>3. agents[i].kind = "sub" => agents[i].parent \in 1 .. i - 1 /\ agents[i].parent \in 1 .. n
        BY <4>1, <4>2 DEF ConversationInv, Chain
      <4> QED BY <1>3, <4>2, <4>3 DEF ConversationInv, Chain
    <3> QED BY <3>1, <3>2
  <2> QED BY <2>1, <2>2 DEF Chain
<1>7. ListsTell'
  <2>0. 1 \in DOMAIN lists
    BY ChainFacts DEF ConversationInv
  <2>1. Within(told', lists'[Home'])
    <3>1. CASE a.kind = "main"
      BY <1>3, <3>1 DEF Home
    <3>2. CASE a.kind # "main"
      <4>1. Me = agents[n] /\ Me.kind = "main" /\ a.parent = n /\ n \in 1 .. n
        BY <1>1, <1>3, <1>4, <3>2 DEF Me
      <4>2. Home' = Me.list
        BY <1>3, <3>2, <4>1 DEF Home
      <4>3. Home = Me.list
        BY <4>1 DEF Home
      <4>4. Home \in DOMAIN lists
        BY ChainFacts DEF ConversationInv
      <4> QED BY <4>2, <4>3, <4>4 DEF ConversationInv, ListsTell
    <3> QED BY <3>1, <3>2
  <2> QED BY <2>0, <2>1 DEF ConversationInv, ListsTell
<1>8. FinalLast' /\ SyncsTellMainTurns'
  BY DEF ConversationInv, FinalLast, SyncsTellMainTurns
<1>9. SummaryAdjoins'
  <2> SUFFICES ASSUME NEW i \in DOMAIN agents', agents'[i].kind = "main"
               PROVE  Adjoins(agents'[i].window, agents'[i].heard)
    BY DEF SummaryAdjoins
  <2>1. CASE i = n + 1
    BY <1>3, <2>1, NothingYet
  <2>2. CASE i # n + 1
    <3>1. i \in 1 .. n
      BY <1>3, <2>2
    <3> QED BY <1>3, <3>1 DEF ConversationInv, SummaryAdjoins
  <2> QED BY <2>1, <2>2
<1>10. SyncLag'
  <2>1. PICK len \in Nat, every \in Nat \ {0} : len = Len(told) /\ every = SyncEvery
    <3>1. Len(told) \in Nat
      BY DEF ConversationInv, TypeOK
    <3>2. SyncEvery \in Nat \ {0}
      OBVIOUS
    <3> QED BY <3>1, <3>2, Zenon
  <2>2. Synced' = Synced /\ Counted' = 0
    BY <1>3 DEF Synced, Counted
  <2>3. Lags(Synced) /\ Len(Synced) \in Nat /\ Counted \in Nat
    <3>1. Lags(Synced)
      BY DEF ConversationInv, SyncLag
    <3>2. Len(Synced) \in Nat
      <4>1. sent # NoRequest => sent.told \in Seq(Items)
        BY DEF ConversationInv, TypeOK, Requests
      <4>2. Synced \in Seq(Items)
        BY <4>1 DEF Synced
      <4> QED BY <4>2
    <3>3. Counted \in Nat
      BY ChainFacts DEF ConversationInv, Counted, Me, MainAgents
    <3> QED BY <3>1, <3>2, <3>3
  <2>4. PICK x \in Nat, u \in Nat : x = Len(Synced) /\ u = Counted
    BY <2>3
  <2>5. u <= every - 1 /\ len <= x + (every - 1) * (n - 1) + u
    BY <1>1, <2>1, <2>3, <2>4 DEF Lags
  <2>6. (every - 1) * ((n + 1) - 1) = (every - 1) * (n - 1) + (every - 1)
    OBVIOUS
  <2>7. PICK z \in Int, y \in Int : z = (every - 1) * (n - 1) /\ y = (every - 1) * ((n + 1) - 1)
    OBVIOUS
  <2>8. len <= x + y + 0 /\ 0 <= every - 1
    BY <2>5, <2>6, <2>7
  <2> QED BY <1>3, <2>1, <2>2, <2>3, <2>4, <2>7, <2>8 DEF SyncLag, Lags
<1> QED BY <1>5, <1>6, <1>7, <1>8, <1>9, <1>10 DEF ConversationInv

(* A new main agent starts with an empty window.                           *)
LEMMA NewMainAgent ==
  ASSUME NEW list \in Nat \ {0}, NEW language \in Languages
  PROVE  /\ NewMain(list, language) \in MainAgents
         /\ NewMain(list, language).kind = "main" /\ NewMain(list, language).list = list
         /\ NewMain(list, language).window = EmptyWindow /\ NewMain(list, language).heard = <<>>
         /\ NewMain(list, language).unsynced = 0
BY NothingYet DEF NewMain, MainAgents

(* The four ways a call gets another agent, or another flow.               *)
LEMMA SwitchLanguageStep ==
  ASSUME ConversationInv, SwitchLanguage
  PROVE  ConversationInv'
<1>1. PICK language \in Languages : agents' = Append(agents, NewMain(Me.list, language))
  BY DEF SwitchLanguage
<1>2. /\ Me.kind = "main" /\ ~over /\ UNCHANGED <<lists, turn, said, told, asked, sent, handed, over>>
      /\ Me.list = Home /\ Home \in DOMAIN lists /\ lists \in Seq(Seq(Items))
  BY ChainFacts DEF ConversationInv, TypeOK, SwitchLanguage, Replying, Home
<1>3. Me.list \in Nat \ {0}
  BY <1>2, ChainFacts DEF ConversationInv
<1>4. Within(told, lists'[Me.list])
  BY <1>2 DEF ConversationInv, ListsTell
<1> QED BY <1>1, <1>2, <1>3, <1>4, NewMainAgent, AgentAdded

LEMMA TransferStep ==
  ASSUME ConversationInv, Transfer
  PROVE  ConversationInv'
<1>1. /\ agents' = Append(agents, Sub(Now)) /\ Me.kind = "main" /\ ~over
      /\ UNCHANGED <<lists, turn, said, told, asked, sent, handed, over>>
  BY DEF Transfer, Replying
<1>2. Now \in Nat \ {0}
  BY ChainFacts DEF ConversationInv
<1>3. Sub(Now) \in SubAgents /\ Sub(Now).kind = "sub" /\ Sub(Now).parent = Now
  BY <1>2 DEF Sub, SubAgents
<1> QED BY <1>1, <1>3, AgentAdded DEF ConversationInv, TypeOK

LEMMA ReturnStep ==
  ASSUME ConversationInv, Return
  PROVE  ConversationInv'
<1>1. PICK parent : parent = agents[Me.parent]
  OBVIOUS
<1>2. PICK closing \in {<<>>, <<Reply(Closing)>>} : lists' = Append(lists, lists[parent.list] \o closing)
  BY <1>1 DEF Return, Copied
<1>3. /\ agents' = Append(agents, NewMain(Len(lists) + 1, parent.language)) /\ ~over
      /\ Me.kind = "sub" /\ UNCHANGED <<turn, said, told, asked, sent, handed, over>>
  BY <1>1 DEF Return, Replying
<1>4. parent \in MainAgents /\ parent.list = Home
  <2>1. Now \in DOMAIN agents /\ Me = agents[Now]
    BY ChainFacts DEF ConversationInv, Me
  <2>2. Me.parent \in DOMAIN agents /\ parent.kind = "main"
    BY <1>1, <1>3, <2>1, ChainFacts DEF ConversationInv, Chain
  <2> QED BY <1>1, <1>3, <2>2, ChainFacts DEF ConversationInv, Home
<1>5. parent.language \in Languages
  BY <1>4 DEF MainAgents
<1>6. PICK L \in Seq(Seq(Items)), n \in Nat, old \in Seq(Items) :
        /\ L = lists /\ n = Len(L) /\ DOMAIN L = 1 .. n /\ parent.list \in 1 .. n
        /\ old = L[parent.list]
  BY <1>4, ChainFacts DEF ConversationInv, TypeOK
<1> DEFINE copy == old \o closing
<1>7. closing \in Seq(Items)
  <2>1. \A e \in Items : <<e>> \in Seq(Items)
    OBVIOUS
  <2>2. <<>> \in Seq(Items)
    OBVIOUS
  <2> QED BY <2>1, <2>2, ItemTypes
<1>8. copy \in Seq(Items) /\ Within(told, copy)
  <2>1. told \in Seq(Items) /\ Within(told, old)
    BY <1>4, <1>6 DEF ConversationInv, TypeOK, ListsTell
  <2> QED BY <1>6, <1>7, <2>1, WithinLonger, ConcatProperties
<1> HIDE DEF copy
<1>9. /\ Append(L, copy) \in Seq(Seq(Items)) /\ DOMAIN Append(L, copy) = 1 .. n + 1
      /\ Append(L, copy)[n + 1] = copy /\ \A i \in 1 .. n : Append(L, copy)[i] = L[i]
  BY <1>6, <1>8
<1>10. /\ lists' \in Seq(Seq(Items)) /\ DOMAIN lists \subseteq DOMAIN lists'
       /\ \A i \in DOMAIN lists : lists'[i] = lists[i]
       /\ n + 1 \in DOMAIN lists' /\ lists'[n + 1] = copy /\ Len(lists) + 1 = n + 1
  BY <1>2, <1>6, <1>9 DEF copy
<1>11. n + 1 \in Nat \ {0}
  BY <1>6
<1>12. PICK k \in Nat \ {0}, language \in Languages : k = n + 1 /\ language = parent.language
  BY <1>5, <1>11, Zenon
<1> DEFINE next == NewMain(k, language)
<1>13. agents' = Append(agents, next)
  <2>1. Len(lists) + 1 = k
    BY <1>10, <1>12
  <2> QED BY <1>3, <1>12, <2>1
<1>14. /\ next \in MainAgents /\ next.kind = "main" /\ next.list = k
       /\ next.window = EmptyWindow /\ next.heard = <<>> /\ next.unsynced = 0
  BY NewMainAgent, Zenon
<1> HIDE DEF next
<1> QED BY <1>3, <1>8, <1>10, <1>12, <1>13, <1>14, AgentAdded

LEMMA StartFlowStep ==
  ASSUME ConversationInv, StartFlow
  PROVE  ConversationInv'
<1>0. PICK flow \in Flows \cup {NoFlow} :
        agents' = [agents EXCEPT ![Now] = [Me EXCEPT !.flow = flow]]
  BY DEF StartFlow
<1>1. PICK c, a, b :
        /\ c = Now /\ a = Me /\ b = [a EXCEPT !.flow = flow]
        /\ agents' = [agents EXCEPT ![c] = b]
  BY <1>0
<1>2. /\ ~over /\ UNCHANGED <<lists, turn, said, told, asked, sent, handed, over>>
      /\ c \in DOMAIN agents /\ a = agents[c] /\ a \in MainAgents /\ a.kind = "main" /\ c = Len(agents)
  BY <1>1, ChainFacts DEF ConversationInv, StartFlow, Replying, Me, Now
<1>3. b \in MainAgents /\ b.kind = "main" /\ b.list = a.list /\ b.window = a.window /\ b.heard = a.heard
      /\ b.unsynced = a.unsynced
  BY <1>1, <1>2 DEF MainAgents
<1>4. /\ DOMAIN agents' = DOMAIN agents /\ Len(agents') = Len(agents)
      /\ agents'[c] = b /\ \A i \in DOMAIN agents : i # c => agents'[i] = agents[i]
      /\ agents' \in Seq(MainAgents \cup SubAgents)
  <2>1. PICK s, r : s = agents /\ r = agents'
    OBVIOUS
  <2>2. /\ s \in Seq(MainAgents \cup SubAgents) /\ c \in DOMAIN s /\ r = [s EXCEPT ![c] = b]
        /\ b \in MainAgents \cup SubAgents
    BY <1>1, <1>2, <1>3, <2>1 DEF ConversationInv, TypeOK
  <2>3. /\ r \in Seq(MainAgents \cup SubAgents) /\ DOMAIN r = DOMAIN s /\ Len(r) = Len(s)
        /\ r[c] = b /\ \A i \in DOMAIN s : i # c => r[i] = s[i]
    BY <2>2, ReplacedOne
  <2> QED BY <2>1, <2>3
<1>5. TypeOK'
  BY <1>2, <1>4 DEF ConversationInv, TypeOK
<1>6. \A i \in DOMAIN agents :
        /\ agents'[i].kind = agents[i].kind
        /\ agents[i].kind = "main" => /\ agents'[i].list = agents[i].list
                                      /\ agents'[i].window = agents[i].window
                                      /\ agents'[i].heard = agents[i].heard
        /\ agents[i].kind = "sub" => agents'[i].parent = agents[i].parent
  BY <1>2, <1>3, <1>4
<1>7. Chain'
  <2>1. agents' # <<>> /\ 1 \in DOMAIN agents
    BY <1>4, ChainFacts DEF ConversationInv, Chain
  <2>2. ASSUME NEW i \in DOMAIN agents, agents[i].kind = "sub"
        PROVE  agents[i].parent \in DOMAIN agents
    BY <2>2, ChainFacts DEF ConversationInv, Chain
  <2> QED BY <1>2, <1>4, <1>6, <2>1, <2>2 DEF ConversationInv, Chain
<1>8. ListsTell'
  <2>1. Me' = b /\ Me = a
    BY <1>1, <1>4 DEF Me, Now
  <2>2. Home' = Home
    BY <1>2, <1>3, <2>1 DEF Home
  <2> QED BY <1>2, <2>2 DEF ConversationInv, ListsTell
<1>9. FinalLast' /\ SyncsTellMainTurns'
  BY <1>2 DEF ConversationInv, FinalLast, SyncsTellMainTurns
<1>10. SummaryAdjoins'
  BY <1>4, <1>6 DEF ConversationInv, SummaryAdjoins
<1>11. SyncLag'
  <2>1. Me' = b /\ Me = a /\ Now' = Now
    BY <1>1, <1>4 DEF Me, Now
  <2>2. Counted' = Counted /\ Synced' = Synced
    BY <1>2, <1>3, <2>1 DEF Counted, Synced
  <2> QED BY <1>2, <2>1, <2>2 DEF ConversationInv, SyncLag, Lags
<1> QED BY <1>5, <1>7, <1>8, <1>9, <1>10, <1>11 DEF ConversationInv

(* A handover while the call goes on changes nothing of what was told.     *)
LEMMA HandOverStep ==
  ASSUME ConversationInv, HandOver
  PROVE  ConversationInv'
<1>1. /\ ~over /\ handed' = TRUE
      /\ UNCHANGED <<agents, lists, turn, said, told, asked, sent, over>>
  BY DEF HandOver
<1>2. TypeOK' /\ FinalLast' /\ SyncsTellMainTurns' /\ SummaryAdjoins' /\ Chain'
  BY <1>1 DEF ConversationInv, TypeOK, FinalLast, SyncsTellMainTurns, SummaryAdjoins, Chain
<1>3. ListsTell' /\ SyncLag'
  BY <1>1 DEF ConversationInv, ListsTell, Home, SyncLag, Lags, Synced, Counted, Me, Now
<1> QED BY <1>2, <1>3 DEF ConversationInv

(* The end sends the first agent's list, turn in hand included, or no      *)
(* transcript at all.                                                      *)
LEMMA EndStep ==
  ASSUME ConversationInv, End
  PROVE  ConversationInv'
<1>1. /\ sent' = (IF handed THEN sent ELSE Final(lists[1])) /\ over' = TRUE /\ ~over
      /\ UNCHANGED <<agents, lists, turn, said, told, asked, handed>>
  BY DEF ConversationInv, Chain, End
<1>2. lists[1] \in Seq(Items)
  BY ChainFacts DEF ConversationInv
<1>3. Final(lists[1]) \in Requests /\ Final(lists[1]).final /\ Final(lists[1]).transcript = lists[1]
  <2>1. <<>> \in Seq(Items)
    OBVIOUS
  <2> QED BY <1>2, <2>1 DEF Requests, Final
<1>4. TypeOK' /\ FinalLast' /\ SyncsTellMainTurns' /\ SyncLag'
  <2>1. CASE handed
    <3>1. sent' = sent
      BY <1>1, <2>1
    <3> QED BY <1>1, <2>1, <3>1
          DEF ConversationInv, TypeOK, FinalLast, SyncsTellMainTurns, SyncLag, Lags, Synced, Counted, Me, Now
  <2>2. CASE ~handed
    <3>1. sent' = Final(lists[1])
      BY <1>1, <2>2
    <3>2. sent' # NoRequest /\ sent'.final /\ sent'.transcript = lists'[1]
      BY <1>1, <1>3, <3>1, NoRequestAssumption
    <3>3. TypeOK'
      BY <1>1, <1>3, <3>1 DEF ConversationInv, TypeOK
    <3> QED BY <1>1, <2>2, <3>2, <3>3 DEF FinalLast, SyncsTellMainTurns, SyncLag
  <2> QED BY <2>1, <2>2
<1>5. Home' = Home
  BY <1>1 DEF Home, Me, Now
<1>6. Chain' /\ ListsTell' /\ SummaryAdjoins'
  BY <1>1, <1>5 DEF ConversationInv, Chain, ListsTell, SummaryAdjoins
<1> QED BY <1>4, <1>6 DEF ConversationInv

(* The invariant is inductive. *)
LEMMA NextConversation == ConversationInv /\ [Next]_vars => ConversationInv'
<1> SUFFICES ASSUME ConversationInv, [Next]_vars PROVE ConversationInv'
  OBVIOUS
<1>1. ASSUME NEW t \in Texts, UserTurnInSub(t) PROVE ConversationInv'
  <2>1. turn = NoTurn /\ turn' = User(t) /\ ~over /\ UNCHANGED <<agents, lists, said, told, asked, sent, handed, over>>
    BY <1>1 DEF UserTurnInSub, Talking
  <2>2. TypeOK'
    BY <2>1, ItemTypes DEF ConversationInv, TypeOK
  <2>3. Home' = Home
    BY <2>1 DEF Home, Me, Now
  <2>4. ListsTell'
    BY <2>1, <2>3 DEF ConversationInv, ListsTell
  <2> QED BY <2>1, <2>2, <2>4, SameAgents
<1>2. CASE UNCHANGED vars
  <2>1. TypeOK' /\ Chain' /\ FinalLast' /\ SyncsTellMainTurns' /\ SummaryAdjoins'
    BY <1>2 DEF ConversationInv, TypeOK, Chain, FinalLast, SyncsTellMainTurns, SummaryAdjoins, vars
  <2>2. Home' = Home
    BY <1>2 DEF Home, Me, Now, vars
  <2>3. ListsTell' /\ SyncLag'
    BY <1>2, <2>2 DEF ConversationInv, ListsTell, SyncLag, Lags, Synced, Counted, Me, Now, vars
  <2> QED BY <2>1, <2>3 DEF ConversationInv
<1> QED
  BY <1>1, <1>2, UserTurnStep, CommitSteps, SwitchLanguageStep, TransferStep, ReturnStep,
     StartFlowStep, HandOverStep, EndStep DEF Next

-----------------------------------------------------------------------------
(* Agents, lists, windows and requests keep their shapes through every     *)
(* switch, transfer and return of a call (tenant_agent.py).                *)
THEOREM ConversationTypeOK == Spec => []TypeOK
<1>1. ConversationInv => TypeOK
  BY DEF ConversationInv
<1> QED BY <1>1, InitConversation, NextConversation, PTL DEF Spec

(* Whatever agents served the call, the final transcript has everything    *)
(* that was said in it, in order, and nothing else (shutdown.py sends the  *)
(* list session_events.py kept).  Of a call handed over the last sync is    *)
(* kept; it lacks, of the caller's turns to main agents, fewer than        *)
(* SyncEvery for each agent.                                               *)
THEOREM FinalTellsCall == Spec => []TranscriptTells
<1>1. ASSUME ConversationInv, over PROVE TranscriptTells
  <2>1. CASE handed
    <3>1. Lags(Synced) /\ (sent = NoRequest \/ ~sent.final)
      BY <1>1, <2>1 DEF ConversationInv, SyncLag, FinalLast
    <3>2. PICK k \in Nat, every \in Nat \ {0} : k = Now /\ every = SyncEvery
      BY <1>1, ChainFacts DEF ConversationInv
    <3>3. PICK len \in Nat, x \in Nat, u \in Nat : len = Len(told) /\ x = Len(Synced) /\ u = Counted
      <4>1. Counted \in Nat
        BY <1>1, ChainFacts DEF ConversationInv, Counted, Me, MainAgents
      <4>2. sent # NoRequest => sent.told \in Seq(Items)
        BY <1>1 DEF ConversationInv, TypeOK, Requests
      <4>3. Synced \in Seq(Items) /\ told \in Seq(Items)
        BY <1>1, <4>2 DEF Synced, ConversationInv, TypeOK
      <4> QED BY <4>1, <4>3
    <3>4. u <= every - 1 /\ len <= x + (every - 1) * (k - 1) + u
      BY <3>1, <3>2, <3>3 DEF Lags
    <3>5. (every - 1) * k = (every - 1) * (k - 1) + (every - 1)
      OBVIOUS
    <3>6. PICK z \in Int, y \in Int : z = (every - 1) * (k - 1) /\ y = (every - 1) * k
      OBVIOUS
    <3>7. len <= x + y
      BY <3>4, <3>5, <3>6
    <3> QED BY <2>1, <3>1, <3>2, <3>3, <3>6, <3>7 DEF Lags, TranscriptTells
  <2>2. CASE ~handed
    <3>1. sent # NoRequest /\ sent.final /\ sent.transcript = lists[1]
      BY <1>1, <2>2 DEF ConversationInv, FinalLast
    <3>2. /\ WithinMerged(said, lists[1])
          /\ ToSet(lists[1]) \subseteq ToSet(said) \cup {turn}
      BY <1>1 DEF ConversationInv, ListsTell
    <3> QED BY <2>2, <3>1, <3>2 DEF TranscriptTells
  <2> QED BY <2>1, <2>2
<1>2. ConversationInv => TranscriptTells
  BY <1>1 DEF TranscriptTells
<1> QED BY <1>2, InitConversation, NextConversation, PTL DEF Spec

(* A sync has what the caller told every main agent so far, in order,      *)
(* although language switches share the list and returns copy it           *)
(* (tenant_agent.py, select_language.py, base_sub_agent.py).               *)
THEOREM SyncsTell == Spec => []SyncsTellMainTurns
<1>1. ConversationInv => SyncsTellMainTurns
  BY DEF ConversationInv
<1> QED BY <1>1, InitConversation, NextConversation, PTL DEF Spec

(* Whatever the sizes, the recent turns are the last ones, as many as the  *)
(* window promises, and only short turns fall between what the summary     *)
(* quotes and them (context/window.py).                                    *)
THEOREM NothingBetween == Spec => []SummaryAdjoins
<1>1. ConversationInv => SummaryAdjoins
  BY DEF ConversationInv
<1> QED BY <1>1, InitConversation, NextConversation, PTL DEF Spec
=============================================================================
