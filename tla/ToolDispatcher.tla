--------------------------- MODULE ToolDispatcher ---------------------------
(***************************************************************************)
(* The RelayDesk tool dispatcher (src/src/assemblyai_voice/tools.py) over  *)
(* the business store and the cases table (src/src/relaydesk/store.py,     *)
(* specialists of orchestration.py).  A worker is a bridge process; its    *)
(* event loop executes one tool.call at a time, synchronously, and every   *)
(* store method it calls on the way is a transaction of its own, so        *)
(* another process can act between any two of them.                        *)
(*                                                                         *)
(* Which tool is called, with which arguments and on which case is the     *)
(* language model's choice and therefore unconstrained.                    *)
(***************************************************************************)
EXTENDS RelayDeskStore, FiniteSets

CONSTANTS
  Cases,       \* case ids create_case may draw
  Facts,       \* facts a caller may confirm
  Customers,   \* customer ids a case may be opened for
  MaxCalls     \* bound: tool calls of all workers together

ASSUME DispatcherAssumption ==
  /\ None \notin Cases /\ None \notin Facts /\ None \notin Customers
  /\ MaxCalls \in Nat

VARIABLES
  cases,    \* the cases table
  phase,    \* where the dispatcher stands in a worker's tool call
  call,     \* that call: tool, case_id, and the arguments of route_case
  row,      \* the case row a route or record transaction has read
  outcome,  \* the handler's result, as far as it matters to the case
  answer,   \* what execute returned
  calls,    \* number of calls made
  raced,    \* history: cases a write of a stale row has landed on
  owners,   \* history: every specialist a case has had
  mutated   \* history: the running call has changed business state

callVars == <<phase, call, row, outcome, answer, calls>>
history == <<raced, owners, mutated>>
vars == <<storeVars, cases, callVars, history>>

Specialists == {"front_desk", "billing", "subscriptions", "permissions"}

(* The tools the dispatcher guards, and SPECIALISTS' allow-lists on them. *)
Guarded == {"inspect_billing", "refund_duplicate", "inspect_permissions", "restore_access"}

Allowed(s) ==
  CASE s = "billing" -> {"inspect_billing", "refund_duplicate"}
    [] s = "subscriptions" -> {"inspect_billing"}
    [] s = "permissions" -> {"inspect_permissions", "restore_access"}
    [] OTHER -> {}

Tools == Guarded \union {"identify_customer", "create_case", "route_case", "get_case"}
Reads == {"identify_customer", "inspect_billing", "inspect_permissions", "get_case"}

\* An entry of the evidence log; ok: the result says ok or verified.
Events == [action : Tools, replay : BOOLEAN, ok : BOOLEAN]
CaseRows == [customer : Customers \union {None}, specialist : Specialists,
             facts : SUBSET Facts, evidence : SUBSET Events, completed : SUBSET Tools]

(* No row is mistaken for an absent one.                                   *)
ASSUME RowAssumption == None \notin CaseRows

NoCall == [tool |-> None, case |-> None, to |-> None, fact |-> None]

Init ==
  /\ StoreInit
  /\ cases = [k \in Cases |-> None]
  /\ phase = [w \in Workers |-> "idle"]
  /\ call = [w \in Workers |-> NoCall]
  /\ row = [w \in Workers |-> None]
  /\ outcome = [w \in Workers |-> None]
  /\ answer = [w \in Workers |-> "none"]
  /\ calls = 0
  /\ raced = {}
  /\ owners = [k \in Cases |-> {}]
  /\ mutated = [w \in Workers |-> FALSE]

Goto(w, p) == phase' = [phase EXCEPT ![w] = p]

Answer(w, a) ==
  /\ Goto(w, "answered")
  /\ answer' = [answer EXCEPT ![w] = a]
  /\ row' = [row EXCEPT ![w] = None]

\* After a commit: its acknowledgement is lost or the get_case that follows
\* raises, and the call is answered with an error although the row is written.
Acknowledge(w) == \E a \in {"result", "error"} : Answer(w, a)

(***************************************************************************)
(* The process and its calls                                               *)
(***************************************************************************)
Start(w) ==
  /\ StoreStart(w)
  /\ UNCHANGED <<cases, callVars, history>>

Crash(w) ==
  /\ StoreCrash(w)
  /\ Goto(w, "idle")
  /\ call' = [call EXCEPT ![w] = NoCall]
  /\ row' = [row EXCEPT ![w] = None]
  /\ outcome' = [outcome EXCEPT ![w] = None]
  /\ answer' = [answer EXCEPT ![w] = "none"]
  /\ mutated' = [mutated EXCEPT ![w] = FALSE]
  /\ UNCHANGED <<cases, calls, raced, owners>>

\* A tool.call event reaches execute.  case_id may be missing or wrong.
ToolCall(w, c) ==
  /\ phase[w] = "idle" /\ pc[w] = "idle"
  /\ calls < MaxCalls
  /\ calls' = calls + 1
  /\ call' = [call EXCEPT ![w] = c]
  /\ Goto(w, IF c.tool \in Guarded THEN "check" ELSE "handle")
  /\ UNCHANGED <<storeVars, cases, row, outcome, answer, history>>

ToolCalls ==
  [tool : Tools \ {"route_case"}, case : Cases \union {None}, to : {None}, fact : {None}]
    \union [tool : {"route_case"}, case : Cases, to : Specialists, fact : Facts \union {None}]

\* packet = get_case(case_id): the owner's allow-list decides.
Owner(k) == IF k # None /\ cases[k] # None THEN cases[k].specialist ELSE None

MayRun_Unchecked(k, tool) == TRUE
MayRun(k, tool) == Owner(k) # None /\ tool \in Allowed(Owner(k))

Check(w) ==
  /\ phase[w] = "check"
  /\ \/ /\ MayRun(call[w].case, call[w].tool)
        /\ Goto(w, "handle")
        /\ UNCHANGED <<row, answer>>
     \/ /\ ~MayRun(call[w].case, call[w].tool)
        /\ Answer(w, "rejected")
  /\ UNCHANGED <<storeVars, cases, call, outcome, calls, history>>

\* The answer goes back to the bridge; the worker is free again.
Done(w) ==
  /\ phase[w] = "answered" /\ pc[w] = "idle"
  /\ Goto(w, "idle")
  /\ call' = [call EXCEPT ![w] = NoCall]
  /\ outcome' = [outcome EXCEPT ![w] = None]
  /\ answer' = [answer EXCEPT ![w] = "none"]
  /\ mutated' = [mutated EXCEPT ![w] = FALSE]
  /\ UNCHANGED <<storeVars, cases, row, calls, raced, owners>>

\* Any store access may raise: execute answers "failed safely" and no more.
Raise(w) ==
  /\ phase[w] \in {"check", "handle", "route", "record", "recording"}
  /\ Answer(w, "error")
  /\ UNCHANGED <<storeVars, cases, call, outcome, calls, history>>

(***************************************************************************)
(* The handlers                                                            *)
(***************************************************************************)
\* After the handler: record_case_event when a case was named.
Proceed(w, event) ==
  /\ outcome' = [outcome EXCEPT ![w] = event]
  /\ IF call[w].case = None \/ call[w].tool = "get_case"
       THEN Answer(w, "result")
       ELSE Goto(w, "record") /\ UNCHANGED <<row, answer>>

\* Reads: inspect_billing is always verified, inspect_permissions when the row
\* exists, and identify_customer's row has neither ok nor verified.
HandleRead(w) ==
  /\ phase[w] = "handle" /\ call[w].tool \in Reads
  /\ \E ok \in (CASE call[w].tool = "inspect_billing" -> {TRUE}
                  [] call[w].tool = "inspect_permissions" ->
                       {member[p] # None : p \in Projects}
                  [] OTHER -> {FALSE}) :
       Proceed(w, [action |-> call[w].tool, replay |-> FALSE, ok |-> ok])
  /\ UNCHANGED <<storeVars, cases, call, calls, history>>

HandleMutation(w) ==
  /\ phase[w] = "handle"
  /\ \/ call[w].tool = "refund_duplicate" /\ \E o \in Ops : BeginRefund(w, o)
     \/ call[w].tool = "restore_access" /\ \E p \in Projects : BeginRestore(w, p)
  /\ Goto(w, "store")
  /\ UNCHANGED <<cases, call, row, outcome, answer, calls, history>>

\* A step inside refund_duplicate or restore_access.
StoreStep(w) ==
  /\ phase[w] = "store"
  /\ \/ /\ \/ ReadRefundKey(w) \/ ReadCharges(w) \/ RefundConflict(w)
           \/ ReadRestoreKey(w) \/ RestoreConflict(w) \/ Fail(w)
        /\ UNCHANGED mutated
     \/ /\ CommitRefund(w) \/ CommitRestore(w)
        /\ mutated' = [mutated EXCEPT ![w] = status' # status \/ member' # member]
  /\ UNCHANGED <<cases, callVars, raced, owners>>

\* The store method is back: a result to record, or an exception.
StoreReturns(w) ==
  /\ phase[w] = "store"
  /\ Finish(w)
  /\ \/ /\ reply[w].kind = "failed"
        /\ Answer(w, "error")
        /\ UNCHANGED outcome
     \/ /\ reply[w].kind # "failed"
        /\ Proceed(w, [action |-> call[w].tool, replay |-> reply[w].kind = "replay",
                       ok |-> reply[w].ok])
  /\ UNCHANGED <<cases, call, calls, history>>

\* The new id is random: no call can have named it before.
CreateCase(w) ==
  /\ phase[w] = "handle" /\ call[w].tool = "create_case"
  /\ \E k \in Cases, customer \in Customers \union {None}, issue \in Facts :
       /\ cases[k] = None /\ \A v \in Workers : call[v].case # k
       /\ cases' = [cases EXCEPT ![k] = [customer |-> customer, specialist |-> "front_desk",
                      facts |-> {issue}, evidence |-> {}, completed |-> {}]]
       /\ owners' = [owners EXCEPT ![k] = {"front_desk"}]
  /\ Acknowledge(w)
  /\ UNCHANGED <<storeVars, call, outcome, calls, raced, mutated>>

\* route_case: SELECT the row ...
RouteRead(w) ==
  /\ phase[w] = "handle" /\ call[w].tool = "route_case"
  /\ LET k == call[w].case IN
       IF cases[k] = None
         THEN Answer(w, "result")
         ELSE /\ row' = [row EXCEPT ![w] = cases[k]]
              /\ Goto(w, "route")
              /\ UNCHANGED answer
  /\ UNCHANGED <<storeVars, cases, call, outcome, calls, history>>

\* ... then UPDATE specialist and confirmed_facts from it.
Carried_Dropped(facts, fact) == IF fact = None THEN facts ELSE {fact}
Carried(facts, fact) == IF fact = None THEN facts ELSE facts \union {fact}

\* Another worker has changed what this one writes back.
Overtaken(k, stale) == raced' = IF stale THEN raced \union {k} ELSE raced

RouteWrite(w) ==
  /\ phase[w] = "route"
  /\ LET k == call[w].case IN
       /\ cases' = [cases EXCEPT ![k].specialist = call[w].to,
                                 ![k].facts = Carried(row[w].facts, call[w].fact)]
       /\ owners' = [owners EXCEPT ![k] = @ \union {call[w].to}]
       /\ Overtaken(k, row[w].facts # cases[k].facts)
  /\ Acknowledge(w)
  /\ UNCHANGED <<storeVars, call, outcome, calls, mutated>>

(***************************************************************************)
(* record_case_event: SELECT the row, then UPDATE actions and evidence.    *)
(***************************************************************************)
RecordRead(w) ==
  /\ phase[w] = "record"
  /\ LET k == call[w].case IN
       IF cases[k] = None
         THEN Answer(w, "result")
         ELSE /\ row' = [row EXCEPT ![w] = cases[k]]
              /\ Goto(w, "recording")
              /\ UNCHANGED answer
  /\ UNCHANGED <<storeVars, cases, call, outcome, calls, history>>

Logged_VerifiedOnly(evidence, event) == IF event.ok THEN evidence \union {event} ELSE evidence
Logged(evidence, event) == evidence \union {event}

Completed(done, event) == IF event.ok THEN done \union {event.action} ELSE done

RecordWrite(w) ==
  /\ phase[w] = "recording"
  /\ LET k == call[w].case IN
       /\ cases' = [cases EXCEPT ![k].evidence = Logged(row[w].evidence, outcome[w]),
                                 ![k].completed = Completed(row[w].completed, outcome[w])]
       /\ Overtaken(k, row[w].evidence # cases[k].evidence)
  /\ Acknowledge(w)
  /\ UNCHANGED <<storeVars, call, outcome, calls, owners, mutated>>

Process(w) ==
  \/ Start(w) \/ Crash(w)
  \/ \E c \in ToolCalls : ToolCall(w, c)
  \/ Check(w) \/ HandleRead(w) \/ HandleMutation(w) \/ StoreStep(w) \/ StoreReturns(w)
  \/ CreateCase(w) \/ RouteRead(w) \/ RouteWrite(w) \/ RecordRead(w) \/ RecordWrite(w)
  \/ Raise(w) \/ Done(w)

\* Between evaluations the script resets its fixture (RelayDeskStore).
Environment ==
  /\ ResetBilling \/ ResetAccess
  /\ UNCHANGED <<cases, callVars, history>>

Next == (\E w \in Workers : Process(w)) \/ Environment

Spec == Init /\ [][Next]_vars

-----------------------------------------------------------------------------
(* Rows, calls and answers stay in the domains the code gives them. *)
TypeOK ==
  /\ StoreTypeOK
  /\ cases \in [Cases -> CaseRows \union {None}]
  /\ phase \in [Workers -> {"idle", "check", "handle", "store", "route", "record",
                            "recording", "answered"}]
  /\ call \in [Workers -> ToolCalls \union {NoCall}]
  /\ row \in [Workers -> CaseRows \union {None}]
  /\ outcome \in [Workers -> Events \union {None}]
  /\ answer \in [Workers -> {"none", "result", "rejected", "error"}]
  /\ calls \in 0 .. MaxCalls
  /\ raced \subseteq Cases
  /\ owners \in [Cases -> SUBSET Specialists]
  /\ mutated \in [Workers -> BOOLEAN]

(* A case holds evidence of a guarded tool only if a specialist who may    *)
(* use that tool has owned it: the allow-lists cannot be passed by naming  *)
(* a tool, whatever other processes route meanwhile (tools.py:119-137).    *)
EvidenceNeedsOwner ==
  \A k \in Cases : cases[k] # None =>
    \A e \in {e \in cases[k].evidence : e.action \in Guarded} :
      \E s \in owners[k] : e.action \in Allowed(s)

(* A call that returns its handler's result on a case has left the evidence *)
(* of it in the case, and no other call of the same worker removes it; only *)
(* a write another process has overtaken does (record_case_event).          *)
ResultIsEvidenced ==
  \A w \in Workers :
    answer[w] = "result" /\ outcome[w] # None /\ call[w].case # None
      /\ call[w].tool # "get_case" /\ cases[call[w].case] # None
      /\ call[w].case \notin raced
    => outcome[w] \in cases[call[w].case].evidence

(* Facts and evidence of a case are lost only by a write of a stale row:    *)
(* with one bridge process, never (store.py:203-257, docs/RELAYDESK.md:3-5).*)
LostOnlyToRace ==
  [][\A k \in Cases : cases[k] # None =>
       /\ cases'[k] # None
       /\ \/ /\ cases[k].facts \subseteq cases'[k].facts
             /\ cases[k].evidence \subseteq cases'[k].evidence
          \/ k \in raced']_vars

(* What docs/RELAYDESK.md:4-5 says of any number of processes: confirmed    *)
(* facts are not lost during handoffs.                                      *)
FactsNeverLost ==
  [][\A k \in Cases : cases[k] # None =>
       cases'[k] # None /\ cases[k].facts \subseteq cases'[k].facts]_vars

(* "Tool ... failed safely" (tools.py:151): a call that is answered with   *)
(* that error after its handler had returned has changed no business state.*)
ErrorMeansUnchanged ==
  \A w \in Workers : answer[w] = "error" /\ outcome[w] # None => ~mutated[w]
=============================================================================
