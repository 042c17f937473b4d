------------------------ MODULE ToolDispatcherProofs ------------------------
(***************************************************************************)
(* The store and its dispatcher for any number of processes, purchases,    *)
(* charges, projects, cases and calls.                                     *)
(*                                                                         *)
(* First the store alone.  TypeOK is not enough for an induction: a commit *)
(* acts on a charge chosen earlier, so the invariant says what a process   *)
(* standing before its UPDATE still knows of that charge (Pending), and    *)
(* that a refund of the demo purchase is always of the charge the fixture  *)
(* resets (DemoRefund).                                                    *)
(*                                                                         *)
(* Then the dispatcher, a client of the store: each of its steps is one of *)
(* the store's or leaves the tables alone, so what is shown of the store   *)
(* holds below the dispatcher too (StoreStepped).  About the cases it adds *)
(* what a worker holds at each point of its call (Control), that a call    *)
(* which passed the check has an owner to answer for it (Owned), and which *)
(* write may take something away (CasesKept).                              *)
(***************************************************************************)
EXTENDS ToolDispatcher, TLAPS

Exists(c) == status[c] # None

(* A call that is running has a target of its kind. *)
Targeted ==
  \A w \in Workers :
    /\ pc[w] \in {"refund_key", "refund_charges", "refund_write"} => target[w] \in Ops
    /\ pc[w] \in {"restore_key", "restore_write"} => target[w] \in Projects

(* Before its UPDATE a process holds an existing charge of its operation,  *)
(* which has another existing charge.                                      *)
Pending ==
  \A w \in Workers : pc[w] = "refund_write" =>
    /\ victim[w] \in Charges /\ Exists(victim[w])
    /\ OpOf[victim[w]] = target[w]
    /\ \E d \in Charges : d # victim[w] /\ OpOf[d] = target[w] /\ Exists(d)
    /\ target[w] = DemoOp => victim[w] = DemoCharge

DemoRefund == refundKey[DemoOp] # None => refundKey[DemoOp].charge = DemoCharge

StoreInv == /\ StoreTypeOK /\ Targeted /\ Pending /\ DemoRefund
            /\ RefundMatchesKey /\ OriginalChargeKept /\ RestoreReplayIsTrue

USE StoreAssumption DEF StoreAssumption, DemoAssumption

(* Initially every table is empty and no process runs. *)
LEMMA InitStoreInv == StoreInit => StoreInv
<1> SUFFICES ASSUME StoreInit PROVE StoreInv
  OBVIOUS
<1>1. StoreTypeOK
  BY DEF StoreInit, StoreTypeOK, Replies, NoReply
<1>2. Targeted /\ Pending
  BY DEF StoreInit, Targeted, Pending
<1>3. DemoRefund
  BY DemoAssumption DEF StoreInit, DemoRefund
<1>4. RefundMatchesKey /\ OriginalChargeKept /\ RestoreReplayIsTrue
  BY DEF StoreInit, RefundMatchesKey, OriginalChargeKept, RestoreReplayIsTrue, Refunded, Captured
<1> QED BY <1>1, <1>2, <1>3, <1>4 DEF StoreInv

-----------------------------------------------------------------------------
(* Returning leaves the worker's own variables in their types. *)
Kinds == {"refused", "failed", "fresh", "replay"}

LEMMA ReturnType ==
  ASSUME StoreTypeOK, NEW w \in Workers, NEW kind \in Kinds, NEW ok \in BOOLEAN,
         Return(w, kind, ok)
  PROVE  /\ pc' \in [Workers -> {"down", "idle", "returned"} \union InCall]
         /\ target' \in [Workers -> Ops \union Projects \union {None}]
         /\ victim' \in [Workers -> Charges \union {None}]
         /\ reply' \in [Workers -> Replies]
<1>1. [kind |-> kind, ok |-> ok] \in Replies
  BY DEF Replies, Kinds
<1> QED BY <1>1 DEF StoreTypeOK, Return

(* A recorded result is a boolean verdict. *)
LEMMA RecordedOk ==
  ASSUME StoreTypeOK
  PROVE  /\ \A o \in Ops : refundKey[o] # None => refundKey[o].ok \in BOOLEAN
         /\ \A p \in Projects : restoreKey[p] # None => restoreKey[p].ok \in BOOLEAN
<1>1. ASSUME NEW o \in Ops, refundKey[o] # None PROVE refundKey[o].ok \in BOOLEAN
  BY <1>1 DEF StoreTypeOK, RefundResults
<1>2. ASSUME NEW p \in Projects, restoreKey[p] # None PROVE restoreKey[p].ok \in BOOLEAN
  BY <1>2 DEF StoreTypeOK, RestoreResults
<1> QED BY <1>1, <1>2

(* Steps that leave the tables alone keep what is said of the tables, and  *)
(* keep Pending when they start no UPDATE.                                 *)
LEMMA TablesUnchanged ==
  ASSUME StoreInv, UNCHANGED tables, StoreTypeOK', Targeted', Pending'
  PROVE  StoreInv'
<1>1. DemoRefund' /\ RestoreReplayIsTrue'
  BY DEF StoreInv, tables, DemoRefund, RestoreReplayIsTrue
<1>2. RefundMatchesKey' /\ OriginalChargeKept'
  BY DEF StoreInv, tables, RefundMatchesKey, OriginalChargeKept, Refunded, Captured
<1> QED BY <1>1, <1>2 DEF StoreInv

LEMMA StoreCallStep ==
  ASSUME NEW w \in Workers, StoreInv, UNCHANGED tables,
         \/ StoreCrash(w) \/ Fail(w) \/ Finish(w)
         \/ \E o \in Ops : BeginRefund(w, o)
         \/ \E p \in Projects : BeginRestore(w, p)
         \/ ReadRefundKey(w) \/ ReadRestoreKey(w)
         \/ RefundConflict(w) \/ RestoreConflict(w)
  PROVE  StoreInv'
<1> USE DEF StoreInv, tables
<1>1. StoreTypeOK'
  <2>0. NoReply \in Replies
    BY DEF NoReply, Replies
  <2>1. CASE StoreCrash(w) \/ Finish(w)
    BY <2>0, <2>1 DEF StoreTypeOK, StoreCrash, Finish
  <2>2. CASE Fail(w) \/ RefundConflict(w) \/ RestoreConflict(w)
    <3>1. Return(w, "failed", FALSE)
      BY <2>2 DEF Fail, RefundConflict, RestoreConflict
    <3> QED BY <3>1, ReturnType DEF StoreTypeOK, Kinds
  <2>3. CASE (\E o \in Ops : BeginRefund(w, o)) \/ (\E p \in Projects : BeginRestore(w, p))
    BY <2>3 DEF StoreTypeOK, InCall, BeginRefund, BeginRestore
  <2>4. CASE ReadRefundKey(w)
    <3>1. CASE refundKey[target[w]] = None
      BY <2>4, <3>1 DEF StoreTypeOK, InCall, ReadRefundKey
    <3>2. CASE refundKey[target[w]] # None
      <4>1. refundKey[target[w]].ok \in BOOLEAN
        BY <2>4, <3>2, RecordedOk DEF Targeted, ReadRefundKey
      <4> QED BY <2>4, <3>2, <4>1, ReturnType DEF StoreTypeOK, Kinds, ReadRefundKey
    <3> QED BY <3>1, <3>2
  <2>5. CASE ReadRestoreKey(w)
    <3>1. CASE restoreKey[target[w]] = None
      BY <2>5, <3>1 DEF StoreTypeOK, InCall, ReadRestoreKey
    <3>2. CASE restoreKey[target[w]] # None
      <4>1. restoreKey[target[w]].ok \in BOOLEAN
        BY <2>5, <3>2, RecordedOk DEF Targeted, ReadRestoreKey
      <4> QED BY <2>5, <3>2, <4>1, ReturnType DEF StoreTypeOK, Kinds, ReadRestoreKey
    <3> QED BY <3>1, <3>2
  <2> QED BY <2>1, <2>2, <2>3, <2>4, <2>5
<1>2. Targeted'
  BY
  DEF StoreTypeOK, InCall, Targeted, StoreCrash, Fail, Finish, BeginRefund, BeginRestore,
      ReadRefundKey, ReadRestoreKey, RefundConflict, RestoreConflict, Return
<1>3. Pending'
  BY
  DEF StoreTypeOK, InCall, Targeted, Pending, Exists, StoreCrash, Fail, Finish, BeginRefund,
      BeginRestore, ReadRefundKey, ReadRestoreKey, RefundConflict, RestoreConflict, Return
<1> QED BY <1>1, <1>2, <1>3, TablesUnchanged

(* Choosing the duplicate establishes Pending. *)
LEMMA ReadChargesStep ==
  ASSUME NEW w \in Workers, StoreInv, ReadCharges(w)
  PROVE  StoreInv'
<1>1. StoreTypeOK'
  <2>1. CASE ~Several(Captured(target[w]))
    BY <2>1, ReturnType DEF StoreInv, StoreTypeOK, Kinds, ReadCharges, tables
  <2>2. CASE Several(Captured(target[w]))
    BY <2>2 DEF StoreInv, StoreTypeOK, InCall, ReadCharges, tables, Captured
  <2> QED BY <2>1, <2>2
<1>3. Targeted'
  BY DEF StoreInv, StoreTypeOK, Targeted, ReadCharges, Return, tables
<1>2. Pending'
  <2>1. CASE ~Several(Captured(target[w]))
    BY <2>1 DEF StoreInv, StoreTypeOK, Pending, Exists, ReadCharges, Return, tables
  <2>2. CASE Several(Captured(target[w]))
    <3>1. PICK last \in Captured(target[w]) :
            /\ \A c \in Captured(target[w]) : c <= last
            /\ victim' = [victim EXCEPT ![w] = last]
      BY <2>2 DEF ReadCharges
    <3>2. PICK d \in Captured(target[w]) : d # last
      BY <2>2 DEF Several
    <3>3. target[w] = DemoOp => last = DemoCharge
      BY <3>1, <3>2, DemoAssumption DEF Captured
    <3> QED
      BY <2>2, <3>1, <3>2, <3>3
      DEF StoreInv, StoreTypeOK, Pending, Exists, ReadCharges, tables, Captured
  <2> QED BY <2>1, <2>2
<1> QED BY <1>1, <1>2, <1>3, TablesUnchanged DEF ReadCharges

(* The commit of a refund: the key is free, so by RefundMatchesKey nothing *)
(* of the operation is refunded, so both charges of Pending are captured.  *)
LEMMA CommitCaptures ==
  ASSUME NEW w \in Workers, StoreInv, CommitRefund(w)
  PROVE  /\ target[w] \in Ops /\ victim[w] \in Captured(target[w])
         /\ Refunded(target[w]) = {}
         /\ \E d \in Captured(target[w]) : d # victim[w]
         /\ target[w] = DemoOp => victim[w] = DemoCharge
<1>1. target[w] \in Ops /\ refundKey[target[w]] = None
  BY DEF StoreInv, Targeted, CommitRefund, Insertable
<1>2. Refunded(target[w]) = {}
  BY <1>1 DEF StoreInv, RefundMatchesKey
<1>3. \A c \in Charges : OpOf[c] = target[w] /\ Exists(c) => c \in Captured(target[w])
  BY <1>2 DEF StoreInv, StoreTypeOK, Exists, Captured, Refunded
<1> QED BY <1>1, <1>2, <1>3 DEF StoreInv, Pending, CommitRefund

LEMMA CommitRefundStep ==
  ASSUME NEW w \in Workers, StoreInv, CommitRefund(w)
  PROVE  StoreInv'
<1>0. PICK o, c, ok : o = target[w] /\ c = victim[w] /\ ok = Single(Captured(o) \ {c})
  OBVIOUS
<1>1. /\ o \in Ops /\ c \in Captured(o) /\ Refunded(o) = {}
      /\ o = DemoOp => c = DemoCharge
      /\ \E d \in Captured(o) : d # c
  BY <1>0, CommitCaptures
<1>2. c \in Charges /\ OpOf[c] = o
  BY <1>1 DEF Captured
<1>3. /\ status' = [status EXCEPT ![c] = "refunded"]
      /\ refundKey' = [refundKey EXCEPT ![o] = [ok |-> ok, charge |-> c]]
      /\ Return(w, "fresh", ok) \/ Return(w, "failed", FALSE)
      /\ UNCHANGED <<member, restoreKey>>
  BY <1>0 DEF CommitRefund
<1>4. ok \in BOOLEAN /\ [ok |-> ok, charge |-> c] \in RefundResults
  BY <1>0, <1>2 DEF Single, RefundResults
<1>5. refundKey'[o] = [ok |-> ok, charge |-> c] /\ refundKey'[o] # None
  BY <1>1, <1>3, <1>4 DEF StoreInv, StoreTypeOK, RefundResults
<1>6. StoreTypeOK'
  <2>1. /\ pc' \in [Workers -> {"down", "idle", "returned"} \union InCall]
        /\ target' \in [Workers -> Ops \union Projects \union {None}]
        /\ victim' \in [Workers -> Charges \union {None}]
        /\ reply' \in [Workers -> Replies]
    BY <1>3, <1>4, ReturnType DEF StoreInv, Kinds
  <2>2. status' \in [Charges -> {None, "captured", "refunded"}]
    BY <1>3 DEF StoreInv, StoreTypeOK
  <2>3. refundKey' \in [Ops -> RefundResults \union {None}]
    BY <1>3, <1>4 DEF StoreInv, StoreTypeOK
  <2> QED BY <1>3, <2>1, <2>2, <2>3 DEF StoreInv, StoreTypeOK
<1>7. Targeted'
  BY <1>3 DEF StoreInv, StoreTypeOK, Targeted, Return
<1>8. Pending'
  BY <1>2, <1>3 DEF StoreInv, StoreTypeOK, Pending, Exists, Return
<1>9. DemoRefund'
  <2>1. CASE o = DemoOp
    BY <1>1, <1>5, <2>1 DEF DemoRefund
  <2>2. CASE o # DemoOp
    BY <1>3, <2>2, DemoAssumption DEF StoreInv, StoreTypeOK, DemoRefund
  <2> QED BY <2>1, <2>2
<1>10. RefundMatchesKey'
  <2> SUFFICES ASSUME NEW p \in Ops
               PROVE Refunded(p)' = IF refundKey'[p] = None THEN {} ELSE {refundKey'[p].charge}
    BY DEF RefundMatchesKey
  <2>1. CASE p = o
    <3>1. Refunded(o)' = {c}
      BY <1>1, <1>2, <1>3 DEF StoreInv, StoreTypeOK, Refunded
    <3> QED BY <3>1, <2>1, <1>5
  <2>2. CASE p # o
    <3>1. Refunded(p)' = Refunded(p)
      BY <1>2, <1>3, <2>2 DEF StoreInv, StoreTypeOK, Refunded
    <3>2. refundKey'[p] = refundKey[p]
      BY <1>3, <2>2 DEF StoreInv, StoreTypeOK
    <3> QED BY <3>1, <3>2 DEF StoreInv, RefundMatchesKey
  <2> QED BY <2>1, <2>2
<1>11. OriginalChargeKept'
  <2> SUFFICES ASSUME NEW p \in Ops, Refunded(p)' # {} PROVE Captured(p)' # {}
    BY DEF OriginalChargeKept
  <2>1. CASE p = o
    <3>1. PICK d \in Captured(o) : d # c
      BY <1>1
    <3>2. d \in Captured(o)'
      BY <1>3, <3>1 DEF StoreInv, StoreTypeOK, Captured
    <3> QED BY <3>2, <2>1
  <2>2. CASE p # o
    <3>1. Refunded(p)' = Refunded(p) /\ Captured(p)' = Captured(p)
      BY <1>2, <1>3, <2>2 DEF StoreInv, StoreTypeOK, Refunded, Captured
    <3> QED BY <3>1 DEF StoreInv, OriginalChargeKept
  <2> QED BY <2>1, <2>2
<1>12. RestoreReplayIsTrue'
  BY <1>3 DEF StoreInv, RestoreReplayIsTrue
<1> QED BY <1>6, <1>7, <1>8, <1>9, <1>10, <1>11, <1>12 DEF StoreInv

LEMMA CommitRestoreStep ==
  ASSUME NEW w \in Workers, StoreInv, CommitRestore(w)
  PROVE  StoreInv'
<1>0. PICK p, ok : p = target[w] /\ ok = (member[p] # None)
  OBVIOUS
<1>1. p \in Projects
  BY <1>0 DEF StoreInv, Targeted, CommitRestore
<1>2. /\ member' = IF ok THEN [member EXCEPT ![p] = "active"] ELSE member
      /\ restoreKey' = [restoreKey EXCEPT ![p] = [ok |-> ok]]
      /\ Return(w, "fresh", ok) \/ Return(w, "failed", FALSE)
      /\ UNCHANGED <<status, refundKey>>
  BY <1>0 DEF CommitRestore
<1>3. ok \in BOOLEAN /\ [ok |-> ok] \in RestoreResults
  BY <1>0 DEF RestoreResults
<1>4. RestoreReplayIsTrue'
  BY <1>0, <1>1, <1>2, <1>3 DEF StoreInv, StoreTypeOK, RestoreReplayIsTrue
<1>5. StoreTypeOK'
  <2>1. /\ pc' \in [Workers -> {"down", "idle", "returned"} \union InCall]
        /\ target' \in [Workers -> Ops \union Projects \union {None}]
        /\ victim' \in [Workers -> Charges \union {None}]
        /\ reply' \in [Workers -> Replies]
    BY <1>2, <1>3, ReturnType DEF StoreInv, Kinds
  <2> QED BY <1>2, <1>3, <2>1 DEF StoreInv, StoreTypeOK
<1>6. Targeted' /\ Pending'
  BY <1>2 DEF StoreInv, StoreTypeOK, Targeted, Pending, Exists, Return
<1>7. DemoRefund' /\ RefundMatchesKey' /\ OriginalChargeKept'
  BY <1>2 DEF StoreInv, DemoRefund, RefundMatchesKey, OriginalChargeKept, Refunded, Captured
<1> QED BY <1>4, <1>5, <1>6, <1>7 DEF StoreInv

(* Seeding adds rows and changes none. *)
LEMMA StartStep ==
  ASSUME NEW w \in Workers, StoreInv, StoreStart(w)
  PROVE  StoreInv'
<1>1. \A c \in Charges : status'[c] = IF c \in SeedCharges /\ status[c] = None
                                      THEN "captured" ELSE status[c]
  BY DEF StoreStart, SeedRow
<1>2. \A p \in Projects : member'[p] = IF p \in SeedProjects /\ member[p] = None
                                       THEN "inactive" ELSE member[p]
  BY DEF StoreStart, SeedRow
<1>3. StoreTypeOK'
  BY DEF StoreInv, StoreTypeOK, StoreStart, SeedRow
<1>4. Targeted' /\ Pending'
  <2>1. \A c \in Charges : Exists(c) => Exists(c)'
    BY <1>1 DEF Exists
  <2> QED BY <2>1 DEF StoreInv, StoreTypeOK, Targeted, Pending, StoreStart
<1>5. \A o \in Ops : Refunded(o)' = Refunded(o) /\ Captured(o) \subseteq Captured(o)'
  BY <1>1 DEF StoreInv, StoreTypeOK, Refunded, Captured
<1>6. DemoRefund' /\ RefundMatchesKey' /\ OriginalChargeKept'
  BY <1>5 DEF StoreInv, DemoRefund, RefundMatchesKey, OriginalChargeKept, StoreStart
<1>7. RestoreReplayIsTrue'
  BY <1>2 DEF StoreInv, StoreTypeOK, RestoreReplayIsTrue, StoreStart
<1> QED BY <1>3, <1>4, <1>6, <1>7 DEF StoreInv

(* The reset recaptures the very charge whose refund it forgets. *)
LEMMA ResetBillingStep ==
  ASSUME StoreInv, ResetBilling
  PROVE  StoreInv'
<1>1. /\ status' = [status EXCEPT ![DemoCharge] = "captured"]
      /\ refundKey' = [refundKey EXCEPT ![DemoOp] = None]
      /\ UNCHANGED <<member, restoreKey, pc, target, victim, reply>>
  BY DEF ResetBilling, Forget
<1>2. StoreTypeOK' /\ Targeted' /\ Pending' /\ DemoRefund'
  BY <1>1, DemoAssumption DEF StoreInv, StoreTypeOK, Targeted, Pending, Exists, DemoRefund
<1>3. Refunded(DemoOp)' = {}
  <2>1. Refunded(DemoOp) \subseteq {DemoCharge}
    BY DemoAssumption DEF StoreInv, RefundMatchesKey, DemoRefund
  <2> QED BY <1>1, <2>1, DemoAssumption DEF StoreInv, StoreTypeOK, Refunded
<1>4. ASSUME NEW o \in Ops, o # DemoOp
      PROVE Refunded(o)' = Refunded(o) /\ Captured(o)' = Captured(o)
  BY <1>1, <1>4, DemoAssumption DEF StoreInv, StoreTypeOK, Refunded, Captured
<1>5. RefundMatchesKey'
  BY <1>1, <1>3, <1>4, DemoAssumption DEF StoreInv, StoreTypeOK, RefundMatchesKey
<1>6. OriginalChargeKept'
  BY <1>3, <1>4 DEF StoreInv, OriginalChargeKept
<1>7. RestoreReplayIsTrue'
  BY <1>1 DEF StoreInv, RestoreReplayIsTrue
<1> QED BY <1>2, <1>5, <1>6, <1>7 DEF StoreInv

LEMMA StoreEnvironmentStep ==
  ASSUME StoreInv, StoreEnvironment
  PROVE  StoreInv'
<1>1. CASE ResetAccess
  <2>1. StoreTypeOK' /\ RestoreReplayIsTrue'
    BY <1>1 DEF StoreInv, StoreTypeOK, RestoreReplayIsTrue, ResetAccess, Forget
  <2>2. Targeted' /\ Pending' /\ DemoRefund' /\ RefundMatchesKey' /\ OriginalChargeKept'
    BY <1>1
    DEF StoreInv, Targeted, Pending, Exists, DemoRefund, RefundMatchesKey, OriginalChargeKept,
        Refunded, Captured, ResetAccess
  <2> QED BY <2>1, <2>2 DEF StoreInv
<1>2. ASSUME NEW c \in Charges, Capture(c) PROVE StoreInv'
  <2>1. StoreTypeOK' /\ Targeted' /\ Pending'
    BY <1>2 DEF StoreInv, StoreTypeOK, Targeted, Pending, Exists, Capture
  <2>2. \A o \in Ops : Refunded(o)' = Refunded(o) /\ Captured(o) \subseteq Captured(o)'
    BY <1>2 DEF StoreInv, StoreTypeOK, Refunded, Captured, Capture
  <2>3. DemoRefund' /\ RefundMatchesKey' /\ OriginalChargeKept' /\ RestoreReplayIsTrue'
    BY <1>2, <2>2
    DEF StoreInv, DemoRefund, RefundMatchesKey, OriginalChargeKept, RestoreReplayIsTrue, Capture
  <2> QED BY <2>1, <2>3 DEF StoreInv
<1>3. ASSUME NEW p \in Projects, Enrol(p) PROVE StoreInv'
  <2>1. StoreTypeOK' /\ RestoreReplayIsTrue'
    BY <1>3 DEF StoreInv, StoreTypeOK, RestoreReplayIsTrue, Enrol
  <2>2. UNCHANGED <<status, refundKey, pc, target, victim>>
    BY <1>3 DEF Enrol
  <2>3. Targeted' /\ Pending' /\ DemoRefund'
    BY <2>2 DEF StoreInv, Targeted, Pending, Exists, DemoRefund
  <2>4. RefundMatchesKey' /\ OriginalChargeKept'
    BY <2>2 DEF StoreInv, RefundMatchesKey, OriginalChargeKept, Refunded, Captured
  <2> QED BY <2>1, <2>3, <2>4 DEF StoreInv
<1> QED BY <1>1, <1>2, <1>3, ResetBillingStep DEF StoreEnvironment

(* The invariant is inductive. *)
LEMMA NextStoreInv == StoreInv /\ [StoreNext]_storeVars => StoreInv'
<1> SUFFICES ASSUME StoreInv, [StoreNext]_storeVars PROVE StoreInv'
  OBVIOUS
<1>1. ASSUME NEW w \in Workers, StoreProcess(w) PROVE StoreInv'
  <2>1. CASE StoreStart(w)
    BY <2>1, StartStep
  <2>2. CASE ReadCharges(w)
    BY <2>2, ReadChargesStep
  <2>3. CASE CommitRefund(w)
    BY <2>3, CommitRefundStep
  <2>4. CASE CommitRestore(w)
    BY <2>4, CommitRestoreStep
  <2>5. CASE \/ StoreCrash(w) \/ Fail(w) \/ Finish(w)
             \/ \E o \in Ops : BeginRefund(w, o)
             \/ \E p \in Projects : BeginRestore(w, p)
             \/ ReadRefundKey(w) \/ ReadRestoreKey(w)
             \/ RefundConflict(w) \/ RestoreConflict(w)
    <3>1. UNCHANGED tables
      BY <2>5
      DEF StoreCrash, Fail, Finish, BeginRefund, BeginRestore, ReadRefundKey, ReadRestoreKey,
          RefundConflict, RestoreConflict, tables
    <3> QED BY <2>5, <3>1, StoreCallStep
  <2> QED BY <1>1, <2>1, <2>2, <2>3, <2>4, <2>5 DEF StoreProcess
<1>2. CASE UNCHANGED storeVars
  <2>1. StoreTypeOK' /\ Targeted' /\ Pending'
    BY <1>2 DEF StoreInv, StoreTypeOK, Targeted, Pending, Exists, storeVars
  <2> QED BY <1>2, <2>1, TablesUnchanged DEF storeVars, tables
<1> QED BY <1>1, <1>2, StoreEnvironmentStep DEF StoreNext

-----------------------------------------------------------------------------
(* Every row, key and call of the store stays in its domain.              *)
THEOREM StoreTypes == StoreSpec => []StoreTypeOK
<1>1. StoreInv => StoreTypeOK
  BY DEF StoreInv
<1> QED BY <1>1, InitStoreInv, NextStoreInv, PTL DEF StoreSpec

(* However many processes retry it, at most one charge of a purchase is    *)
(* refunded, exactly the one its action_keys row names (refund_duplicate). *)
THEOREM RefundsMatchKeys == StoreSpec => []RefundMatchesKey
<1>1. StoreInv => RefundMatchesKey
  BY DEF StoreInv
<1> QED BY <1>1, InitStoreInv, NextStoreInv, PTL DEF StoreSpec

(* A purchase with a refunded charge keeps a captured one: refunding the   *)
(* duplicate never leaves the customer without the purchase                *)
(* (refund_duplicate, reset_demo_fixture).                                 *)
THEOREM PurchaseStaysPaid == StoreSpec => []OriginalChargeKept
<1>1. StoreInv => OriginalChargeKept
  BY DEF StoreInv
<1> QED BY <1>1, InitStoreInv, NextStoreInv, PTL DEF StoreSpec

(* What the replay of a restore answers is so: a project whose recorded    *)
(* restore succeeded is active (restore_access).                           *)
THEOREM RestoresStayTrue == StoreSpec => []RestoreReplayIsTrue
<1>1. StoreInv => RestoreReplayIsTrue
  BY DEF StoreInv
<1> QED BY <1>1, InitStoreInv, NextStoreInv, PTL DEF StoreSpec

(* A refund is undone only together with its row: the other writers of     *)
(* charges.status (a seeding process, the billing system, another refund)  *)
(* never recapture a refunded charge.                                      *)
THEOREM UndoneOnlyWithKey == StoreSpec => RefundUndoneOnlyWithKey
<1> DEFINE Undone == \A c \in Charges :
       status[c] = "refunded" /\ status'[c] # "refunded"
         => refundKey[OpOf[c]] # None /\ refundKey'[OpOf[c]] = None
<1>1. ASSUME StoreInv, [StoreNext]_storeVars PROVE Undone
  <2> SUFFICES ASSUME NEW c \in Charges, status[c] = "refunded", status'[c] # "refunded"
               PROVE refundKey[OpOf[c]] # None /\ refundKey'[OpOf[c]] = None
    OBVIOUS
  <2>1. refundKey[OpOf[c]] # None /\ refundKey[OpOf[c]].charge = c
    <3>1. OpOf[c] \in Ops /\ c \in Refunded(OpOf[c])
      BY DEF Refunded
    <3> QED BY <1>1, <3>1 DEF StoreInv, RefundMatchesKey
  <2>2. CASE ResetBilling
    <3>1. c = DemoCharge
      BY <1>1, <2>2 DEF StoreInv, StoreTypeOK, ResetBilling
    <3> QED BY <1>1, <2>1, <2>2, <3>1, DemoAssumption
        DEF StoreInv, StoreTypeOK, ResetBilling, Forget
  <2>3. ASSUME NEW w \in Workers, StoreProcess(w) PROVE FALSE
    <3>1. CASE StoreStart(w)
      BY <3>1 DEF StoreStart, SeedRow
    <3>2. CASE CommitRefund(w)
      BY <1>1, <3>2 DEF StoreInv, StoreTypeOK, CommitRefund
    <3>3. CASE CommitRestore(w)
      BY <3>3 DEF CommitRestore
    <3>4. CASE UNCHANGED tables
      BY <3>4 DEF tables
    <3> QED BY <2>3, <3>1, <3>2, <3>3, <3>4
        DEF StoreProcess, StoreCrash, Fail, Finish, BeginRefund, ReadRefundKey, ReadCharges,
            RefundConflict, BeginRestore, ReadRestoreKey, RestoreConflict
  <2>4. ASSUME NEW d \in Charges, Capture(d) PROVE FALSE
    BY <1>1, <2>4 DEF StoreInv, StoreTypeOK, Capture
  <2>5. CASE ResetAccess \/ \E p \in Projects : Enrol(p)
    BY <2>5 DEF ResetAccess, Enrol
  <2>6. CASE UNCHANGED storeVars
    BY <2>6 DEF storeVars
  <2> QED BY <1>1, <2>2, <2>3, <2>4, <2>5, <2>6 DEF StoreNext, StoreEnvironment
<1>2. StoreInit => StoreInv
  BY InitStoreInv
<1>3. StoreInv /\ [StoreNext]_storeVars => StoreInv'
  BY NextStoreInv
<1>4. StoreInv /\ [StoreNext]_storeVars => [Undone]_storeVars
  BY <1>1
<1>5. StoreSpec => [][Undone]_storeVars
  BY <1>2, <1>3, <1>4, PTL DEF StoreSpec
<1> QED BY <1>5 DEF RefundUndoneOnlyWithKey

-----------------------------------------------------------------------------
(* The ledger's variables, as ImplementsLedger reads them off the tables.  *)
booked == {c \in Charges : status[c] = "captured"}
returned == {c \in Charges : status[c] = "refunded"}
closed == {o \in Ops : refundKey[o] # None}

(* A commit settles, seeding and billing book rows, the reset resets, and  *)
(* every other step of every process is invisible to the ledger.           *)
LEMMA LedgerStep ==
  ASSUME StoreInv, [StoreNext]_storeVars
  PROVE  [Ledger!Next]_<<booked, returned, closed>>
<1> USE DEF booked, returned, closed
<1>1. ASSUME NEW w \in Workers, CommitRefund(w) PROVE Ledger!Next
  <2>0. PICK c, o : c = victim[w] /\ o = target[w]
    OBVIOUS
  <2>1. /\ o \in Ops /\ c \in Captured(o) /\ refundKey[o] = None
        /\ \E d \in Captured(o) : d # c
    BY <1>1, <2>0, CommitCaptures DEF CommitRefund, Insertable
  <2>2. /\ status' = [status EXCEPT ![c] = "refunded"]
        /\ \E r \in RefundResults : refundKey' = [refundKey EXCEPT ![o] = r]
    <3>1. [ok |-> Single(Captured(o) \ {c}), charge |-> c] \in RefundResults
      BY <2>1 DEF Single, RefundResults, Captured
    <3> QED BY <1>1, <2>0, <3>1 DEF CommitRefund
  <2>3. closed' = closed \union {o}
    BY <2>1, <2>2 DEF StoreInv, StoreTypeOK, RefundResults
  <2>4. booked' = booked \ {c} /\ returned' = returned \union {c}
    BY <2>1, <2>2 DEF StoreInv, StoreTypeOK, Captured
  <2>5. Ledger!Settle(c)
    BY <2>1, <2>3, <2>4 DEF Ledger!Settle, Captured
  <2> QED BY <2>1, <2>5 DEF Ledger!Next, Captured
<1>2. ASSUME NEW rows \in SUBSET Charges, booked' = booked \union (rows \ returned),
             returned' = returned, closed' = closed
      PROVE  Ledger!Next
  <2>1. Ledger!Book(rows)
    BY <1>2 DEF Ledger!Book
  <2> QED BY <2>1 DEF Ledger!Next
<1>3. ASSUME NEW w \in Workers, StoreStart(w) PROVE Ledger!Next
  <2>1. \A c \in Charges : status'[c] = IF c \in SeedCharges /\ status[c] = None
                                        THEN "captured" ELSE status[c]
    BY <1>3 DEF StoreStart, SeedRow
  <2>2. booked' = booked \union (SeedCharges \ returned) /\ returned' = returned
    <3>1. \A c \in Charges : status[c] \in {None, "captured", "refunded"}
      BY DEF StoreInv, StoreTypeOK
    <3>2. returned' = returned
      BY <2>1, <3>1
    <3>3. \A c \in Charges :
            c \in booked' <=> c \in booked \/ (c \in SeedCharges /\ c \notin returned)
      BY <2>1, <3>1
    <3> QED BY <3>2, <3>3
  <2> QED BY <1>2, <1>3, <2>2 DEF StoreStart
<1>4. ASSUME NEW c \in Charges, Capture(c) PROVE Ledger!Next
  <2>1. booked' = booked \union ({c} \ returned) /\ returned' = returned
    BY <1>4 DEF StoreInv, StoreTypeOK, Capture
  <2> QED BY <1>2, <1>4, <2>1 DEF Capture
<1>5. CASE ResetBilling
  <2>1. booked' = booked \union {DemoCharge} /\ returned' = returned \ {DemoCharge}
    BY <1>5, DemoAssumption DEF StoreInv, StoreTypeOK, ResetBilling
  <2>2. closed' = closed \ {DemoOp}
    BY <1>5, DemoAssumption DEF StoreInv, StoreTypeOK, ResetBilling, Forget
  <2>3. Ledger!ResetDemo
    BY <2>1, <2>2 DEF Ledger!ResetDemo
  <2> QED BY <2>3 DEF Ledger!Next
<1>6. CASE UNCHANGED <<status, refundKey>>
  BY <1>6
<1>7. ASSUME NEW w \in Workers, StoreProcess(w), ~StoreStart(w), ~CommitRefund(w)
      PROVE  UNCHANGED <<status, refundKey>>
  BY <1>7
  DEF StoreProcess, StoreCrash, Fail, Finish, BeginRefund, ReadRefundKey, ReadCharges,
      RefundConflict, BeginRestore, ReadRestoreKey, RestoreConflict, CommitRestore, tables
<1>8. CASE ResetAccess \/ (\E p \in Projects : Enrol(p)) \/ UNCHANGED storeVars
  BY <1>6, <1>8 DEF ResetAccess, Enrol, storeVars
<1> QED BY <1>1, <1>3, <1>4, <1>5, <1>6, <1>7, <1>8 DEF StoreNext, StoreEnvironment

(* The refund protocol of many processes, with its keys, transactions and  *)
(* lost acknowledgements, implements the abstract ledger that refunds a    *)
(* duplicate in one step (refund_duplicate, reset_demo_fixture).           *)
THEOREM StoreImplementsLedger == StoreSpec => ImplementsLedger
<1>1. StoreInit => Ledger!Init
  BY DEF StoreInit, Ledger!Init
<1>2. StoreInv /\ [StoreNext]_storeVars => [Ledger!Next]_<<booked, returned, closed>>
  BY LedgerStep
<1>3. StoreSpec => Ledger!Spec
  BY <1>1, <1>2, InitStoreInv, NextStoreInv, PTL
  DEF StoreSpec, Ledger!Spec, Ledger!ledger, booked, returned, closed
<1> QED BY <1>3 DEF ImplementsLedger

HIDE StoreAssumption DEF StoreAssumption, DemoAssumption

-----------------------------------------------------------------------------
(* A step of the dispatcher is a step of the store, or none.               *)
LEMMA StoreStepped == [Next]_vars => [StoreNext]_storeVars
<1> SUFFICES ASSUME [Next]_vars PROVE [StoreNext]_storeVars
  OBVIOUS
<1>1. CASE UNCHANGED storeVars
  BY <1>1 DEF storeVars
<1>2. CASE Environment
  BY <1>2 DEF Environment, StoreEnvironment, StoreNext
<1>3. ASSUME NEW w \in Workers, Process(w), ~UNCHANGED storeVars
      PROVE  [StoreNext]_storeVars
  <2>1. StoreProcess(w)
    <3>1. CASE Start(w) \/ Crash(w)
      BY <3>1 DEF Start, Crash, StoreProcess
    <3>2. CASE HandleMutation(w)
      BY <3>2 DEF HandleMutation, StoreProcess
    <3>3. CASE StoreStep(w)
      BY <3>3 DEF StoreStep, StoreProcess
    <3>4. CASE StoreReturns(w)
      BY <3>4 DEF StoreReturns, StoreProcess
    <3> QED BY <1>3, <3>1, <3>2, <3>3, <3>4
        DEF Process, ToolCall, Check, HandleRead, CreateCase, RouteRead, RouteWrite, RecordRead,
            RecordWrite, Raise, Done
  <2> QED BY <2>1 DEF StoreNext
<1> QED BY <1>1, <1>2, <1>3 DEF Next, vars

-----------------------------------------------------------------------------
(* Types of the dispatcher's own variables: TypeOK without the store's.    *)
Types ==
  /\ cases \in [Cases -> CaseRows \union {None}]
  /\ phase \in [Workers -> {"idle", "check", "handle", "store", "route", "record",
                            "recording", "answered"}]
  /\ call \in [Workers -> ToolCalls \union {NoCall}]
  /\ row \in [Workers -> CaseRows \union {None}]
  /\ outcome \in [Workers -> Events \union {None}]
  /\ answer \in [Workers -> {"none", "result", "rejected", "error"}]
  /\ calls \in 0 .. MaxCalls
  /\ raced \subseteq Cases
  /\ owners \in [Cases -> SUBSET Specialists]
  /\ mutated \in [Workers -> BOOLEAN]

(* What a worker holds at each point of its call. *)
Control(w) ==
  /\ phase[w] # "idle" => call[w] \in ToolCalls
  /\ phase[w] \in {"record", "recording"} =>
       call[w].case \in Cases /\ outcome[w] \in Events /\ outcome[w].action = call[w].tool
  /\ phase[w] \in {"route", "recording"} =>
       call[w].case \in Cases /\ row[w] \in CaseRows /\ cases[call[w].case] \in CaseRows
  /\ phase[w] = "route" => call[w].to \in Specialists /\ call[w].fact \in Facts \union {None}
  /\ phase[w] \notin {"record", "recording", "answered"} => outcome[w] = None
  /\ phase[w] # "answered" => answer[w] = "none"

LEMMA InitTypes == Init => Types /\ \A w \in Workers : Control(w)
BY DispatcherAssumption DEF Init, Types, Control, DispatcherAssumption

(* The three writes of the cases table. *)
LEMMA RouteWritten ==
  ASSUME Types, NEW w \in Workers, Control(w), RouteWrite(w)
  PROVE  LET k == call[w].case
         IN  /\ cases' \in [Cases -> CaseRows \union {None}]
             /\ \A j \in Cases \ {k} : cases'[j] = cases[j]
             /\ cases'[k] \in CaseRows /\ cases'[k].specialist = call[w].to
             /\ cases'[k].facts = Carried(row[w].facts, call[w].fact)
             /\ cases'[k].evidence = cases[k].evidence
<1> DEFINE k == call[w].case
           F == Carried(row[w].facts, call[w].fact)
<1>1. /\ k \in Cases /\ row[w] \in CaseRows /\ cases[k] \in CaseRows /\ call[w].to \in Specialists
      /\ call[w].fact \in Facts \union {None}
  BY DEF RouteWrite, Control
<1>2. F \in SUBSET Facts
  BY <1>1 DEF Carried, CaseRows
<1>3. cases' = [cases EXCEPT ![k].specialist = call[w].to, ![k].facts = F]
  BY DEF RouteWrite
<1> HIDE DEF F
<1>4. /\ cases'[k] = [[cases[k] EXCEPT !.specialist = call[w].to] EXCEPT !.facts = F]
      /\ \A j \in Cases \ {k} : cases'[j] = cases[j]
      /\ DOMAIN cases' = Cases
  BY <1>1, <1>3 DEF Types
<1>5. /\ cases'[k] \in CaseRows /\ cases'[k].specialist = call[w].to /\ cases'[k].facts = F
      /\ cases'[k].evidence = cases[k].evidence
  <2>1. PICK x \in CaseRows, s \in Specialists : x = cases[k] /\ s = call[w].to
    BY <1>1
  <2>2. cases'[k] = [[x EXCEPT !.specialist = s] EXCEPT !.facts = F]
    BY <1>4, <2>1
  <2> QED BY <1>2, <2>1, <2>2 DEF CaseRows
<1>6. cases' \in [Cases -> CaseRows \union {None}]
  <2>1. cases' = [j \in Cases |-> cases'[j]]
    BY <1>3 DEF Types
  <2>2. \A j \in Cases : cases'[j] \in CaseRows \union {None}
    BY <1>4, <1>5 DEF Types
  <2> QED BY <2>1, <2>2
<1> QED BY <1>4, <1>5, <1>6 DEF F

LEMMA RecordWritten ==
  ASSUME Types, NEW w \in Workers, Control(w), RecordWrite(w)
  PROVE  LET k == call[w].case
         IN  /\ cases' \in [Cases -> CaseRows \union {None}]
             /\ \A j \in Cases \ {k} : cases'[j] = cases[j]
             /\ cases'[k] \in CaseRows /\ cases'[k].specialist = cases[k].specialist
             /\ cases'[k].facts = cases[k].facts
             /\ cases'[k].evidence = row[w].evidence \union {outcome[w]}
<1> DEFINE k == call[w].case
           E == Logged(row[w].evidence, outcome[w])
           D == Completed(row[w].completed, outcome[w])
<1>1. /\ k \in Cases /\ row[w] \in CaseRows /\ cases[k] \in CaseRows /\ outcome[w] \in Events
  BY DEF RecordWrite, Control
<1>2. E \in SUBSET Events /\ D \in SUBSET Tools
  BY <1>1 DEF Logged, Completed, CaseRows, Events
<1>3. cases' = [cases EXCEPT ![k].evidence = E, ![k].completed = D]
  BY DEF RecordWrite
<1>0. E = row[w].evidence \union {outcome[w]}
  BY DEF Logged
<1> HIDE DEF E, D
<1>4. /\ cases'[k] = [[cases[k] EXCEPT !.evidence = E] EXCEPT !.completed = D]
      /\ \A j \in Cases \ {k} : cases'[j] = cases[j]
      /\ DOMAIN cases' = Cases
  BY <1>1, <1>3 DEF Types
<1>5. /\ cases'[k] \in CaseRows /\ cases'[k].specialist = cases[k].specialist
      /\ cases'[k].facts = cases[k].facts /\ cases'[k].evidence = E
  <2>1. PICK x \in CaseRows : x = cases[k]
    BY <1>1
  <2>2. cases'[k] = [[x EXCEPT !.evidence = E] EXCEPT !.completed = D]
    BY <1>4, <2>1
  <2> QED BY <1>2, <2>1, <2>2 DEF CaseRows
<1>6. cases' \in [Cases -> CaseRows \union {None}]
  <2>1. cases' = [j \in Cases |-> cases'[j]]
    BY <1>3 DEF Types
  <2>2. \A j \in Cases : cases'[j] \in CaseRows \union {None}
    BY <1>4, <1>5 DEF Types
  <2> QED BY <2>1, <2>2
<1> QED BY <1>0, <1>4, <1>5, <1>6

LEMMA CreatedRow ==
  ASSUME Types, NEW w \in Workers, CreateCase(w)
  PROVE  \E k \in Cases :
           /\ cases[k] = None /\ \A v \in Workers : call[v].case # k
           /\ cases' \in [Cases -> CaseRows \union {None}]
           /\ \A j \in Cases \ {k} : cases'[j] = cases[j]
           /\ cases'[k] \in CaseRows /\ cases'[k].evidence = {}
           /\ cases'[k].specialist = "front_desk"
           /\ owners' = [owners EXCEPT ![k] = {"front_desk"}]
<1>1. PICK k \in Cases, customer \in Customers \union {None}, issue \in Facts :
        /\ cases[k] = None /\ \A v \in Workers : call[v].case # k
        /\ cases' = [cases EXCEPT ![k] = [customer |-> customer, specialist |-> "front_desk",
                      facts |-> {issue}, evidence |-> {}, completed |-> {}]]
        /\ owners' = [owners EXCEPT ![k] = {"front_desk"}]
  BY DEF CreateCase
<1>2. PICK new \in CaseRows : /\ cases' = [cases EXCEPT ![k] = new]
                              /\ new.evidence = {} /\ new.specialist = "front_desk"
  <2>1. [customer |-> customer, specialist |-> "front_desk", facts |-> {issue},
         evidence |-> {}, completed |-> {}] \in CaseRows
    BY DEF CaseRows, Specialists
  <2> QED BY <1>1, <2>1
<1>3. /\ cases' \in [Cases -> CaseRows \union {None}] /\ cases'[k] = new
      /\ \A j \in Cases \ {k} : cases'[j] = cases[j]
  BY <1>2 DEF Types
<1> QED BY <1>1, <1>2, <1>3

Ready == Types /\ \A w \in Workers : Control(w)

(* A row is written over, never deleted. *)
LEMMA CasesStay ==
  ASSUME Ready, [Next]_vars
  PROVE  /\ cases' \in [Cases -> CaseRows \union {None}]
         /\ \A k \in Cases : cases[k] \in CaseRows => cases'[k] \in CaseRows
<1>1. CASE UNCHANGED cases
  BY <1>1 DEF Ready, Types
<1>2. ASSUME NEW w \in Workers, RouteWrite(w) \/ RecordWrite(w) \/ CreateCase(w)
      PROVE  /\ cases' \in [Cases -> CaseRows \union {None}]
             /\ \A k \in Cases : cases[k] \in CaseRows => cases'[k] \in CaseRows
  <2>0. Types /\ Control(w)
    BY DEF Ready
  <2>1. CASE RouteWrite(w)
    BY <2>0, <2>1, RouteWritten
  <2>2. CASE RecordWrite(w)
    BY <2>0, <2>2, RecordWritten
  <2>3. CASE CreateCase(w)
    BY <2>0, <2>3, CreatedRow
  <2> QED BY <1>2, <2>1, <2>2, <2>3
<1> QED BY <1>1, <1>2
    DEF Next, Process, Environment, Start, Crash, ToolCall, Check, HandleRead, HandleMutation,
        StoreStep, StoreReturns, RouteRead, RecordRead, Raise, Done, vars

(* What belongs to a worker is changed by its own steps only. *)
Same(v) ==
  /\ phase'[v] = phase[v] /\ call'[v] = call[v] /\ row'[v] = row[v]
  /\ outcome'[v] = outcome[v] /\ answer'[v] = answer[v]

LEMMA OthersSame ==
  ASSUME Types, NEW w \in Workers, Process(w), NEW v \in Workers \ {w}
  PROVE  Same(v)
<1> USE DEF Types, Same, Goto, Answer, callVars
<1>1. CASE Start(w) \/ Crash(w) \/ Check(w) \/ Raise(w) \/ Done(w)
  BY <1>1 DEF Start, Crash, Check, Raise, Done
<1>2. CASE \E c \in ToolCalls : ToolCall(w, c)
  BY <1>2 DEF ToolCall
<1>3. CASE HandleRead(w) \/ HandleMutation(w) \/ StoreStep(w) \/ StoreReturns(w)
  BY <1>3 DEF HandleRead, HandleMutation, StoreStep, StoreReturns, Proceed
<1>4. CASE CreateCase(w) \/ RouteRead(w) \/ RouteWrite(w) \/ RecordRead(w) \/ RecordWrite(w)
  BY <1>4 DEF CreateCase, RouteRead, RouteWrite, RecordRead, RecordWrite, Acknowledge
<1> QED BY <1>1, <1>2, <1>3, <1>4 DEF Process

LEMMA OthersControl ==
  ASSUME Ready, NEW v \in Workers, Same(v), [Next]_vars
  PROVE  Control(v)'
<1>1. Control(v)
  BY DEF Ready
<1>2. \A k \in Cases : cases[k] \in CaseRows => cases'[k] \in CaseRows
  BY CasesStay
<1> QED BY <1>1, <1>2 DEF Same, Control

Answers == {"none", "result", "rejected", "error"}
(* What a step of a worker changes for it alone keeps its type. *)
Kept(w) ==
  /\ phase' \in [Workers -> {"idle", "check", "handle", "store", "route", "record",
                             "recording", "answered"}]
  /\ row' \in [Workers -> CaseRows \union {None}]
  /\ outcome' \in [Workers -> Events \union {None}]
  /\ answer' \in [Workers -> Answers]
  /\ Control(w)'

LEMMA Answered ==
  ASSUME Ready, [Next]_vars, NEW w \in Workers, NEW a \in Answers, Answer(w, a),
         phase[w] # "idle", UNCHANGED <<call, outcome>>
  PROVE  Kept(w)
<1>1. call[w] \in ToolCalls
  BY DEF Ready, Control
<1>2. phase'[w] = "answered"
  BY DEF Answer, Goto, Ready, Types
<1>3. Control(w)'
  BY <1>1, <1>2 DEF Control
<1> QED BY <1>3 DEF Kept, Answer, Goto, Ready, Types, Answers

LEMMA Proceeded ==
  ASSUME Ready, [Next]_vars, NEW w \in Workers, NEW e \in Events, e.action = call[w].tool,
         Proceed(w, e), phase[w] \in {"handle", "store"}, UNCHANGED call
  PROVE  Kept(w)
<1>1. /\ call[w] \in ToolCalls /\ answer[w] = "none"
      /\ outcome' = [outcome EXCEPT ![w] = e] /\ outcome'[w] = e
  BY DEF Ready, Types, Control, Proceed
<1>2. CASE call[w].case = None \/ call[w].tool = "get_case"
  <2>1. Answer(w, "result") /\ phase'[w] = "answered"
    BY <1>2 DEF Proceed, Answer, Goto, Ready, Types
  <2>2. Control(w)'
    BY <1>1, <2>1 DEF Control
  <2> QED BY <1>1, <2>1, <2>2 DEF Kept, Answer, Goto, Ready, Types, Answers
<1>3. CASE ~(call[w].case = None \/ call[w].tool = "get_case")
  <2>1. /\ phase' = [phase EXCEPT ![w] = "record"] /\ UNCHANGED <<row, answer>>
        /\ phase'[w] = "record"
    BY <1>3 DEF Proceed, Goto, Ready, Types
  <2>2. call[w].case \in Cases
    BY <1>1, <1>3 DEF ToolCalls
  <2>3. Control(w)'
    BY <1>1, <2>1, <2>2 DEF Control
  <2> QED BY <1>1, <2>1, <2>3 DEF Kept, Ready, Types, Answers
<1> QED BY <1>2, <1>3

LEMMA OwnKept ==
  ASSUME Ready, StoreTypeOK, NEW w \in Workers, Process(w)
  PROVE  Kept(w)
<1>0. [Next]_vars /\ Control(w) /\ (phase[w] # "idle" => call[w] \in ToolCalls)
  BY DEF Next, Ready, Control
<1>1. CASE Start(w) \/ HandleMutation(w) \/ StoreStep(w)
  BY <1>0, <1>1
  DEF Start, HandleMutation, StoreStep, callVars, Goto, Kept, Ready, Types, Control, Answers
<1>2. CASE Crash(w)
  BY <1>2 DEF Crash, Goto, Kept, Ready, Types, Control, Answers
<1>3. CASE Done(w)
  BY <1>0, <1>3 DEF Done, Goto, Kept, Ready, Types, Control, Answers
<1>4. ASSUME NEW c \in ToolCalls, ToolCall(w, c) PROVE Kept(w)
  <2>1. PICK p \in {"check", "handle"} : Goto(w, p)
    BY <1>4 DEF ToolCall
  <2>2. phase'[w] = p /\ call'[w] = c /\ UNCHANGED <<row, outcome, answer>> /\ phase[w] = "idle"
    BY <1>4, <2>1 DEF ToolCall, Goto, Ready, Types
  <2>3. Control(w)'
    BY <1>0, <2>2 DEF Control
  <2> QED BY <2>1, <2>2, <2>3 DEF Goto, Kept, Ready, Types, Answers
<1>5. CASE Check(w)
  <2>1. CASE Answer(w, "rejected")
    BY <1>0, <1>5, <2>1, Answered DEF Check, Answers
  <2>2. CASE ~Answer(w, "rejected")
    <3>1. Goto(w, "handle") /\ UNCHANGED <<row, answer, call, outcome>>
      BY <1>5, <2>2 DEF Check
    <3>2. phase'[w] = "handle" /\ phase[w] = "check"
      BY <1>5, <3>1 DEF Check, Goto, Ready, Types
    <3>3. Control(w)'
      BY <1>0, <3>1, <3>2 DEF Control
    <3> QED BY <3>1, <3>3 DEF Goto, Kept, Ready, Types, Answers
  <2> QED BY <2>1, <2>2
<1>6. CASE Raise(w)
  BY <1>0, <1>6, Answered DEF Raise, Answers
<1>7. CASE HandleRead(w)
  <2>1. PICK ok \in BOOLEAN : Proceed(w, [action |-> call[w].tool, replay |-> FALSE, ok |-> ok])
    BY <1>7 DEF HandleRead
  <2>2. [action |-> call[w].tool, replay |-> FALSE, ok |-> ok] \in Events
    <3>1. call[w].tool \in Tools
      BY <1>7 DEF HandleRead, Reads, Tools, Guarded
    <3> QED BY <3>1 DEF Events
  <2> QED BY <1>0, <1>7, <2>1, <2>2, Proceeded DEF HandleRead
<1>8. CASE StoreReturns(w)
  <2>1. CASE Answer(w, "error") /\ UNCHANGED outcome
    BY <1>0, <1>8, <2>1, Answered DEF StoreReturns, Answers
  <2>2. CASE ~(Answer(w, "error") /\ UNCHANGED outcome)
    <3>1. reply[w].ok \in BOOLEAN
      BY DEF StoreTypeOK, Replies
    <3>2. call[w].tool \in Tools
      BY <1>0, <1>8 DEF StoreReturns, ToolCalls, Tools
    <3>3. PICK e \in Events : e.action = call[w].tool /\ Proceed(w, e)
      <4>1. Proceed(w, [action |-> call[w].tool, replay |-> reply[w].kind = "replay",
                        ok |-> reply[w].ok])
        BY <1>8, <2>2 DEF StoreReturns
      <4>2. (reply[w].kind = "replay") \in BOOLEAN
        OBVIOUS
      <4>3. [action |-> call[w].tool, replay |-> reply[w].kind = "replay", ok |-> reply[w].ok]
              \in Events
        BY <3>1, <3>2, <4>2 DEF Events
      <4> QED BY <4>1, <4>3
    <3> QED BY <1>0, <1>8, <3>3, Proceeded DEF StoreReturns
  <2> QED BY <2>1, <2>2
<1>9. CASE CreateCase(w)
  BY <1>0, <1>9, Answered DEF CreateCase, Acknowledge, Answers
<1>10. CASE RouteRead(w)
  <2>1. CASE Answer(w, "result")
    BY <1>0, <1>10, <2>1, Answered DEF RouteRead, Answers
  <2>2. CASE ~Answer(w, "result")
    <3>1. /\ row' = [row EXCEPT ![w] = cases[call[w].case]] /\ cases[call[w].case] # None
          /\ phase' = [phase EXCEPT ![w] = "route"] /\ UNCHANGED <<answer, call, outcome, cases>>
          /\ phase[w] = "handle"
      BY <1>10, <2>2 DEF RouteRead, Goto
    <3>2. /\ call[w].case \in Cases /\ call[w].to \in Specialists
          /\ call[w].fact \in Facts \union {None}
      BY <1>0, <1>10 DEF RouteRead, ToolCalls
    <3>3. cases[call[w].case] \in CaseRows
      BY <3>1, <3>2 DEF Ready, Types
    <3>4. phase'[w] = "route" /\ row'[w] = cases[call[w].case]
      BY <3>1 DEF Ready, Types
    <3>5. Control(w)'
      BY <1>0, <3>1, <3>2, <3>3, <3>4 DEF Control
    <3> QED BY <3>1, <3>3, <3>5 DEF Kept, Ready, Types, Answers
  <2> QED BY <2>1, <2>2
<1>11. CASE RecordRead(w)
  <2>1. CASE Answer(w, "result")
    BY <1>0, <1>11, <2>1, Answered DEF RecordRead, Answers
  <2>2. CASE ~Answer(w, "result")
    <3>1. /\ row' = [row EXCEPT ![w] = cases[call[w].case]] /\ cases[call[w].case] # None
          /\ phase' = [phase EXCEPT ![w] = "recording"] /\ UNCHANGED <<answer, call, outcome, cases>>
          /\ phase[w] = "record"
      BY <1>11, <2>2 DEF RecordRead, Goto
    <3>2. call[w].case \in Cases
      BY <1>0, <3>1 DEF Control
    <3>3. cases[call[w].case] \in CaseRows
      BY <3>1, <3>2 DEF Ready, Types
    <3>4. phase'[w] = "recording" /\ row'[w] = cases[call[w].case]
      BY <3>1 DEF Ready, Types
    <3>5. Control(w)'
      BY <1>0, <3>1, <3>2, <3>3, <3>4 DEF Control
    <3> QED BY <3>1, <3>3, <3>5 DEF Kept, Ready, Types, Answers
  <2> QED BY <2>1, <2>2
<1>12. CASE RouteWrite(w) \/ RecordWrite(w)
  BY <1>0, <1>12, Answered DEF RouteWrite, RecordWrite, Acknowledge, Answers
<1> QED BY <1>1, <1>2, <1>3, <1>4, <1>5, <1>6, <1>7, <1>8, <1>9, <1>10, <1>11, <1>12 DEF Process

Counted ==
  /\ call' \in [Workers -> ToolCalls \union {NoCall}]
  /\ calls' \in 0 .. MaxCalls /\ raced' \subseteq Cases
  /\ owners' \in [Cases -> SUBSET Specialists] /\ mutated' \in [Workers -> BOOLEAN]

LEMMA HistoryKept ==
  ASSUME Ready, NEW w \in Workers, Process(w)
  PROVE  Counted
<1> USE DEF Ready, Types, Counted
<1>1. CASE Start(w) \/ Crash(w) \/ Done(w) \/ Check(w) \/ Raise(w) \/ HandleRead(w)
           \/ HandleMutation(w) \/ StoreReturns(w) \/ RouteRead(w) \/ RecordRead(w)
  BY <1>1
  DEF Start, Crash, Done, Check, Raise, HandleRead, HandleMutation, StoreReturns, RouteRead,
      RecordRead, callVars, history
<1>2. ASSUME NEW c \in ToolCalls, ToolCall(w, c) PROVE Counted
  <2>1. calls' \in 0 .. MaxCalls
    BY <1>2, DispatcherAssumption DEF ToolCall, DispatcherAssumption
  <2> QED BY <1>2, <2>1 DEF ToolCall, history
<1>3. CASE StoreStep(w)
  <2>1. (status' # status \/ member' # member) \in BOOLEAN
    OBVIOUS
  <2> QED BY <1>3, <2>1 DEF StoreStep, callVars
<1>4. CASE CreateCase(w)
  <2>1. PICK k \in Cases : owners' = [owners EXCEPT ![k] = {"front_desk"}]
    BY <1>4 DEF CreateCase
  <2> QED BY <1>4, <2>1 DEF CreateCase, Specialists
<1>5. CASE RouteWrite(w)
  <2>1. call[w].case \in Cases /\ call[w].to \in Specialists
    BY <1>5 DEF RouteWrite, Control
  <2>2. raced' \subseteq Cases
    BY <1>5, <2>1 DEF RouteWrite, Overtaken
  <2>3. owners' \in [Cases -> SUBSET Specialists]
    BY <1>5, <2>1 DEF RouteWrite
  <2> QED BY <1>5, <2>2, <2>3 DEF RouteWrite
<1>6. CASE RecordWrite(w)
  <2>1. raced' \subseteq Cases
    BY <1>6 DEF RecordWrite, Overtaken, Control
  <2> QED BY <1>6, <2>1 DEF RecordWrite
<1> QED BY <1>1, <1>2, <1>3, <1>4, <1>5, <1>6 DEF Process

LEMMA StepReady == Ready /\ StoreTypeOK /\ [Next]_vars => Ready'
<1> SUFFICES ASSUME Ready, StoreTypeOK, [Next]_vars PROVE Ready'
  OBVIOUS
<1>1. CASE UNCHANGED <<cases, callVars, history>>
  BY <1>1 DEF Ready, Types, Control, callVars, history
<1>2. ASSUME NEW w \in Workers, Process(w) PROVE Ready'
  <2>1. Types'
    BY <1>2, CasesStay, OwnKept, HistoryKept DEF Kept, Counted, Types, Answers
  <2>2. ASSUME NEW v \in Workers PROVE Control(v)'
    BY <1>2, OwnKept, OthersSame, OthersControl DEF Ready, Kept
  <2> QED BY <2>1, <2>2 DEF Ready
<1> QED BY <1>1, <1>2 DEF Next, Environment, vars

-----------------------------------------------------------------------------
(* Evidence and the specialists of a case. *)

OwnedBy(k, tool) == \E s \in owners[k] : tool \in Allowed(s)
OwnedEvidence(k, evidence) == \A e \in evidence : e.action \in Guarded => OwnedBy(k, e.action)

(* The specialist of a case has owned it, and so has one for every piece   *)
(* of evidence; *)
OwnedCase(k) ==
  cases[k] # None => cases[k].specialist \in owners[k] /\ OwnedEvidence(k, cases[k].evidence)
(* and for every call that got past the check, and what it will write.     *)
OwnedCall(w) ==
  /\ phase[w] \in {"handle", "store", "record", "recording"} /\ call[w].tool \in Guarded =>
       call[w].case \in Cases /\ OwnedBy(call[w].case, call[w].tool)
  /\ phase[w] \in {"route", "recording"} => OwnedEvidence(call[w].case, row[w].evidence)
Owned == (\A k \in Cases : OwnedCase(k)) /\ \A w \in Workers : OwnedCall(w)

LEMMA InitOwned == Init => Owned
BY DEF Init, Owned, OwnedCase, OwnedCall

(* Owners of a case are forgotten only when nothing names it. *)
LEMMA OwnersStay ==
  ASSUME Ready, [Next]_vars, NEW k \in Cases
  PROVE  \/ owners[k] \subseteq owners'[k]
         \/ cases[k] = None /\ \A v \in Workers : call[v].case # k
<1>1. CASE UNCHANGED owners
  BY <1>1
<1>2. ASSUME NEW w \in Workers, CreateCase(w)
      PROVE  owners[k] \subseteq owners'[k] \/ (cases[k] = None /\ \A v \in Workers : call[v].case # k)
  BY <1>2, CreatedRow DEF Ready, Types
<1>3. ASSUME NEW w \in Workers, RouteWrite(w) PROVE owners[k] \subseteq owners'[k]
  BY <1>3 DEF RouteWrite, Ready, Types
<1> QED BY <1>1, <1>2, <1>3
    DEF Next, Process, Environment, Start, Crash, ToolCall, Check, HandleRead, HandleMutation,
        StoreStep, StoreReturns, RouteRead, RecordRead, RecordWrite, Raise, Done, vars, history

LEMMA OwnedCallKept ==
  ASSUME Ready, [Next]_vars, NEW v \in Workers, OwnedCall(v), Same(v)
  PROVE  OwnedCall(v)'
<1>1. CASE phase[v] \in {"handle", "store", "record", "recording"} /\ call[v].tool \in Guarded
  <2>1. call[v].case \in Cases /\ OwnedBy(call[v].case, call[v].tool)
    BY <1>1 DEF OwnedCall
  <2>2. owners[call[v].case] \subseteq owners'[call[v].case]
    BY <2>1, OwnersStay
  <2> QED BY <2>1, <2>2 DEF OwnedCall, OwnedBy, OwnedEvidence, Same
<1>2. CASE phase[v] \in {"route", "recording"}
  <2>1. call[v].case \in Cases
    BY <1>2 DEF Ready, Control
  <2>2. owners[call[v].case] \subseteq owners'[call[v].case]
    BY <2>1, OwnersStay
  <2> QED BY <2>1, <2>2 DEF OwnedCall, OwnedBy, OwnedEvidence, Same
<1> QED BY <1>1, <1>2 DEF OwnedCall, Same

LEMMA OwnCallOwned ==
  ASSUME Ready, Owned, NEW w \in Workers, Process(w)
  PROVE  OwnedCall(w)'
<1> USE DEF Ready, Types
<1>0. OwnedCall(w) /\ Control(w)
  BY DEF Owned
<1>1. CASE phase'[w] \in {"idle", "check", "answered"}
  BY <1>1 DEF OwnedCall
<1>2. CASE Start(w) \/ HandleMutation(w) \/ StoreStep(w)
  <2>1. UNCHANGED <<call, row, owners>>
    BY <1>2 DEF Start, HandleMutation, StoreStep, callVars, history
  <2>2. phase'[w] = phase[w] \/ (phase'[w] = "store" /\ phase[w] = "handle")
    BY <1>2 DEF Start, HandleMutation, StoreStep, callVars, Goto
  <2> QED BY <1>0, <2>1, <2>2 DEF OwnedCall, OwnedBy, OwnedEvidence
<1>3. CASE HandleRead(w) \/ StoreReturns(w)
  <2>1. UNCHANGED <<call, owners>> /\ phase[w] \in {"handle", "store"}
    BY <1>3 DEF HandleRead, StoreReturns, history
  <2>2. phase'[w] \in {"answered", "record"}
    BY <1>3 DEF HandleRead, StoreReturns, Proceed, Answer, Goto
  <2> QED BY <1>0, <2>1, <2>2 DEF OwnedCall, OwnedBy, OwnedEvidence
<1>4. ASSUME NEW c \in ToolCalls, ToolCall(w, c) PROVE OwnedCall(w)'
  <2>1. phase'[w] = (IF c.tool \in Guarded THEN "check" ELSE "handle") /\ call'[w] = c
    BY <1>4 DEF ToolCall, Goto
  <2> QED BY <2>1 DEF OwnedCall
<1>5. CASE Check(w)
  <2>1. CASE phase'[w] = "handle"
    <3>1. MayRun(call[w].case, call[w].tool)
      BY <1>5, <2>1 DEF Check, Answer, Goto
    <3>2. call[w].case \in Cases /\ cases[call[w].case] # None
      <4>1. call[w] \in ToolCalls
        BY <1>0, <1>5 DEF Control, Check
      <4> QED BY <3>1, <4>1 DEF MayRun, Owner, ToolCalls
    <3>3. call[w].tool \in Allowed(cases[call[w].case].specialist)
      BY <3>1, <3>2 DEF MayRun, Owner
    <3>4. OwnedBy(call[w].case, call[w].tool)
      BY <3>2, <3>3 DEF Owned, OwnedCase, OwnedBy
    <3>5. UNCHANGED <<call, owners>>
      BY <1>5 DEF Check, history
    <3> QED BY <2>1, <3>2, <3>4, <3>5 DEF OwnedCall, OwnedBy
  <2>2. phase'[w] \in {"handle", "answered"}
    BY <1>5 DEF Check, Answer, Goto
  <2> QED BY <1>1, <2>1, <2>2
<1>6. CASE RouteRead(w)
  <2>1. CASE phase'[w] = "route"
    <3>1. /\ row'[w] = cases[call[w].case] /\ cases[call[w].case] # None
          /\ UNCHANGED <<call, owners>>
      BY <1>6, <2>1 DEF RouteRead, Answer, Goto, history
    <3>2. call[w].case \in Cases
      BY <1>0, <1>6 DEF RouteRead, Control, ToolCalls
    <3>3. OwnedEvidence(call[w].case, cases[call[w].case].evidence)
      BY <3>1, <3>2 DEF Owned, OwnedCase
    <3> QED BY <2>1, <3>1, <3>3 DEF OwnedCall, OwnedEvidence, OwnedBy
  <2>2. phase'[w] \in {"route", "answered"}
    BY <1>6 DEF RouteRead, Answer, Goto
  <2> QED BY <1>1, <2>1, <2>2
<1>7. CASE RecordRead(w)
  <2>1. CASE phase'[w] = "recording"
    <3>1. /\ row'[w] = cases[call[w].case] /\ cases[call[w].case] # None
          /\ UNCHANGED <<call, owners>> /\ phase[w] = "record"
      BY <1>7, <2>1 DEF RecordRead, Answer, Goto, history
    <3>2. call[w].case \in Cases
      BY <1>0, <3>1 DEF Control
    <3>3. OwnedEvidence(call[w].case, cases[call[w].case].evidence)
      BY <3>1, <3>2 DEF Owned, OwnedCase
    <3> QED BY <1>0, <2>1, <3>1, <3>3 DEF OwnedCall, OwnedEvidence, OwnedBy
  <2>2. phase'[w] \in {"recording", "answered"}
    BY <1>7 DEF RecordRead, Answer, Goto
  <2> QED BY <1>1, <2>1, <2>2
<1>8. CASE Crash(w) \/ Done(w) \/ Raise(w) \/ CreateCase(w) \/ RouteWrite(w) \/ RecordWrite(w)
  <2>1. phase'[w] \in {"idle", "answered"}
    BY <1>8 DEF Crash, Done, Raise, CreateCase, RouteWrite, RecordWrite, Acknowledge, Answer, Goto
  <2> QED BY <1>1, <2>1
<1> QED BY <1>2, <1>3, <1>4, <1>5, <1>6, <1>7, <1>8 DEF Process

LEMMA CasesOwned ==
  ASSUME Ready, Owned, [Next]_vars, NEW k \in Cases
  PROVE  OwnedCase(k)'
<1>0. OwnedCase(k)
  BY DEF Owned
<1>1. CASE UNCHANGED <<cases, owners>>
  BY <1>0, <1>1 DEF OwnedCase, OwnedEvidence, OwnedBy
<1>2. ASSUME NEW w \in Workers, CreateCase(w) PROVE OwnedCase(k)'
  <2>1. PICK new \in Cases :
           /\ \A j \in Cases \ {new} : cases'[j] = cases[j]
           /\ cases'[new].evidence = {} /\ cases'[new].specialist = "front_desk"
           /\ owners' = [owners EXCEPT ![new] = {"front_desk"}]
    BY <1>2, CreatedRow DEF Ready
  <2>2. CASE k = new
    BY <2>1, <2>2 DEF OwnedCase, OwnedEvidence, Ready, Types
  <2>3. CASE k # new
    BY <1>0, <2>1, <2>3 DEF OwnedCase, OwnedEvidence, OwnedBy, Ready, Types
  <2> QED BY <2>2, <2>3
<1>3. ASSUME NEW w \in Workers, RouteWrite(w) PROVE OwnedCase(k)'
  <2>1. PICK n \in Cases : n = call[w].case /\ cases[n] \in CaseRows
    BY <1>3 DEF RouteWrite, Ready, Control
  <2>2. /\ \A j \in Cases \ {n} : cases'[j] = cases[j]
        /\ cases'[n].specialist = call[w].to /\ cases'[n].evidence = cases[n].evidence
    BY <1>3, <2>1, RouteWritten DEF Ready
  <2>3. owners' = [owners EXCEPT ![n] = @ \union {call[w].to}]
    BY <1>3, <2>1 DEF RouteWrite
  <2>4. CASE k = n
    <3>1. OwnedEvidence(n, cases[n].evidence)
      BY <1>0, <2>1, <2>4, RowAssumption DEF OwnedCase, RowAssumption
    <3>2. owners'[n] = owners[n] \union {call[w].to}
      BY <2>1, <2>3 DEF Ready, Types
    <3> QED BY <2>2, <2>4, <3>1, <3>2 DEF OwnedCase, OwnedEvidence, OwnedBy
  <2>5. CASE k # n
    BY <1>0, <2>2, <2>3, <2>5 DEF OwnedCase, OwnedEvidence, OwnedBy, Ready, Types
  <2> QED BY <2>4, <2>5
<1>4. ASSUME NEW w \in Workers, RecordWrite(w) PROVE OwnedCase(k)'
  <2>1. PICK n \in Cases : n = call[w].case /\ cases[n] \in CaseRows
    BY <1>4 DEF RecordWrite, Ready, Control
  <2>2. /\ \A j \in Cases \ {n} : cases'[j] = cases[j]
        /\ cases'[n].specialist = cases[n].specialist
        /\ cases'[n].evidence = row[w].evidence \union {outcome[w]}
    BY <1>4, <2>1, RecordWritten DEF Ready
  <2>3. owners' = owners
    BY <1>4 DEF RecordWrite
  <2>4. CASE k = n
    <3>1. cases[n].specialist \in owners[n]
      BY <1>0, <2>1, <2>4, RowAssumption DEF OwnedCase, RowAssumption
    <3>2. OwnedEvidence(n, row[w].evidence)
      BY <1>4, <2>1 DEF RecordWrite, Owned, OwnedCall
    <3>3. outcome[w].action \in Guarded => OwnedBy(n, outcome[w].action)
      BY <1>4, <2>1 DEF RecordWrite, Owned, OwnedCall, Ready, Control
    <3> QED BY <2>2, <2>3, <2>4, <3>1, <3>2, <3>3 DEF OwnedCase, OwnedEvidence, OwnedBy
  <2>5. CASE k # n
    BY <1>0, <2>2, <2>3, <2>5 DEF OwnedCase, OwnedEvidence, OwnedBy
  <2> QED BY <2>4, <2>5
<1> QED BY <1>1, <1>2, <1>3, <1>4
    DEF Next, Process, Environment, Start, Crash, ToolCall, Check, HandleRead, HandleMutation,
        StoreStep, StoreReturns, RouteRead, RecordRead, Raise, Done, vars, history

LEMMA StepOwned == Ready /\ Owned /\ [Next]_vars => Owned'
<1> SUFFICES ASSUME Ready, Owned, [Next]_vars PROVE Owned'
  OBVIOUS
<1>1. \A k \in Cases : OwnedCase(k)'
  BY CasesOwned
<1>2. ASSUME NEW v \in Workers PROVE OwnedCall(v)'
  <2>1. CASE UNCHANGED <<callVars, history>>
    BY <2>1, OwnedCallKept DEF callVars, Same, Owned
  <2>2. ASSUME NEW w \in Workers, Process(w) PROVE OwnedCall(v)'
    <3>1. CASE v = w
      BY <2>2, <3>1, OwnCallOwned
    <3>2. CASE v # w
      BY <2>2, <3>2, OthersSame, OwnedCallKept DEF Ready, Owned
    <3> QED BY <3>1, <3>2
  <2> QED BY <2>1, <2>2 DEF Next, Environment, vars
<1> QED BY <1>1, <1>2 DEF Owned

-----------------------------------------------------------------------------
(* What a step keeps of a case, and what an answer promises of it. *)

CaseKept(k) ==
  /\ cases'[k] # None
  /\ \/ /\ cases[k].facts \subseteq cases'[k].facts
        /\ cases[k].evidence \subseteq cases'[k].evidence
     \/ k \in raced'

LEMMA CasesKept ==
  ASSUME Ready, [Next]_vars, NEW k \in Cases, cases[k] # None
  PROVE  CaseKept(k)
<1>0. None \notin CaseRows
  BY RowAssumption DEF RowAssumption
<1>1. CASE UNCHANGED cases
  BY <1>1 DEF CaseKept
<1>2. ASSUME NEW w \in Workers, CreateCase(w) PROVE CaseKept(k)
  BY <1>2, CreatedRow DEF Ready, CaseKept
<1>3. ASSUME NEW w \in Workers, RouteWrite(w) PROVE CaseKept(k)
  <2>1. PICK n \in Cases : n = call[w].case
    BY <1>3 DEF RouteWrite, Ready, Control
  <2>2. /\ \A j \in Cases \ {n} : cases'[j] = cases[j]
        /\ cases'[n] \in CaseRows /\ cases'[n].evidence = cases[n].evidence
        /\ cases'[n].facts = Carried(row[w].facts, call[w].fact)
    BY <1>3, <2>1, RouteWritten DEF Ready
  <2>3. row[w].facts # cases[n].facts => n \in raced'
    BY <1>3, <2>1 DEF RouteWrite, Overtaken
  <2> QED BY <1>0, <2>2, <2>3 DEF CaseKept, Carried
<1>4. ASSUME NEW w \in Workers, RecordWrite(w) PROVE CaseKept(k)
  <2>1. PICK n \in Cases : n = call[w].case
    BY <1>4 DEF RecordWrite, Ready, Control
  <2>2. /\ \A j \in Cases \ {n} : cases'[j] = cases[j]
        /\ cases'[n] \in CaseRows /\ cases'[n].facts = cases[n].facts
        /\ cases'[n].evidence = row[w].evidence \union {outcome[w]}
    BY <1>4, <2>1, RecordWritten DEF Ready
  <2>3. row[w].evidence # cases[n].evidence => n \in raced'
    BY <1>4, <2>1 DEF RecordWrite, Overtaken
  <2> QED BY <1>0, <2>2, <2>3 DEF CaseKept
<1> QED BY <1>1, <1>2, <1>3, <1>4
    DEF Next, Process, Environment, Start, Crash, ToolCall, Check, HandleRead, HandleMutation,
        StoreStep, StoreReturns, RouteRead, RecordRead, Raise, Done, vars

(* ResultIsEvidenced, for one worker. *)
Evidenced(w) ==
  answer[w] = "result" /\ outcome[w] # None /\ call[w].case # None
      /\ call[w].tool # "get_case" /\ cases[call[w].case] # None
      /\ call[w].case \notin raced
    => outcome[w] \in cases[call[w].case].evidence

LEMMA RacedStays == [Next]_vars => raced \subseteq raced'
BY
DEF Next, Process, Environment, Start, Crash, ToolCall, Check, HandleRead, HandleMutation,
    StoreStep, StoreReturns, CreateCase, RouteRead, RouteWrite, RecordRead, RecordWrite, Raise,
    Done, Overtaken, vars, history

LEMMA EvidenceStays ==
  ASSUME Ready, [Next]_vars, NEW v \in Workers, Evidenced(v), Same(v)
  PROVE  Evidenced(v)'
<1> SUFFICES ASSUME answer[v] = "result", outcome[v] # None, call[v].case # None,
                    call[v].tool # "get_case", cases'[call[v].case] # None,
                    call[v].case \notin raced'
             PROVE  outcome[v] \in cases'[call[v].case].evidence
  BY DEF Same, Evidenced
<1>1. call[v].case \in Cases
  <2>1. phase[v] = "answered"
    BY DEF Ready, Control
  <2>2. call[v] \in ToolCalls
    BY <2>1 DEF Ready, Control
  <2> QED BY <2>2 DEF ToolCalls
<1>2. CASE cases[call[v].case] # None
  <2>1. cases[call[v].case].evidence \subseteq cases'[call[v].case].evidence
    BY <1>1, <1>2, CasesKept DEF CaseKept
  <2>2. call[v].case \notin raced
    BY RacedStays
  <2> QED BY <1>2, <2>1, <2>2 DEF Evidenced
<1>3. CASE cases[call[v].case] = None
  <2>1. UNCHANGED cases \/ \E w \in Workers : RouteWrite(w) \/ RecordWrite(w) \/ CreateCase(w)
    BY
    DEF Next, Process, Environment, Start, Crash, ToolCall, Check, HandleRead, HandleMutation,
        StoreStep, StoreReturns, RouteRead, RecordRead, Raise, Done, vars
  <2>2. ASSUME NEW w \in Workers, CreateCase(w) PROVE cases'[call[v].case] = None
    BY <1>1, <1>3, <2>2, CreatedRow DEF Ready
  <2>3. ASSUME NEW w \in Workers, RouteWrite(w) \/ RecordWrite(w)
        PROVE  cases'[call[v].case] = None
    <3>1. call[w].case \in Cases /\ cases[call[w].case] \in CaseRows
      BY <2>3 DEF RouteWrite, RecordWrite, Ready, Control
    <3>2. call[w].case # call[v].case
      BY <1>3, <3>1, RowAssumption DEF RowAssumption
    <3>3. CASE RouteWrite(w)
      BY <1>1, <1>3, <3>2, <3>3, RouteWritten DEF Ready
    <3>4. CASE RecordWrite(w)
      BY <1>1, <1>3, <3>2, <3>4, RecordWritten DEF Ready
    <3> QED BY <2>3, <3>3, <3>4
  <2> QED BY <1>3, <2>1, <2>2, <2>3
<1> QED BY <1>2, <1>3

LEMMA OwnEvidenced ==
  ASSUME Ready, NEW w \in Workers, Evidenced(w), Process(w)
  PROVE  Evidenced(w)'
<1> USE DEF Ready, Types
<1>0. Control(w) /\ [Next]_vars
  BY DEF Next
<1>1. CASE answer'[w] # "result"
  BY <1>1 DEF Evidenced
<1>2. CASE Start(w)
  <2>1. Same(w)
    BY <1>2 DEF Start, callVars, Same
  <2> QED BY <1>0, <2>1, EvidenceStays
<1>3. CASE Crash(w) \/ Done(w) \/ Check(w) \/ HandleMutation(w) \/ StoreStep(w) \/ Raise(w)
  <2>1. answer'[w] # "result"
    BY <1>0, <1>3 DEF Crash, Done, Check, HandleMutation, StoreStep, Raise, Answer, Control, callVars
  <2> QED BY <1>1, <2>1
<1>4. ASSUME NEW c \in ToolCalls, ToolCall(w, c) PROVE Evidenced(w)'
  <2>1. answer'[w] # "result"
    BY <1>0, <1>4 DEF ToolCall, Control
  <2> QED BY <1>1, <2>1
<1>5. CASE HandleRead(w) \/ StoreReturns(w)
  <2>1. UNCHANGED call /\ answer[w] = "none"
    BY <1>0, <1>5 DEF HandleRead, StoreReturns, Control
  <2>2. CASE call[w].case = None \/ call[w].tool = "get_case"
    BY <2>1, <2>2 DEF Evidenced
  <2>3. CASE ~(call[w].case = None \/ call[w].tool = "get_case")
    <3>1. answer'[w] # "result"
      BY <1>5, <2>1, <2>3 DEF HandleRead, StoreReturns, Proceed, Answer
    <3> QED BY <1>1, <3>1
  <2> QED BY <2>2, <2>3
<1>6. CASE CreateCase(w) \/ RouteRead(w) \/ RouteWrite(w)
  <2>1. outcome'[w] = None
    BY <1>0, <1>6 DEF CreateCase, RouteRead, RouteWrite, Control
  <2> QED BY <2>1 DEF Evidenced
<1>7. CASE RecordRead(w)
  <2>1. UNCHANGED <<call, cases>> /\ answer[w] = "none"
    BY <1>0, <1>7 DEF RecordRead, Control
  <2>2. CASE cases[call[w].case] = None
    BY <2>1, <2>2 DEF Evidenced
  <2>3. CASE cases[call[w].case] # None
    <3>1. answer'[w] # "result"
      BY <1>7, <2>1, <2>3 DEF RecordRead
    <3> QED BY <1>1, <3>1
  <2> QED BY <2>2, <2>3
<1>8. CASE RecordWrite(w)
  <2>1. UNCHANGED <<call, outcome>>
    BY <1>8 DEF RecordWrite
  <2>2. cases'[call[w].case].evidence = row[w].evidence \union {outcome[w]}
    BY <1>0, <1>8, RecordWritten
  <2> QED BY <2>1, <2>2 DEF Evidenced
<1> QED BY <1>2, <1>3, <1>4, <1>5, <1>6, <1>7, <1>8 DEF Process

LEMMA StepEvidenced ==
  ASSUME Ready, \A v \in Workers : Evidenced(v), [Next]_vars
  PROVE  \A v \in Workers : Evidenced(v)'
<1> SUFFICES ASSUME NEW v \in Workers PROVE Evidenced(v)'
  OBVIOUS
<1>1. CASE UNCHANGED callVars
  BY <1>1, EvidenceStays DEF callVars, Same
<1>2. ASSUME NEW w \in Workers, Process(w) PROVE Evidenced(v)'
  <2>1. CASE v = w
    BY <1>2, <2>1, OwnEvidenced
  <2>2. CASE v # w
    BY <1>2, <2>2, OthersSame, EvidenceStays DEF Ready
  <2> QED BY <2>1, <2>2
<1> QED BY <1>1, <1>2 DEF Next, Environment, vars

-----------------------------------------------------------------------------
Safe == Ready /\ StoreInv

LEMMA SafeInvariant == Spec => []Safe
<1>1. Init => Safe
  <2>1. Init => StoreInit
    BY DEF Init
  <2> QED BY <2>1, InitTypes, InitStoreInv DEF Safe, Ready
<1>2. Safe /\ [Next]_vars => Safe'
  <2>1. StoreInv => StoreTypeOK
    BY DEF StoreInv
  <2> QED BY <2>1, StepReady, StoreStepped, NextStoreInv DEF Safe
<1> QED BY <1>1, <1>2, PTL DEF Spec

(* Every row, call and answer of the dispatcher, and everything in the     *)
(* store below it, stays in its domain.                                    *)
THEOREM DispatcherTypeOK == Spec => []TypeOK
<1>1. Safe => TypeOK
  BY DEF Safe, Ready, Types, TypeOK, StoreInv
<1> QED BY <1>1, SafeInvariant, PTL

(* Whatever tools are called, by however many bridges, with failures and   *)
(* crashes at any point of a call, the tables below see a behaviour of the *)
(* store: the dispatcher never goes around it (tools.py:119-151).          *)
THEOREM DispatcherImplementsStore == Spec => StoreSpec
<1>1. Init => StoreInit
  BY DEF Init
<1> QED BY <1>1, StoreStepped, PTL DEF Spec, StoreSpec

(* The store keeps its promises under the dispatcher: however its tools    *)
(* are called, a refund matches its key, the original purchase stays paid, *)
(* and the replay of a restore is true (tools.py:119-151, store.py).       *)
THEOREM StoreStaysTrue ==
  Spec => [](StoreTypeOK /\ RefundMatchesKey /\ OriginalChargeKept /\ RestoreReplayIsTrue)
BY DispatcherImplementsStore, StoreTypes, RefundsMatchKeys, PurchaseStaysPaid, RestoresStayTrue, PTL

(* Evidence of a guarded tool needs an owner who may use it, whatever      *)
(* other processes route between the check and the record (tools.py:119).  *)
THEOREM BoundariesHold == Spec => []EvidenceNeedsOwner
<1>1. Init => Owned
  BY InitOwned
<1>2. Safe /\ Owned /\ [Next]_vars => Owned'
  BY StepOwned DEF Safe, StoreInv
<1>3. Owned => EvidenceNeedsOwner
  BY DEF Owned, OwnedCase, OwnedEvidence, OwnedBy, EvidenceNeedsOwner
<1> QED BY <1>1, <1>2, <1>3, SafeInvariant, PTL DEF Spec

(* The result of a call is only answered when the case has the evidence of *)
(* it, unless a stale row was written over it (store.py:225-257).          *)
THEOREM ResultsAreEvidenced == Spec => []ResultIsEvidenced
<1> DEFINE All == \A v \in Workers : Evidenced(v)
<1>1. Init => All
  BY DEF Init, Evidenced
<1>2. Safe /\ All /\ [Next]_vars => All'
  BY StepEvidenced DEF Safe
<1>3. All => ResultIsEvidenced
  BY DEF Evidenced, ResultIsEvidenced
<1> QED BY <1>1, <1>2, <1>3, SafeInvariant, PTL DEF Spec

(* Facts and evidence of a case are taken away by the write of a stale row *)
(* only, and a case by nothing (store.py:203-257).                         *)
THEOREM OnlyRacesLose == Spec => LostOnlyToRace
<1>1. Safe /\ [Next]_vars =>
        [\A k \in Cases : cases[k] # None =>
           /\ cases'[k] # None
           /\ \/ /\ cases[k].facts \subseteq cases'[k].facts
                 /\ cases[k].evidence \subseteq cases'[k].evidence
              \/ k \in raced']_vars
  BY CasesKept DEF Safe, CaseKept
<1> QED BY <1>1, SafeInvariant, PTL DEF Spec, LostOnlyToRace
=============================================================================
