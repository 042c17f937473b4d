--------------------------- MODULE RelayDeskStore ---------------------------
(***************************************************************************)
(* The business store of RelayDesk (src/src/relaydesk/store.py and         *)
(* postgres_store.py): charges, memberships and the action_keys table that *)
(* makes refund_duplicate and restore_access idempotent.                   *)
(*                                                                         *)
(* Several worker processes (bridges, evaluation runs) share one database. *)
(* The RLock of the store serialises the threads of one process only, so a *)
(* worker here is one process and runs one call at a time.  Within a call  *)
(* the SELECTs are steps of their own: Python's sqlite3 opens its          *)
(* transaction at the first UPDATE, and PostgreSQL's READ COMMITTED lets   *)
(* another transaction commit between two SELECTs.  From the UPDATE to the *)
(* COMMIT the write lock (SQLite) or the row lock (PostgreSQL) is held and *)
(* nothing uncommitted is visible, so that part is one step.               *)
(***************************************************************************)
EXTENDS Integers

CONSTANTS
  Workers,      \* processes that opened the database
  Ops,          \* (customer_id, operation_id) pairs, one "refund:" key each
  Projects,     \* (customer_id, normalised project_id), one "restore:" key each
  Charges,      \* ids of the charges table, compared as ORDER BY id does
  OpOf,         \* the operation a charge belongs to
  SeedCharges,  \* charges inserted by _initialize
  SeedProjects, \* memberships inserted (inactive) by _initialize
  DemoOp, DemoCharge,   \* the fixture the evaluation script resets
  DemoProject,
  None          \* absent: no row, no target, no recorded result

ASSUME StoreAssumption ==
  /\ Charges \subseteq Int
  /\ OpOf \in [Charges -> Ops]
  /\ SeedCharges \subseteq Charges
  /\ SeedProjects \subseteq Projects
  /\ DemoProject \in Projects
  /\ None \notin Ops /\ None \notin Projects /\ None \notin Charges
  /\ None \notin {"captured", "refunded", "inactive", "active"}
  /\ None \notin [ok : BOOLEAN, charge : Charges] /\ None \notin [ok : BOOLEAN]

(***************************************************************************)
(* The demo operation has two charges and the reset recaptures the later   *)
(* one: charge_2 of purchase_demo_100 in the seed and in the script.       *)
(***************************************************************************)
ASSUME DemoAssumption ==
  /\ DemoOp \in Ops
  /\ DemoCharge \in Charges /\ OpOf[DemoCharge] = DemoOp
  /\ \E first \in Charges :
       /\ first < DemoCharge
       /\ {c \in Charges : OpOf[c] = DemoOp} = {first, DemoCharge}

VARIABLES
  status,     \* charges.status; None: no such row yet
  member,     \* memberships.active; None: no such row
  refundKey,  \* action_keys row of a refund, with its stored result
  restoreKey, \* action_keys row of a restore, with its stored result
  pc,         \* where the call of a worker stands
  target,     \* the operation or project of that call
  victim,     \* the charge a refund is about to flip
  reply       \* what the last call of a worker returned

tables == <<status, member, refundKey, restoreKey>>
storeVars == <<status, member, refundKey, restoreKey, pc, target, victim, reply>>

NoReply == [kind |-> "none", ok |-> FALSE]
Replies == [kind : {"none", "refused", "failed", "fresh", "replay"}, ok : BOOLEAN]
RefundResults == [ok : BOOLEAN, charge : Charges]
RestoreResults == [ok : BOOLEAN]
InCall == {"refund_key", "refund_charges", "refund_write",
           "restore_key", "restore_write"}

StoreInit ==
  /\ status = [c \in Charges |-> None]
  /\ member = [p \in Projects |-> None]
  /\ refundKey = [o \in Ops |-> None]
  /\ restoreKey = [p \in Projects |-> None]
  /\ pc = [w \in Workers |-> "down"]
  /\ target = [w \in Workers |-> None]
  /\ victim = [w \in Workers |-> None]
  /\ reply = [w \in Workers |-> NoReply]

Captured(o) == {c \in Charges : OpOf[c] = o /\ status[c] = "captured"}
Refunded(o) == {c \in Charges : OpOf[c] = o /\ status[c] = "refunded"}
Several_OffByOne(S) == S # {}
Several(S) == \E c, d \in S : c # d     \* len(...) >= 2
Single(S) == \E c \in S : S = {c}       \* COUNT(*) = 1

\* INSERT INTO action_keys: the primary key admits one row per action.
Insertable_Replace(row) == TRUE
Insertable(row) == row = None

\* DELETE FROM action_keys
Forget_Not(keys, k) == keys
Forget(keys, k) == [keys EXCEPT ![k] = None]

(***************************************************************************)
(* Process start, crash and the end of a call                              *)
(***************************************************************************)
\* RelayDeskStore.__init__ -> _initialize: INSERT OR IGNORE the seed rows.
SeedRow_Replace(row, seeded, value) == IF seeded THEN value ELSE row
SeedRow(row, seeded, value) == IF seeded /\ row = None THEN value ELSE row

StoreStart(w) ==
  /\ pc[w] = "down"
  /\ pc' = [pc EXCEPT ![w] = "idle"]
  /\ status' = [c \in Charges |-> SeedRow(status[c], c \in SeedCharges, "captured")]
  /\ member' = [p \in Projects |-> SeedRow(member[p], p \in SeedProjects, "inactive")]
  /\ UNCHANGED <<refundKey, restoreKey, target, victim, reply>>

\* The process dies; an open transaction rolls back, nothing else is lost.
StoreCrash(w) ==
  /\ pc[w] # "down"
  /\ pc' = [pc EXCEPT ![w] = "down"]
  /\ target' = [target EXCEPT ![w] = None]
  /\ victim' = [victim EXCEPT ![w] = None]
  /\ reply' = [reply EXCEPT ![w] = NoReply]
  /\ UNCHANGED tables

Return(w, kind, ok) ==
  /\ pc' = [pc EXCEPT ![w] = "returned"]
  /\ victim' = [victim EXCEPT ![w] = None]
  /\ reply' = [reply EXCEPT ![w] = [kind |-> kind, ok |-> ok]]
  /\ UNCHANGED target

\* "database is locked", a lost connection: the with block rolls back and raises.
Fail(w) ==
  /\ pc[w] \in InCall
  /\ Return(w, "failed", FALSE)
  /\ UNCHANGED tables

Finish(w) ==
  /\ pc[w] = "returned"
  /\ pc' = [pc EXCEPT ![w] = "idle"]
  /\ target' = [target EXCEPT ![w] = None]
  /\ reply' = [reply EXCEPT ![w] = NoReply]
  /\ UNCHANGED <<tables, victim>>

(***************************************************************************)
(* refund_duplicate                                                        *)
(***************************************************************************)
BeginRefund(w, o) ==
  /\ pc[w] = "idle"
  /\ pc' = [pc EXCEPT ![w] = "refund_key"]
  /\ target' = [target EXCEPT ![w] = o]
  /\ UNCHANGED <<tables, victim, reply>>

\* SELECT result FROM action_keys; a recorded result is replayed as it is.
ReadRefundKey(w) ==
  /\ pc[w] = "refund_key"
  /\ LET prior == refundKey[target[w]] IN
       \/ /\ prior # None
          /\ Return(w, "replay", prior.ok)
       \/ /\ prior = None
          /\ pc' = [pc EXCEPT ![w] = "refund_charges"]
          /\ UNCHANGED <<target, victim, reply>>
  /\ UNCHANGED tables

\* SELECT the captured charges ORDER BY id; the last of two or more is the duplicate.
ReadCharges(w) ==
  /\ pc[w] = "refund_charges"
  /\ LET charges == Captured(target[w]) IN
       \/ /\ ~Several(charges)
          /\ Return(w, "refused", FALSE)
       \/ /\ Several(charges)
          /\ \E last \in charges :
               /\ \A c \in charges : c <= last
               /\ victim' = [victim EXCEPT ![w] = last]
          /\ pc' = [pc EXCEPT ![w] = "refund_write"]
          /\ UNCHANGED <<target, reply>>
  /\ UNCHANGED tables

\* UPDATE, COUNT, INSERT INTO action_keys, COMMIT.  The acknowledgement of the
\* commit may be lost, in which case the caller sees an exception.
CommitRefund(w) ==
  /\ pc[w] = "refund_write"
  /\ LET o == target[w]
         c == victim[w]
         ok == Single(Captured(o) \ {c})
     IN  /\ Insertable(refundKey[o])
         /\ status' = [status EXCEPT ![c] = "refunded"]
         /\ refundKey' = [refundKey EXCEPT ![o] = [ok |-> ok, charge |-> c]]
         /\ Return(w, "fresh", ok) \/ Return(w, "failed", FALSE)
  /\ UNCHANGED <<member, restoreKey>>

\* The INSERT meets the primary key of another worker's row: IntegrityError, rollback.
RefundConflict(w) ==
  /\ pc[w] = "refund_write"
  /\ ~Insertable(refundKey[target[w]])
  /\ Return(w, "failed", FALSE)
  /\ UNCHANGED tables

(***************************************************************************)
(* restore_access                                                          *)
(***************************************************************************)
BeginRestore(w, p) ==
  /\ pc[w] = "idle"
  /\ pc' = [pc EXCEPT ![w] = "restore_key"]
  /\ target' = [target EXCEPT ![w] = p]
  /\ UNCHANGED <<tables, victim, reply>>

ReadRestoreKey(w) ==
  /\ pc[w] = "restore_key"
  /\ LET prior == restoreKey[target[w]] IN
       \/ /\ prior # None
          /\ Return(w, "replay", prior.ok)
       \/ /\ prior = None
          /\ pc' = [pc EXCEPT ![w] = "restore_write"]
          /\ UNCHANGED <<target, victim, reply>>
  /\ UNCHANGED tables

\* UPDATE memberships (no row: rowcount 0), SELECT active, INSERT the key either way.
CommitRestore(w) ==
  /\ pc[w] = "restore_write"
  /\ LET p == target[w]
         ok == member[p] # None
     IN  /\ Insertable(restoreKey[p])
         /\ member' = IF ok THEN [member EXCEPT ![p] = "active"] ELSE member
         /\ restoreKey' = [restoreKey EXCEPT ![p] = [ok |-> ok]]
         /\ Return(w, "fresh", ok) \/ Return(w, "failed", FALSE)
  /\ UNCHANGED <<status, refundKey>>

RestoreConflict(w) ==
  /\ pc[w] = "restore_write"
  /\ ~Insertable(restoreKey[target[w]])
  /\ Return(w, "failed", FALSE)
  /\ UNCHANGED tables

(***************************************************************************)
(* Other writers of the database                                           *)
(***************************************************************************)
\* reset_demo_fixture("duplicate_billing"): one transaction, two statements.  The
\* script's own _initialize is one more Start, so the rows are there.
ResetBilling ==
  /\ status[DemoCharge] # None
  /\ status' = [status EXCEPT ![DemoCharge] = "captured"]
  /\ refundKey' = Forget(refundKey, DemoOp)
  /\ UNCHANGED <<member, restoreKey, pc, target, victim, reply>>

\* reset_demo_fixture("lost_access")
ResetAccess ==
  /\ member[DemoProject] # None
  /\ member' = [member EXCEPT ![DemoProject] = "inactive"]
  /\ restoreKey' = Forget(restoreKey, DemoProject)
  /\ UNCHANGED <<status, refundKey, pc, target, victim, reply>>

\* External: the billing system books another captured charge.
Capture(c) ==
  /\ status[c] = None
  /\ c \notin SeedCharges
  /\ status' = [status EXCEPT ![c] = "captured"]
  /\ UNCHANGED <<member, refundKey, restoreKey, pc, target, victim, reply>>

\* External: somebody invites the customer to a project.
Enrol(p) ==
  /\ member[p] = None
  /\ p \notin SeedProjects
  /\ \E a \in {"active", "inactive"} : member' = [member EXCEPT ![p] = a]
  /\ UNCHANGED <<status, refundKey, restoreKey, pc, target, victim, reply>>

StoreProcess(w) ==
  \/ StoreStart(w) \/ StoreCrash(w) \/ Fail(w) \/ Finish(w)
  \/ \E o \in Ops : BeginRefund(w, o)
  \/ ReadRefundKey(w) \/ ReadCharges(w) \/ CommitRefund(w) \/ RefundConflict(w)
  \/ \E p \in Projects : BeginRestore(w, p)
  \/ ReadRestoreKey(w) \/ CommitRestore(w) \/ RestoreConflict(w)

StoreEnvironment ==
  \/ ResetBilling \/ ResetAccess
  \/ \E c \in Charges : Capture(c)
  \/ \E p \in Projects : Enrol(p)

StoreNext == (\E w \in Workers : StoreProcess(w)) \/ StoreEnvironment

StoreSpec == StoreInit /\ [][StoreNext]_storeVars

-----------------------------------------------------------------------------
(* Every variable stays in the table or control domain the code gives it. *)
StoreTypeOK ==
  /\ status \in [Charges -> {None, "captured", "refunded"}]
  /\ member \in [Projects -> {None, "inactive", "active"}]
  /\ refundKey \in [Ops -> RefundResults \union {None}]
  /\ restoreKey \in [Projects -> RestoreResults \union {None}]
  /\ pc \in [Workers -> {"down", "idle", "returned"} \union InCall]
  /\ target \in [Workers -> Ops \union Projects \union {None}]
  /\ victim \in [Workers -> Charges \union {None}]
  /\ reply \in [Workers -> Replies]

(* However calls of several processes interleave, crash or are retried, an *)
(* operation has at most one refunded charge, exactly while a refund row   *)
(* stands in action_keys, and it is the charge that row names.             *)
RefundMatchesKey ==
  \A o \in Ops :
    Refunded(o) = IF refundKey[o] = None THEN {} ELSE {refundKey[o].charge}

(* The original purchase survives: an operation with a refunded charge     *)
(* still has a captured one.                                               *)
OriginalChargeKept ==
  \A o \in Ops : Refunded(o) # {} => Captured(o) # {}

(* A replayed restore result is true: while a row says that access was     *)
(* restored, the membership is active.                                     *)
RestoreReplayIsTrue ==
  \A p \in Projects :
    restoreKey[p] # None => (restoreKey[p].ok => member[p] = "active")

(* What the store promises, whatever its processes do: see RefundLedger.   *)
Ledger == INSTANCE RefundLedger WITH
  captured <- {c \in Charges : status[c] = "captured"},
  refunded <- {c \in Charges : status[c] = "refunded"},
  settled <- {o \in Ops : refundKey[o] # None}

(* The refund protocol of the processes implements that abstract ledger.   *)
ImplementsLedger == Ledger!Spec

(* A refunded charge is recaptured only by a reset that forgets the refund *)
(* in the same transaction; a restarting process that seeds the tables     *)
(* again never does it.                                                    *)
RefundUndoneOnlyWithKey ==
  [][\A c \in Charges :
       status[c] = "refunded" /\ status'[c] # "refunded"
         => refundKey[OpOf[c]] # None /\ refundKey'[OpOf[c]] = None]_storeVars
=============================================================================
