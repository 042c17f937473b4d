---------------------------- MODULE RefundLedger ----------------------------
(***************************************************************************)
(* What refund_duplicate promises about a purchase, said without keys,     *)
(* transactions or processes (docs/RELAYDESK.md: "refund exactly one       *)
(* duplicate"; the class docstring of RelayDeskStore: "idempotent").  A    *)
(* purchase is settled at most once, only while two of its charges are     *)
(* captured, and settling it flips exactly one of them.                    *)
(***************************************************************************)
CONSTANTS Charges, Ops, OpOf, DemoOp, DemoCharge

VARIABLES captured, refunded, settled

ledger == <<captured, refunded, settled>>

Init == captured = {} /\ refunded = {} /\ settled = {}

\* New rows appear: the seed of a starting process, or the billing system.
Book(rows) ==
  /\ captured' = captured \union (rows \ refunded)
  /\ UNCHANGED <<refunded, settled>>

Settle(c) ==
  /\ c \in captured
  /\ OpOf[c] \notin settled
  /\ \E original \in captured : original # c /\ OpOf[original] = OpOf[c]
  /\ captured' = captured \ {c}
  /\ refunded' = refunded \union {c}
  /\ settled' = settled \union {OpOf[c]}

\* The evaluation script puts its fixture back.
ResetDemo ==
  /\ captured' = captured \union {DemoCharge}
  /\ refunded' = refunded \ {DemoCharge}
  /\ settled' = settled \ {DemoOp}

Next ==
  \/ \E rows \in SUBSET Charges : Book(rows)
  \/ \E c \in Charges : Settle(c)
  \/ ResetDemo

Spec == Init /\ [][Next]_ledger
=============================================================================
