-------------------------- MODULE MCToolDispatcher --------------------------
(* The demo data of the repository: one purchase with two charges and one  *)
(* inactive membership.                                                    *)
EXTENDS ToolDispatcher, TLC

CONSTANTS demo, atlas, w1, w2, k1, f1, f2, cust

MCOpOf == [c \in {1, 2} |-> demo]

(* Bridge processes are interchangeable. *)
Sym == Permutations(Workers)
=============================================================================
