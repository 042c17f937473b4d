-------------------------- MODULE MCRelayDeskStore --------------------------
(* Two processes, the demo purchase (two charges) and another one that     *)
(* collects up to three, the demo membership and a project without one.    *)
EXTENDS RelayDeskStore, TLC

CONSTANTS w1, w2, demo, other, atlas, beta

MCOpOf == [c \in 1 .. 5 |-> IF c <= 2 THEN demo ELSE other]

(* The processes are interchangeable. *)
Sym == Permutations({w1, w2})
=============================================================================
