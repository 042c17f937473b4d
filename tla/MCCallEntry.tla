----------------------------- MODULE MCCallEntry -----------------------------
(* The directories and phones the calls of a process are checked on.       *)
EXTENDS CallEntry

CONSTANTS p1, p2

File(slug, identity, phones, experiment, variant, ok) ==
  [slug |-> slug, identity |-> identity, phones |-> phones, experiment |-> experiment,
   variant |-> variant, ok |-> ok]
Shop == File("shop", "shop", {p1}, NoExperiment, NoExperiment, TRUE)
Torn == [Shop EXCEPT !.ok = FALSE]
A == File("youth", "youth", {p1}, "tone", "a", TRUE)
B == File("youth", "youth", {p1}, "tone", "b", TRUE)

(* One tenant; no tenant left once its file is torn; an experiment on the  *)
(* phone the tenant had; a cohort of one; tenant and experiment colliding. *)
MCDirectories == {<<Shop>>, <<Torn>>, <<A, B>>, <<A>>, <<A, B, Shop>>}

(* Single-tenant deployments: the others look in fewer places and never    *)
(* fall back.                                                              *)
MCPolicies == [strict : BOOLEAN, single : {TRUE}]
=============================================================================
