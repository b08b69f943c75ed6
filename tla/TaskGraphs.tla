----------------------------- MODULE TaskGraphs -----------------------------
(***************************************************************************)
(* The dependency graph of a task plan: a function from each task id to    *)
(* the set of ids in its depends_on, which need not be tasks of the plan.  *)
(***************************************************************************)

(* A task depends on one that does not exist.                              *)
Missing(deps) == \E t \in DOMAIN deps : ~(deps[t] \subseteq DOMAIN deps)

(* Some tasks wait only for each other: each has a dependency among them.  *)
Knot(deps, c) == c # {} /\ \A t \in c : deps[t] \cap c # {}
Cyclic(deps) == \E c \in SUBSET DOMAIN deps : Knot(deps, c)

Valid(deps) == ~Missing(deps) /\ ~Cyclic(deps)
=============================================================================
