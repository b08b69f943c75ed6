-------------------------- MODULE MCPlanExecution --------------------------
(* Instances of PlanExecution for TLC: the shapes of plans that matter.    *)
EXTENDS PlanExecution

Plan3(da, db, dc, sa, sb, sc, m) ==
    [tasks |-> {"a", "b", "c"}, mutating |-> m,
     deps |-> [t \in {"a", "b", "c"} |-> CASE t = "a" -> da [] t = "b" -> db [] OTHER -> dc],
     scope |-> [t \in {"a", "b", "c"} |-> CASE t = "a" -> sa [] t = "b" -> sb [] OTHER -> sc]]

Single(ds) == [tasks |-> {"a"}, mutating |-> {"a"}, deps |-> [t \in {"a"} |-> ds], scope |-> [t \in {"a"} |-> {}]]

\* A join of two writers with disjoint scopes, and of two that overlap.
Join == Plan3({}, {}, {"a", "b"}, {"f"}, {"g"}, {"f", "g"}, {"a", "b", "c"})
Overlap == Plan3({}, {}, {"a", "b"}, {"f"}, {"f", "g"}, {}, {"a", "b"})
\* A fork, with a reader beside a writer whose scope is not given.
Fork == Plan3({}, {"a"}, {"a"}, {}, {}, {"g"}, {"b"})
Wide == Plan3({}, {}, {}, {"f"}, {"g"}, {}, {"a", "b"})
Cycle == Plan3({"b"}, {"c"}, {"a"}, {}, {}, {}, {})
Unknown == Plan3({}, {"x"}, {"a"}, {}, {}, {}, {})

MCPlans == {Join, Overlap, Fork, Wide, Cycle, Unknown, Single({}), Single({"a"})}
MCTeamPlans == {Join, Fork}
=============================================================================
