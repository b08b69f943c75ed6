--------------------------- MODULE DagValidation ---------------------------
(***************************************************************************)
(* TaskDAG.validate (scheduler/dag.py): the check for dependencies that do *)
(* not exist and the depth-first search for cycles, one call or return of  *)
(* visit per step.                                                         *)
(*                                                                         *)
(* Abstractions.  The order of the nodes and of each depends_on list is    *)
(* left open.  The set path of the code is the ids on the recursion stack; *)
(* an error is the id or the pair of ids its message names.                *)
(***************************************************************************)
EXTENDS Integers, Sequences, TaskGraphs

CONSTANT Ids    \* the ids tasks may have or name

VARIABLES
    deps,     \* depends_on of every node
    missing,  \* errors of the first loop
    cycles,   \* errors of the search
    visited,  \* the set visited
    roots,    \* nodes the outer loop has still to visit
    stack     \* active calls of visit: the id, and the dependencies left

dagVars == <<deps, missing, cycles, visited, roots, stack>>

DagInit ==
    /\ deps \in UNION {[nodes -> SUBSET Ids] : nodes \in SUBSET Ids}
    /\ missing = UNION {{t} \X (deps[t] \ DOMAIN deps) : t \in DOMAIN deps}
    /\ cycles = {} /\ visited = {} /\ stack = <<>>
    /\ roots = DOMAIN deps
-----------------------------------------------------------------------------
Path == {stack[i].id : i \in 1..Len(stack)}
DependsOn(d) == IF d \in DOMAIN deps THEN deps[d] ELSE {}
Frame(d) == [id |-> d, left |-> DependsOn(d)]

\* Mutant: what was visited before is not looked at again.
Visit_VisitedFirst(d, calls) ==
    IF d \in visited
    THEN stack' = calls /\ UNCHANGED <<cycles, visited>>
    ELSE /\ stack' = Append(calls, Frame(d))
         /\ visited' = visited \union {d}
         /\ cycles' = IF d \in Path THEN cycles \union {d} ELSE cycles

(* visit(d), called when the stack is calls.                               *)
Visit(d, calls) ==
    \/ /\ d \in Path
       /\ cycles' = cycles \union {d} /\ stack' = calls
       /\ UNCHANGED visited
    \/ /\ d \in visited \ Path
       /\ stack' = calls
       /\ UNCHANGED <<cycles, visited>>
    \/ /\ d \notin visited
       /\ visited' = visited \union {d} /\ stack' = Append(calls, Frame(d))
       /\ UNCHANGED cycles

VisitRoot(t) ==
    /\ stack = <<>> /\ t \in roots
    /\ roots' = roots \ {t}
    /\ Visit(t, stack)
    /\ UNCHANGED <<deps, missing>>

Top == stack[Len(stack)]
Without(d) == [stack EXCEPT ![Len(stack)] = [id |-> Top.id, left |-> Top.left \ {d}]]

VisitDependency(d) ==
    /\ stack # <<>> /\ d \in Top.left
    /\ Visit(d, Without(d))
    /\ UNCHANGED <<deps, missing, roots>>

Return ==
    /\ stack # <<>> /\ Top.left = {}
    /\ stack' = SubSeq(stack, 1, Len(stack) - 1)
    /\ UNCHANGED <<deps, missing, cycles, visited, roots>>

DagNext == \/ \E d \in Ids : VisitRoot(d) \/ VisitDependency(d)
        \/ Return

DagSpec == DagInit /\ [][DagNext]_dagVars
-----------------------------------------------------------------------------
Done == stack = <<>> /\ roots = {}

(* The ids on the stack are distinct and were visited; the recursion is    *)
(* never deeper than the number of ids.                                    *)
DagTypeOK ==
    /\ deps \in UNION {[nodes -> SUBSET Ids] : nodes \in SUBSET Ids}
    /\ missing \subseteq Ids \X Ids /\ cycles \subseteq Ids
    /\ roots \subseteq DOMAIN deps
    /\ visited \subseteq Ids
    /\ stack \in Seq([id : Ids, left : SUBSET Ids])
    /\ \A i, j \in 1..Len(stack) : i # j => stack[i].id # stack[j].id

(* validate returns no error exactly for the graphs in which every         *)
(* dependency exists and no tasks wait for each other, in whichever order  *)
(* nodes and dependencies are listed.                                      *)
NoError == missing = {} /\ cycles = {}
ValidateIsExact == Done => (NoError <=> Valid(deps))

(* What is reported during the search is a real cycle: no error has to be  *)
(* taken back.                                                             *)
EveryReportIsACycle ==
    \A d \in cycles : \E c \in SUBSET DOMAIN deps : d \in c /\ Knot(deps, c)
=============================================================================
