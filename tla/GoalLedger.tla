----------------------------- MODULE GoalLedger -----------------------------
(***************************************************************************)
(* The goals of a project (memory/goals.py), kept in a database that the   *)
(* engine and terminals share, and the part of an agent's run that makes   *)
(* their evidence (agents/base.py): the workspace is fingerprinted before  *)
(* and after each run of the tests, and the goal is finished with it.      *)
(* Each process has one update at a time; another process may write        *)
(* between what an update reads and what it writes.                        *)
(*                                                                         *)
(* Abstractions.  A revision is the content of the workspace; it may come  *)
(* back to an earlier one.  The hash of an evidence is its generation, 0   *)
(* when there is none.  The statuses pending, ready, blocked and verifying *)
(* are treated alike and are one, "open".  Objectives, attempts, decisions *)
(* and events are left out.  No caller in the source qualifies acceptance  *)
(* criteria, so that those of a goal stay unresolved.                      *)
(***************************************************************************)
EXTENDS Naturals

CONSTANTS
    Goals,
    ParentOf,      \* the parent of each goal, or NOGOAL
    DependsOn,     \* the dependencies of each goal
    WithCriteria,  \* the goals with acceptance criteria
    Tests,         \* names of tests
    Revisions,     \* contents of the workspace
    NOGOAL,
    Writers,       \* processes that share the database
    MaxEvidence,   \* bound: evidence recorded
    MaxEdits,      \* bound: edits of the workspace
    MaxGoalCalls   \* bound: runs of agents and updates of clients

ASSUME GoalAssumption ==
    /\ ParentOf \in [Goals -> Goals \union {NOGOAL}] /\ DependsOn \in [Goals -> SUBSET Goals]
    /\ WithCriteria \subseteq Goals
    /\ NOGOAL \notin Goals \union Revisions
    /\ MaxEvidence \in Nat /\ MaxEdits \in Nat /\ MaxGoalCalls \in Nat

VARIABLES
    goals,     \* the table: the rows of the goals that were created
    revision,  \* what the workspace contains
    agent,     \* per goal: what its agent is doing
    testing,   \* per goal: the revision at which the test that runs began
    results,   \* per goal: the last outcome of each test, and where it ran
    writing,   \* per process: the row its update is about to write
    taken,     \* generations given
    edits, calls,
    observed   \* history: <<g, r>>, a test of g began and ended at r and passed

goalVars == <<goals, revision, agent, testing, results, writing, taken, edits, calls, observed>>

NoEvidence == [passed |-> FALSE, revision |-> NOGOAL, generation |-> 0, upstream |-> <<>>]
NotWriting == [goal |-> NOGOAL]

GoalInit ==
    /\ goals = <<>> /\ revision \in Revisions
    /\ agent = [g \in Goals |-> "none"]
    /\ testing = [g \in Goals |-> NOGOAL] /\ results = [g \in Goals |-> <<>>]
    /\ writing = [w \in Writers |-> NotWriting]
    /\ taken = 0 /\ edits = 0 /\ calls = 0 /\ observed = {}
-----------------------------------------------------------------------------
Children(g) == {c \in DOMAIN goals : ParentOf[c] = g}
Upstream(g) == DependsOn[g] \union Children(g)

\* A mutation: what an evidence rests upon is looked up, not compared.
Holds_AnyUpstream(rows, u) ==
    LET proof == rows[u].evidence
    IN  /\ proof.passed /\ proof.revision = revision /\ u \notin WithCriteria
        /\ \A r \in Upstream(u) : rows[r].status = "completed" /\ r \in DOMAIN proof.upstream

\* The evidence of u is of the present revision, and of what u rests upon as it is.
Holds(rows, u) ==
    LET proof == rows[u].evidence
    IN  /\ proof.passed /\ proof.revision = revision /\ u \notin WithCriteria
        /\ \A r \in Upstream(u) :
            /\ rows[r].status = "completed"
            /\ r \in DOMAIN proof.upstream /\ proof.upstream[r] = rows[r].evidence.generation

(* GoalLedger._current: the evidence of g and of everything below it holds, *)
(* and nothing below it rests upon itself.                                  *)
Current(rows, g) ==
    \E below \in SUBSET DOMAIN rows :
        /\ g \in below
        /\ \A u \in below : Holds(rows, u) /\ Upstream(u) \subseteq below
        /\ \A knot \in SUBSET below \ {{}} : \E u \in knot : Upstream(u) \intersect knot = {}

\* _proof_id of what g rests upon.
Proofs(g) == [r \in Upstream(g) |-> goals[r].evidence.generation]

Evidence(g, passed, at) ==
    [passed |-> passed, revision |-> at, generation |-> taken + 1, upstream |-> Proofs(g)]

Verified(rows, refs) == \A r \in refs : rows[r].status = "completed" /\ Current(rows, r)

(* What update(g, status) writes when no evidence is given, and whether it  *)
(* is refused.  The evidence of a parent is derived from its children.      *)
Reopened(g, status) ==
    [status |-> status,
     evidence |-> IF status = "running" /\ goals[g].status # "running" THEN NoEvidence ELSE goals[g].evidence]

Completed(g) ==
    [status |-> "completed",
     evidence |-> IF Children(g) # {} /\ ~Current(goals, g) THEN Evidence(g, TRUE, revision) ELSE goals[g].evidence]

MayComplete(g) ==
    /\ Verified(goals, DependsOn[g] \union Children(g))
    /\ g \notin WithCriteria
    /\ Current([goals EXCEPT ![g] = Completed(g)], g)

\* Process w is about to write row; the agent of g then goes on with next.
BeginUpdate(w, g, row, next) ==
    /\ writing[w] = NotWriting
    /\ row.evidence.generation <= MaxEvidence
    /\ writing' = [writing EXCEPT ![w] = [goal |-> g, row |-> row, next |-> next]]
    /\ taken' = IF row.evidence.generation > taken THEN row.evidence.generation ELSE taken
-----------------------------------------------------------------------------
(* GoalLedger.create, from the interface or from a run that starts.         *)
Create(g) ==
    /\ g \in Goals \ DOMAIN goals
    /\ DependsOn[g] \union ({ParentOf[g]} \ {NOGOAL}) \subseteq DOMAIN goals
    /\ goals' = [u \in DOMAIN goals \union {g} |->
                    IF u = g THEN [status |-> "open", evidence |-> NoEvidence] ELSE goals[u]]
    /\ UNCHANGED <<revision, agent, testing, results, writing, taken, edits, calls, observed>>

(* GoalLedger.update as POST /goals/update calls it, before the write.      *)
ClientUpdate(w, g, status) ==
    /\ g \in DOMAIN goals /\ calls < MaxGoalCalls /\ calls' = calls + 1
    /\ \/ status = "open" /\ BeginUpdate(w, g, Reopened(g, status), agent[g])
       \/ status = "running" /\ Verified(goals, DependsOn[g]) /\ BeginUpdate(w, g, Reopened(g, status), agent[g])
       \/ status = "completed" /\ MayComplete(g) /\ BeginUpdate(w, g, Completed(g), agent[g])
    /\ UNCHANGED <<goals, revision, agent, testing, results, edits, observed>>

(* The row is written, and the lock of the process released.                *)
WriteGoal(w) ==
    /\ writing[w] # NotWriting
    /\ goals' = [goals EXCEPT ![writing[w].goal] = writing[w].row]
    /\ agent' = [agent EXCEPT ![writing[w].goal] = IF @ = "waiting" THEN writing[w].next ELSE @]
    /\ writing' = [writing EXCEPT ![w] = NotWriting]
    /\ UNCHANGED <<revision, testing, results, taken, edits, calls, observed>>
-----------------------------------------------------------------------------
(* An agent starts its task: the goal is running, unless it depends on one  *)
(* that is not verified.                                                    *)
StartRun(w, g) ==
    /\ g \in DOMAIN goals /\ agent[g] = "none" /\ calls < MaxGoalCalls
    /\ Verified(goals, DependsOn[g])
    /\ BeginUpdate(w, g, Reopened(g, "running"), "running")
    /\ agent' = [agent EXCEPT ![g] = "waiting"]
    /\ calls' = calls + 1
    /\ UNCHANGED <<goals, revision, testing, results, edits, observed>>

(* run_tests: the revision before.                                          *)
StartTest(g) ==
    /\ agent[g] = "running" /\ agent' = [agent EXCEPT ![g] = "testing"]
    /\ testing' = [testing EXCEPT ![g] = revision]
    /\ UNCHANGED <<goals, revision, results, writing, taken, edits, calls, observed>>

Record(g, t, passed, at) ==
    results' = [results EXCEPT ![g] =
        [n \in DOMAIN @ \union {t} |-> IF n = t THEN [passed |-> passed, at |-> at] ELSE @[n]]]

(* run_tests ends: a workspace that changed meanwhile has no revision.      *)
EndTest(g, t, passed) ==
    /\ agent[g] = "testing" /\ agent' = [agent EXCEPT ![g] = "running"]
    /\ Record(g, t, passed, IF testing[g] = revision THEN revision ELSE NOGOAL)
    /\ observed' = IF passed /\ testing[g] = revision THEN observed \union {<<g, revision>>} ELSE observed
    /\ testing' = [testing EXCEPT ![g] = NOGOAL]
    /\ UNCHANGED <<goals, revision, writing, taken, edits, calls>>

\* Evidence is made when all tests of the run have one revision.
RunEvidence(g) ==
    LET where == {results[g][t].at : t \in DOMAIN results[g]}
        passed == \A t \in DOMAIN results[g] : results[g][t].passed
    IN  IF \E r \in Revisions : where = {r}
        THEN Evidence(g, passed, CHOOSE r \in Revisions : where = {r})
        ELSE NoEvidence

(* The run ends: GoalLedger.finish first writes the evidence; it goes on to *)
(* complete the goal when the task is completed and the tests passed.       *)
FinishRun(w, g, completed) ==
    /\ agent[g] = "running"
    /\ LET row == [status |-> "open", evidence |-> RunEvidence(g)]
       IN  BeginUpdate(w, g, row, IF completed /\ row.evidence.passed THEN "finishing" ELSE "none")
    /\ agent' = [agent EXCEPT ![g] = "waiting"] /\ results' = [results EXCEPT ![g] = <<>>]
    /\ UNCHANGED <<goals, revision, testing, edits, calls, observed>>

CompleteRun(w, g) ==
    /\ agent[g] = "finishing"
    /\ BeginUpdate(w, g, IF MayComplete(g) THEN Completed(g) ELSE Reopened(g, "open"), "none")
    /\ agent' = [agent EXCEPT ![g] = "waiting"]
    /\ UNCHANGED <<goals, revision, testing, results, edits, calls, observed>>

(* The user or an agent writes a file.                                      *)
EditWorkspace(r) ==
    /\ edits < MaxEdits /\ r # revision
    /\ revision' = r /\ edits' = edits + 1
    /\ UNCHANGED <<goals, agent, testing, results, writing, taken, calls, observed>>
-----------------------------------------------------------------------------
GoalNext ==
    \/ \E g \in Goals :
        \/ Create(g)
        \/ StartTest(g)
        \/ \E t \in Tests, passed \in BOOLEAN : EndTest(g, t, passed)
        \/ \E w \in Writers :
            \/ \E status \in {"open", "running", "completed"} : ClientUpdate(w, g, status)
            \/ StartRun(w, g) \/ CompleteRun(w, g)
            \/ \E completed \in BOOLEAN : FinishRun(w, g, completed)
    \/ \E w \in Writers : WriteGoal(w)
    \/ \E r \in Revisions : EditWorkspace(r)

GoalSpec == GoalInit /\ [][GoalNext]_goalVars
-----------------------------------------------------------------------------
Statuses == {"open", "running", "completed"}
Phases == {"none", "waiting", "running", "testing", "finishing"}

GoalTypeOK ==
    /\ DOMAIN goals \subseteq Goals
    /\ \A g \in DOMAIN goals : goals[g].status \in Statuses /\ goals[g].evidence.generation \in 0..taken
    /\ revision \in Revisions /\ agent \in [Goals -> Phases]
    /\ testing \in [Goals -> Revisions \union {NOGOAL}]
    /\ DOMAIN results = Goals /\ \A g \in Goals : DOMAIN results[g] \subseteq Tests
    /\ DOMAIN writing = Writers /\ \A w \in Writers : writing[w].goal \in DOMAIN goals \union {NOGOAL}
    /\ taken \in 0..MaxEvidence /\ edits \in 0..MaxEdits /\ calls \in 0..MaxGoalCalls

\* What list shows as completed with evidence that is not stale.
ShownVerified(g) == g \in DOMAIN goals /\ goals[g].status = "completed" /\ Current(goals, g)

(* A goal shown as completed and not stale rests on tests that passed on    *)
(* the workspace as it is now: its own, or, of a parent, those of every     *)
(* goal below it; and its evidence is younger than all it rests upon.       *)
(* This holds whatever other processes write while an update is decided.    *)
VerifiedGoalsAreTested ==
    \A g \in DOMAIN goals : ShownVerified(g) =>
        /\ Children(g) = {} => <<g, revision>> \in observed
        /\ \A r \in Upstream(g) :
            ShownVerified(r) /\ goals[r].evidence.generation < goals[g].evidence.generation
=============================================================================
