--------------------------- MODULE PlanExecution ---------------------------
(***************************************************************************)
(* One turn of a session: the coding path of Coordinator._run_request with *)
(* its phases (explore, plan, execute, review, tests, fixes), the task DAG *)
(* of scheduler/dag.py executed in waves, and the turn's checkpoints in    *)
(* state.json, from which a resumed process continues.                     *)
(*                                                                         *)
(* Abstractions.  A plan is one of a set of records; the scope of a task   *)
(* is the set of files below the paths it names.  An agent's execution is  *)
(* an attempt that begins, may change the workspace, and ends in one of    *)
(* the ways the coordinator tells apart.  put writes the state file before *)
(* it returns, so that the checkpoint in memory and on disk are one.       *)
(***************************************************************************)
EXTENDS Integers, Sequences, FiniteSets

DAG == INSTANCE TaskGraphs

CONSTANTS
    Tasks,          \* the task ids plans are made of
    Plans,          \* the plans the planner may produce
    Escalating,     \* tasks for which _can_escalate holds
    MaxParallel,    \* agentic.max_parallel_agents
    VerifyChanges,  \* verification.run_tests_after_changes
    MaxFixes,       \* verification.max_fix_iterations
    MaxResumes      \* bound: how often the turn is reopened

(* A plan names its tasks, what each depends on (possibly a task that does *)
(* not exist), which of them have a mutating role, and their file scopes.  *)
IsPlan(p) ==
    /\ p.tasks \subseteq Tasks /\ p.tasks # {}
    /\ DOMAIN p.deps = p.tasks /\ DOMAIN p.scope = p.tasks
    /\ p.mutating \subseteq p.tasks

ASSUME PlanAssumption ==
    /\ IsFiniteSet(Tasks) /\ Escalating \subseteq Tasks
    /\ \A p \in Plans : IsPlan(p)
    /\ MaxParallel \in Nat \ {0} /\ MaxFixes \in Nat /\ MaxResumes \in Nat
    /\ VerifyChanges \in BOOLEAN

NoPlan == [tasks |-> {}, deps |-> <<>>, scope |-> <<>>, mutating |-> {}]
-----------------------------------------------------------------------------
VARIABLES
    saved,     \* the turn's checkpoints on disk
    turn,      \* the status of the turn on disk
    at,        \* where the process is; "idle" when none runs the turn
    status,    \* the DAG: status of each task
    stage,     \* progress of the tasks of the current wave
    slots,     \* the semaphore of the wave
    raised,    \* what ends the wave early: "no", or why the run is left
    report,    \* the event that ends the run: "none", "completed", "failed"
    resumes,   \* how often the turn was reopened
    attempts,  \* history: attempts of each task by the current process
    touched,   \* history: who may have changed the workspace since the last tests
    lastEnd    \* history: how the last attempt of each task ended, if it did

dag == <<status, stage, slots, raised>>
planVars == <<saved, turn, at, dag, report, resumes, attempts, touched, lastEnd>>

NothingSaved ==
    [explored |-> FALSE, plan |-> NoPlan, done |-> {}, execute |-> "none",
     reviewed |-> FALSE, tests |-> <<>>, fixes |-> <<>>]

Unfinished == {"running", "interrupted", "failed"}

\* The tasks and fixes of the turn, a tester agent, the user.
Changers == {"turn", "tester", "user"}

FreshDag(done) ==
    /\ status' = [t \in Tasks |-> IF t \in done THEN "completed" ELSE "pending"]
    /\ stage' = [t \in Tasks |-> "out"]
    /\ slots' = 1
    /\ raised' = "no"

PlanInit ==
    /\ saved = NothingSaved /\ turn = "running" /\ at = "phases"
    /\ status = [t \in Tasks |-> "pending"] /\ stage = [t \in Tasks |-> "out"]
    /\ slots = 1 /\ raised = "no"
    /\ report = "none" /\ resumes = 0
    /\ attempts = [t \in Tasks |-> 0] /\ touched = {}
    /\ lastEnd = [t \in Tasks |-> "none"]
-----------------------------------------------------------------------------
(* The phases around the plan.  _resumable: a saved phase is not repeated. *)
InPhases == at = "phases"

Touch(who) == touched' = touched \union {who}
Work(tasks) ==
    IF tasks \cap saved.plan.mutating = {} THEN UNCHANGED touched ELSE Touch("turn")

Put(key, value) == saved' = [saved EXCEPT ![key] = value]

Explore ==
    /\ InPhases /\ ~saved.explored
    /\ Put("explored", TRUE)
    /\ UNCHANGED <<turn, at, dag, report, resumes, attempts, touched, lastEnd>>

Plan ==
    /\ InPhases /\ saved.explored /\ saved.plan = NoPlan
    /\ \E p \in Plans : Put("plan", p)
    /\ UNCHANGED <<turn, at, dag, report, resumes, attempts, touched, lastEnd>>

MustExecute == InPhases /\ saved.plan # NoPlan /\ saved.execute = "none"

(* What TaskDAG.validate computes is the subject of DagValidation.         *)
ValidPlan(p) == DAG!Valid(p.deps)
Simple(p) == Cardinality(p.tasks) = 1

(* An invalid DAG fails at once, and so does the only task of a plan when  *)
(* it has dependencies: they are missing, or the task itself.              *)
RejectPlan ==
    /\ MustExecute
    /\ ~ValidPlan(saved.plan)
    /\ Put("execute", "failed")
    /\ UNCHANGED <<turn, at, dag, report, resumes, attempts, touched, lastEnd>>

(* A plan of one task runs without a DAG, a fix without a wave: one agent, *)
(* whose result is saved when it ends.                                     *)
BeginSimple ==
    /\ MustExecute
    /\ Simple(saved.plan) /\ ValidPlan(saved.plan)
    /\ at' = "simple"
    /\ attempts' = [t \in Tasks |-> attempts[t] + IF t \in saved.plan.tasks THEN 1 ELSE 0]
    /\ lastEnd' = [t \in Tasks |-> IF t \in saved.plan.tasks THEN "none" ELSE lastEnd[t]]
    /\ Work(saved.plan.tasks)
    /\ UNCHANGED <<saved, turn, dag, report, resumes>>

EndSimple(result) ==
    /\ at = "simple"
    /\ Put("execute", result)
    /\ at' = "phases"
    /\ lastEnd' = [t \in Tasks |-> IF t \in saved.plan.tasks THEN result ELSE lastEnd[t]]
    /\ UNCHANGED <<turn, dag, report, resumes, attempts, touched>>

\* Mutant: the tasks finished by an earlier process are not marked.
EnterDag_ForgetsDone ==
    /\ MustExecute
    /\ ~Simple(saved.plan) /\ ValidPlan(saved.plan)
    /\ FreshDag({})
    /\ at' = "schedule"
    /\ UNCHANGED <<saved, turn, report, resumes, attempts, touched, lastEnd>>

(* Tasks that finished before an interruption stay finished.               *)
EnterDag ==
    /\ MustExecute
    /\ ~Simple(saved.plan) /\ ValidPlan(saved.plan)
    /\ FreshDag(saved.done)
    /\ at' = "schedule"
    /\ UNCHANGED <<saved, turn, report, resumes, attempts, touched, lastEnd>>
-----------------------------------------------------------------------------
(* The DAG in waves.                                                       *)
Pending == {t \in saved.plan.tasks : status[t] = "pending"}

Ready == {t \in Pending : \A d \in saved.plan.deps[t] : status[d] = "completed"}

\* Mutant: scopes are compared only when they are equal.
Parallelism_EqualScopes(wave) ==
    LET p == saved.plan
        writers == wave \cap p.mutating
    IN  IF \E t \in writers : p.scope[t] = {} THEN 1
        ELSE IF \E t, u \in writers : t # u /\ p.scope[t] = p.scope[u] THEN 1
        ELSE MaxParallel

(* _parallelism_for_wave: mutating tasks overlap only with explicit and    *)
(* disjoint scopes.                                                        *)
Parallelism(wave) ==
    LET p == saved.plan
        writers == wave \cap p.mutating
    IN  IF \E t \in writers : p.scope[t] = {} THEN 1
        ELSE IF \E t, u \in writers : t # u /\ p.scope[t] \cap p.scope[u] # {} THEN 1
        ELSE MaxParallel

(* The whole wave is marked running before any of its tasks starts.        *)
StartWave ==
    /\ at = "schedule" /\ Ready # {}
    /\ status' = [t \in Tasks |-> IF t \in Ready THEN "running" ELSE status[t]]
    /\ stage' = [t \in Tasks |-> IF t \in Ready THEN "queued" ELSE "out"]
    /\ slots' = Parallelism(Ready)
    /\ at' = "wave"
    /\ UNCHANGED <<saved, turn, raised, report, resumes, attempts, touched, lastEnd>>

\* Mutant: the plan waits for its pending tasks.
Stall_Waits == at = "schedule" /\ Ready = {} /\ Pending = {}

(* Nothing is running and nothing is ready: what is pending never will be. *)
Stall == at = "schedule" /\ Ready = {}

EndDag ==
    /\ Stall
    /\ status' = [t \in Tasks |-> IF t \in Pending THEN "failed" ELSE status[t]]
    /\ Put("execute", IF \E t \in saved.plan.tasks : status'[t] = "failed" THEN "failed" ELSE "completed")
    /\ at' = "phases"
    /\ UNCHANGED <<turn, stage, slots, raised, report, resumes, attempts, touched, lastEnd>>

Executing == {t \in Tasks : stage[t] \in {"first", "retry", "cancelled"}}

(* An attempt holds one slot of the semaphore from here to its end.        *)
BeginTask(t) ==
    /\ at = "wave" /\ stage[t] = "queued"
    /\ Cardinality(Executing) < slots
    /\ stage' = [stage EXCEPT ![t] = "first"]
    /\ attempts' = [attempts EXCEPT ![t] = @ + 1]
    /\ lastEnd' = [lastEnd EXCEPT ![t] = "none"]
    /\ Work({t})
    /\ UNCHANGED <<saved, turn, at, status, slots, raised, report, resumes>>

InAttempt(t) == at = "wave" /\ stage[t] \in {"first", "retry"}

Settle(t, result, end) ==
    /\ status' = [status EXCEPT ![t] = result]
    /\ stage' = [stage EXCEPT ![t] = "out"]
    /\ lastEnd' = [lastEnd EXCEPT ![t] = end]

TaskCompletes(t) ==
    /\ InAttempt(t)
    /\ Settle(t, "completed", "completed")
    /\ Put("done", saved.done \union {t})
    /\ UNCHANGED <<turn, at, slots, raised, report, resumes, attempts, touched>>

MayEscalate(t) == stage[t] = "first" /\ t \in Escalating

(* A failed first attempt is repeated once on another model.               *)
Escalate(t) ==
    /\ InAttempt(t) /\ MayEscalate(t)
    /\ stage' = [stage EXCEPT ![t] = "retry"]
    /\ attempts' = [attempts EXCEPT ![t] = @ + 1]
    /\ Work({t})
    /\ UNCHANGED <<saved, turn, at, status, slots, raised, report, resumes, lastEnd>>

TaskFails(t) ==
    /\ InAttempt(t) /\ ~MayEscalate(t)
    /\ Settle(t, "failed", "failed")
    /\ UNCHANGED <<saved, turn, at, slots, raised, report, resumes, attempts, touched>>

(* The attempt is refused, or its deadline expired and it was cancelled:   *)
(* AgentBlocked leaves the wave.                                           *)
TaskBlocks(t, end) ==
    /\ InAttempt(t)
    /\ Settle(t, "failed", end)
    /\ raised' = IF raised = "no" THEN "failed" ELSE raised
    /\ UNCHANGED <<saved, turn, at, slots, report, resumes, attempts, touched>>

(* The provider's quota ran out: the DAG learns nothing of it.             *)
TaskRaises(t) ==
    /\ InAttempt(t)
    /\ stage' = [stage EXCEPT ![t] = "out"]
    /\ lastEnd' = [lastEnd EXCEPT ![t] = "raised"]
    /\ raised' = IF raised = "no" THEN "failed" ELSE raised
    /\ UNCHANGED <<saved, turn, at, status, slots, report, resumes, attempts, touched>>

EndWave ==
    /\ at = "wave" /\ raised = "no"
    /\ \A t \in Tasks : stage[t] = "out"
    /\ at' = "schedule"
    /\ UNCHANGED <<saved, turn, dag, report, resumes, attempts, touched, lastEnd>>

(* gather has seen the exception: the siblings are cancelled.  Those that  *)
(* hold no slot end at once, the others when their cleanup has ended.      *)
CancelSiblings ==
    /\ at = "wave" /\ raised # "no"
    /\ stage' = [t \in Tasks |-> IF t \in Executing THEN "cancelled" ELSE "out"]
    /\ at' = "unwind"
    /\ UNCHANGED <<saved, turn, status, slots, raised, report, resumes, attempts, touched, lastEnd>>

SiblingStops(t) ==
    /\ at = "unwind" /\ stage[t] = "cancelled"
    /\ stage' = [stage EXCEPT ![t] = "out"]
    /\ lastEnd' = [lastEnd EXCEPT ![t] = "cancelled"]
    /\ UNCHANGED <<saved, turn, at, status, slots, raised, report, resumes, attempts, touched>>

(* finish_turn: the turn is left, to be resumed.                           *)
Leave(how) ==
    /\ turn' = how
    /\ at' = "idle"
    /\ UNCHANGED <<saved, dag, report, resumes, attempts, touched, lastEnd>>

\* Mutant: the run is left without waiting for the cancelled siblings.
Unwound_Early == at = "unwind" /\ Leave(raised)

Unwound ==
    /\ at = "unwind"
    /\ \A t \in Tasks : stage[t] = "out"
    /\ Leave(raised)
-----------------------------------------------------------------------------
(* Review, tests and fixes.                                                *)
Review ==
    /\ InPhases /\ saved.execute # "none" /\ ~saved.reviewed
    /\ Put("reviewed", TRUE)
    /\ UNCHANGED <<turn, at, dag, report, resumes, attempts, touched, lastEnd>>

LastFailed(s) == s # <<>> /\ s[Len(s)] = "failed"

MustTest ==
    /\ InPhases /\ saved.reviewed /\ VerifyChanges
    /\ Len(saved.tests) = Len(saved.fixes)
    /\ ~LastFailed(saved.fixes)

MustFix ==
    /\ InPhases /\ saved.reviewed /\ VerifyChanges
    /\ Len(saved.tests) > Len(saved.fixes)
    /\ LastFailed(saved.tests)
    /\ Len(saved.fixes) < MaxFixes

\* Mutant: the tests of an earlier round stand for those after a fix.
RunTests_Reused(result) ==
    /\ MustTest
    /\ Put("tests", Append(saved.tests, result))
    /\ touched' = IF saved.fixes = <<>> THEN {} ELSE touched
    /\ UNCHANGED <<turn, at, dag, report, resumes, attempts, lastEnd>>

(* The tests of a known framework are called directly; otherwise a tester  *)
(* agent runs them, which may go on to write files when it has the result. *)
RunTests(result) ==
    /\ MustTest
    /\ Put("tests", Append(saved.tests, result))
    /\ touched' \in {{}, {"tester"}}
    /\ UNCHANGED <<turn, at, dag, report, resumes, attempts, lastEnd>>

BeginFix ==
    /\ MustFix
    /\ at' = "fix"
    /\ Touch("turn")
    /\ UNCHANGED <<saved, turn, dag, report, resumes, attempts, lastEnd>>

EndFix(result) ==
    /\ at = "fix"
    /\ Put("fixes", Append(saved.fixes, result))
    /\ at' = "phases"
    /\ UNCHANGED <<turn, dag, report, resumes, attempts, touched, lastEnd>>

Passed ==
    /\ saved.execute = "completed"
    /\ VerifyChanges => ~LastFailed(saved.tests)

Report ==
    /\ InPhases /\ saved.reviewed /\ ~MustTest /\ ~MustFix
    /\ report' = IF Passed THEN "completed" ELSE "failed"
    /\ at' = "reported"
    /\ UNCHANGED <<saved, turn, dag, resumes, attempts, touched, lastEnd>>

(* A run that returned its report is complete, whatever the report says.   *)
FinishTurn == at = "reported" /\ Leave("completed")
-----------------------------------------------------------------------------
(* A phase raises: a refusal, a quota, a test run that is blocked.         *)
PhaseRaises == at \in {"phases", "simple", "fix"} /\ Leave("failed")

(* Ctrl-C: the run is cancelled cooperatively and the turn is left.        *)
InterruptTurn ==
    \/ at \in {"phases", "simple", "schedule", "fix"} /\ Leave("interrupted")
    \/ /\ at = "wave" /\ raised = "no"
       /\ raised' = "interrupted"
       /\ UNCHANGED <<saved, turn, at, status, stage, slots, report, resumes, attempts, touched, lastEnd>>

(* The process dies, its agents with it: the turn on disk still says       *)
(* running.                                                                *)
Crash ==
    /\ at # "idle" /\ at' = "idle"
    /\ FreshDag({})
    /\ UNCHANGED <<saved, turn, report, resumes, attempts, touched, lastEnd>>

(* The user edits the workspace: beside the run, or between a process that *)
(* left the turn and the one that resumes it.                              *)
EditWorkspace ==
    /\ Touch("user")
    /\ UNCHANGED <<saved, turn, at, dag, report, resumes, attempts, lastEnd>>

(* A new process picks the unfinished turn up.  What is saved is reused as *)
(* it is, test results too: the workspace is not looked at.                *)
ResumeTurn ==
    /\ at = "idle" /\ turn \in Unfinished
    /\ resumes < MaxResumes
    /\ resumes' = resumes + 1
    /\ turn' = "running" /\ at' = "phases"
    /\ attempts' = [t \in Tasks |-> 0]
    /\ report' = "none"
    /\ UNCHANGED <<saved, dag, touched, lastEnd>>

Phase ==
    \/ Explore
    \/ Plan
    \/ RejectPlan
    \/ BeginSimple
    \/ \E result \in {"completed", "failed"} : EndSimple(result)
    \/ EnterDag
    \/ Review
    \/ \E result \in {"passed", "failed"} : RunTests(result)
    \/ BeginFix
    \/ \E result \in {"completed", "failed"} : EndFix(result)
    \/ Report
    \/ FinishTurn

Attempt(t) ==
    \/ BeginTask(t)
    \/ TaskCompletes(t)
    \/ Escalate(t)
    \/ TaskFails(t)
    \/ \E end \in {"refused", "expired"} : TaskBlocks(t, end)
    \/ TaskRaises(t)
    \/ SiblingStops(t)

Wave ==
    \/ StartWave
    \/ EndDag
    \/ \E t \in Tasks : Attempt(t)
    \/ EndWave
    \/ CancelSiblings
    \/ Unwound

RunPlan == Phase \/ Wave

PlanNext == RunPlan \/ PhaseRaises \/ InterruptTurn \/ Crash \/ EditWorkspace \/ ResumeTurn

PlanSpec == PlanInit /\ [][PlanNext]_planVars

(* Agents have iteration limits, deadlines and bounded cleanup, so that a  *)
(* process always takes its next step.                                     *)
PlanFairSpec == PlanSpec /\ WF_planVars(RunPlan)
-----------------------------------------------------------------------------
(* Properties.                                                             *)
Ends == {"none", "completed", "failed", "refused", "expired", "raised", "cancelled"}

(* Every variable keeps its type; there are never more test runs than one  *)
(* after the execution and one after every fix within the limit.           *)
PlanTypeOK ==
    /\ saved \in [explored : BOOLEAN, plan : Plans \union {NoPlan}, done : SUBSET Tasks,
                 execute : {"none", "completed", "failed"}, reviewed : BOOLEAN,
                 tests : Seq({"passed", "failed"}), fixes : Seq({"completed", "failed"})]
    /\ saved.done \subseteq saved.plan.tasks
    /\ Len(saved.fixes) <= MaxFixes
    /\ Len(saved.tests) - Len(saved.fixes) \in {0, 1}
    /\ turn \in Unfinished \union {"completed"}
    /\ at \in {"idle", "phases", "simple", "schedule", "wave", "unwind", "fix", "reported"}
    /\ status \in [Tasks -> {"pending", "running", "completed", "failed"}]
    /\ stage \in [Tasks -> {"out", "queued", "first", "retry", "cancelled"}]
    /\ slots \in 1..MaxParallel
    /\ raised \in {"no", "failed", "interrupted"}
    /\ report \in {"none", "completed", "failed"}
    /\ resumes \in 0..MaxResumes
    /\ attempts \in [Tasks -> Nat]
    /\ touched \subseteq Changers
    /\ lastEnd \in [Tasks -> Ends]

(* A task executes only after everything it depends on has completed and   *)
(* is saved, also when the dependency ran in an earlier process.           *)
DependenciesFirst ==
    \A t \in Executing : saved.plan.deps[t] \subseteq saved.done

(* Two mutating tasks never execute at the same time unless their file     *)
(* scopes are explicit and disjoint.                                       *)
WritersAreDisjoint ==
    \A t, u \in Executing \cap saved.plan.mutating :
        t # u => /\ saved.plan.scope[t] # {} /\ saved.plan.scope[u] # {}
                 /\ saved.plan.scope[t] \cap saved.plan.scope[u] = {}

(* What executes may execute: after its dependencies, and beside nothing   *)
(* that writes to the same files.                                          *)
TasksMayExecute == DependenciesFirst /\ WritersAreDisjoint

(* No attempt outlives its wave: the run is not left, and nothing is       *)
(* reviewed or tested, while a sibling of a failed task still executes.    *)
NothingOutlivesTheWave == at \notin {"wave", "unwind"} => Executing = {}

(* The run reports completion only when every task of the plan completed,  *)
(* and the last tests passed and came after all that the tasks and fixes   *)
(* of the turn did, in this process or an earlier one.  It says nothing of *)
(* what the user, or a tester agent after its tests, has changed since.    *)
CompletionIsVerified ==
    report = "completed" =>
        /\ \A t \in saved.plan.tasks : lastEnd[t] = "completed"
        /\ VerifyChanges => saved.tests # <<>> /\ ~LastFailed(saved.tests) /\ "turn" \notin touched

(* A task that has completed is never attempted again in this turn, and in *)
(* one process neither is the attempt of a task that was refused or whose  *)
(* deadline expired: what it did is not known.                             *)
SettledTasksAreNotReplayed ==
    [][ /\ saved.done \subseteq saved'.done
        /\ \A t \in Tasks :
            t \in saved.done \/ (lastEnd[t] \in {"refused", "expired"} /\ attempts[t] > 0)
                => attempts'[t] <= attempts[t] ]_planVars

(* Failed tasks get another attempt on resume (the comment in              *)
(* _execute_plan_tasks): a turn that was resumed does not end with a task  *)
(* that failed in an earlier process and was not attempted in this one.    *)
FailedTasksGetAnotherAttempt ==
    at = "reported" /\ resumes > 0 =>
        \A t \in saved.plan.tasks : lastEnd[t] = "failed" => attempts[t] > 0

(* A process that runs the turn leaves it: no plan, however its tasks      *)
(* fail, keeps the scheduler waiting.                                      *)
RunsEnd == (at # "idle") ~> (at = "idle")
=============================================================================
