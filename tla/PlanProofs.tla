----------------------------- MODULE PlanProofs -----------------------------
(***************************************************************************)
(* Proofs about PlanExecution and PlanMailbox, for every set of tasks and  *)
(* plans, every number of processes that take the turn up, and every       *)
(* capacity of the channel.                                                *)
(***************************************************************************)
EXTENDS PlanExecution, PlanMailbox, FiniteSetTheorems, SequenceTheorems, TLAPS

InWave == {"wave", "unwind"}
InDag == InWave \union {"schedule"}

(* What the checkpoints say, and where the process may be with them: the   *)
(* phases follow each other, and a plan of one task never becomes a DAG.   *)
PhasesFollow ==
    /\ saved.plan = NoPlan => saved.execute = "none" /\ saved.done = {}
    /\ saved.plan # NoPlan /\ Simple(saved.plan) => saved.done = {}
    /\ at \in InDag => saved.plan # NoPlan /\ ValidPlan(saved.plan) /\ ~Simple(saved.plan)
    /\ at = "simple" => saved.plan # NoPlan /\ Simple(saved.plan)
    /\ at \in InDag \union {"simple"} => saved.execute = "none"
    /\ saved.reviewed => saved.execute # "none"
    /\ saved.tests # <<>> => saved.reviewed

(* A task of the wave was ready when the wave began: its dependencies are  *)
(* saved, and it is not; the DAG marks as completed what is saved.         *)
WaveIsReady ==
    /\ at \notin InWave => \A t \in Tasks : stage[t] = "out"
    /\ at = "unwind" => raised # "no"
    /\ \A t \in Tasks :
        stage[t] # "out" =>
            /\ t \in saved.plan.tasks \ saved.done
            /\ saved.plan.deps[t] \subseteq saved.done
            /\ status[t] = "running"
    /\ \A t \in Tasks : status[t] = "completed" => t \in saved.done
    /\ at \in {"schedule", "wave"} => \A t \in saved.done : status[t] = "completed"

(* Either one task executes at a time, or the scopes of the writers in the *)
(* wave, running and queued, are explicit and disjoint.                    *)
WaveIsDisjoint ==
    /\ Cardinality(Executing) <= slots
    /\ slots > 1 =>
        \A t, u \in {v \in Tasks : stage[v] # "out"} \cap saved.plan.mutating :
            t # u => /\ saved.plan.scope[t] # {} /\ saved.plan.scope[u] # {}
                     /\ saved.plan.scope[t] \cap saved.plan.scope[u] = {}

(* A fix begins only after failed tests, and what the turn has changed     *)
(* since the last tests is from a fix that is under way or was broken off. *)
FixesFollowTests ==
    /\ at = "fix" =>
        /\ saved.reviewed /\ LastFailed(saved.tests)
        /\ Len(saved.tests) > Len(saved.fixes) /\ Len(saved.fixes) < MaxFixes
    /\ Len(saved.tests) > Len(saved.fixes) /\ "turn" \in touched => LastFailed(saved.tests)
    /\ Len(saved.tests) = Len(saved.fixes) /\ saved.fixes # <<>> => LastFailed(saved.tests)

(* How the last attempts ended, against the checkpoints and the DAG.  A    *)
(* wave in which an attempt was refused or expired is being left.          *)
EndsAreRecorded ==
    /\ \A t \in saved.done : lastEnd[t] = "completed"
    /\ saved.execute = "completed" => \A t \in saved.plan.tasks : lastEnd[t] = "completed"
    /\ at = "schedule" => raised = "no" /\ \A t \in Tasks : status[t] # "running"
    /\ at = "wave" /\ raised = "no" =>
        \A t \in Tasks : status[t] = "running" => stage[t] # "out"
    /\ saved.plan = NoPlan \/ Simple(saved.plan) =>
        \A t \in Tasks : lastEnd[t] \notin {"refused", "expired"}
    /\ \A t \in Executing : lastEnd[t] = "none"
    /\ \A t \in Tasks : lastEnd[t] \in {"refused", "expired"} /\ attempts[t] > 0 =>
        /\ at \in InWave \union {"idle"} /\ stage[t] = "out"
        /\ at = "wave" => raised # "no"

(* A report stands only in the process that made it.                       *)
ReportIsLast == at \notin {"reported", "idle"} => report = "none"

PlanIInv ==
    /\ PlanTypeOK /\ PhasesFollow /\ WaveIsReady /\ WaveIsDisjoint
    /\ FixesFollowTests /\ EndsAreRecorded /\ ReportIsLast /\ CompletionIsVerified
-----------------------------------------------------------------------------
(* Every step keeps the types.                                             *)
LEMMA PlanTypeStep == PlanIInv /\ [PlanNext]_planVars => PlanTypeOK'
<1> SUFFICES ASSUME PlanTypeOK, PhasesFollow, WaveIsReady, FixesFollowTests, [PlanNext]_planVars
             PROVE  PlanTypeOK'
  BY DEF PlanIInv
<1> USE PlanAssumption DEF PlanTypeOK, InPhases, Put, dag, Unfinished, Ends
<1>0. /\ \A who \in Changers : Touch(who) => touched' \subseteq Changers
      /\ \A tasks : Work(tasks) => touched' \subseteq Changers
      /\ "turn" \in Changers /\ "user" \in Changers /\ {{}, {"tester"}} \subseteq SUBSET Changers
  BY DEF Touch, Work, Changers
<1>1. ASSUME Explore \/ RejectPlan \/ Review PROVE PlanTypeOK'
  BY <1>1 DEF Explore, RejectPlan, Review, MustExecute
<1>2. CASE Plan
  BY <1>2 DEF Plan, PhasesFollow
<1>3. CASE BeginSimple
  BY <1>0, <1>3 DEF BeginSimple, MustExecute
<1>4. ASSUME NEW result \in {"completed", "failed"}, EndSimple(result) PROVE PlanTypeOK'
  BY <1>4 DEF EndSimple
<1>5. CASE EnterDag
  BY <1>5 DEF EnterDag, FreshDag, MustExecute
<1>6. CASE StartWave
  BY <1>6 DEF StartWave, Parallelism
<1>7. CASE EndDag
  BY <1>7 DEF EndDag, Stall
<1>8. ASSUME NEW t \in Tasks, BeginTask(t) \/ Escalate(t) \/ SiblingStops(t) PROVE PlanTypeOK'
  <2>1. CASE BeginTask(t)
    BY <1>0, <2>1 DEF BeginTask
  <2>2. CASE Escalate(t)
    BY <1>0, <2>2 DEF Escalate
  <2>3. CASE SiblingStops(t)
    BY <2>3 DEF SiblingStops
  <2>4. QED
    BY <1>8, <2>1, <2>2, <2>3
<1>9. ASSUME NEW t \in Tasks, TaskCompletes(t) PROVE PlanTypeOK'
  <2>1. t \in saved.plan.tasks
    BY <1>9 DEF TaskCompletes, InAttempt, WaveIsReady
  <2>2. QED
    BY <1>9, <2>1 DEF TaskCompletes, Settle
<1>10. ASSUME NEW t \in Tasks, TaskFails(t) \/ TaskRaises(t) PROVE PlanTypeOK'
  <2>1. CASE TaskFails(t)
    BY <2>1 DEF TaskFails, Settle
  <2>2. CASE TaskRaises(t)
    BY <2>2 DEF TaskRaises
  <2>3. QED
    BY <1>10, <2>1, <2>2
<1>11. ASSUME NEW t \in Tasks, NEW end \in {"refused", "expired"}, TaskBlocks(t, end) PROVE PlanTypeOK'
  BY <1>11 DEF TaskBlocks, Settle
<1>12. ASSUME EndWave \/ CancelSiblings PROVE PlanTypeOK'
  BY <1>12 DEF EndWave, CancelSiblings
<1>13. ASSUME Unwound \/ FinishTurn \/ PhaseRaises \/ InterruptTurn PROVE PlanTypeOK'
  BY <1>13 DEF Unwound, FinishTurn, PhaseRaises, InterruptTurn, Leave, WaveIsReady
<1>14. ASSUME NEW result \in {"passed", "failed"}, RunTests(result) PROVE PlanTypeOK'
  <2>1. saved'.tests = Append(saved.tests, result) /\ saved'.fixes = saved.fixes
    BY <1>14 DEF RunTests
  <2>2. Len(saved'.tests) - Len(saved'.fixes) \in {0, 1}
    BY <1>14, <2>1 DEF RunTests, MustTest
  <2>3. saved'.tests \in Seq({"passed", "failed"})
    BY <2>1
  <2>4. QED
    BY <1>0, <1>14, <2>2, <2>3 DEF RunTests
<1>15. CASE BeginFix
  BY <1>0, <1>15 DEF BeginFix, MustFix
<1>16. ASSUME NEW result \in {"completed", "failed"}, EndFix(result) PROVE PlanTypeOK'
  <2>1. saved'.fixes = Append(saved.fixes, result) /\ saved'.tests = saved.tests
    BY <1>16 DEF EndFix
  <2>2. Len(saved'.tests) - Len(saved'.fixes) \in {0, 1} /\ Len(saved'.fixes) <= MaxFixes
    BY <1>16, <2>1 DEF EndFix, FixesFollowTests
  <2>3. saved'.fixes \in Seq({"completed", "failed"})
    BY <2>1
  <2>4. QED
    BY <1>16, <2>2, <2>3 DEF EndFix
<1>17. CASE Report
  BY <1>17 DEF Report
<1>18. CASE Crash
  BY <1>18 DEF Crash, FreshDag
<1>19. CASE ResumeTurn
  BY <1>19 DEF ResumeTurn
<1>20. CASE UNCHANGED planVars
  BY <1>20 DEF planVars
<1>21. CASE EditWorkspace
  BY <1>21, <1>0 DEF EditWorkspace
<1>22. QED
  BY <1>1, <1>2, <1>3, <1>4, <1>5, <1>6, <1>7, <1>8, <1>9, <1>10, <1>11, <1>12, <1>13, <1>14, <1>15, <1>16,
     <1>17, <1>18, <1>19, <1>20, <1>21 DEF PlanNext, RunPlan, Phase, Wave, Attempt
-----------------------------------------------------------------------------
(* A step of the process that only moves, or ends, an attempt of the wave. *)
InTheWave(t) ==
    \/ BeginTask(t) \/ Escalate(t) \/ TaskFails(t) \/ TaskRaises(t) \/ SiblingStops(t)
    \/ \E end \in {"refused", "expired"} : TaskBlocks(t, end)

(* The process is left, or taken up again: the checkpoints stay.           *)
Leaving == Unwound \/ FinishTurn \/ PhaseRaises \/ InterruptTurn \/ Crash \/ ResumeTurn

LEMMA WaveKeepsSaved ==
    ASSUME NEW t \in Tasks, InTheWave(t) PROVE UNCHANGED <<saved, at>>
  BY DEF InTheWave, BeginTask, Escalate, TaskFails, TaskBlocks, TaskRaises, SiblingStops

LEMMA LeavingKeepsSaved ==
    ASSUME Leaving
    PROVE  /\ UNCHANGED saved
           /\ at' = "idle" \/ at' = "phases" \/ (at' = at /\ at = "wave")
  BY DEF Leaving, Unwound, FinishTurn, PhaseRaises, InterruptTurn, Crash, ResumeTurn, Leave

(* The phases follow each other in every process that runs the turn.       *)
LEMMA PhasesStep == PlanIInv /\ [PlanNext]_planVars => PhasesFollow'
<1> SUFFICES ASSUME PlanTypeOK, PhasesFollow, WaveIsReady, FixesFollowTests, [PlanNext]_planVars
             PROVE  PhasesFollow'
  BY DEF PlanIInv
<1> USE DEF PhasesFollow, InDag, InWave
<1>1. saved \in [explored : BOOLEAN, plan : Plans \union {NoPlan}, done : SUBSET Tasks,
                 execute : {"none", "completed", "failed"}, reviewed : BOOLEAN,
                 tests : Seq({"passed", "failed"}), fixes : Seq({"completed", "failed"})]
  BY DEF PlanTypeOK
<1>2. ASSUME Explore \/ Plan \/ RejectPlan \/ Review PROVE PhasesFollow'
  BY <1>1, <1>2 DEF Explore, Plan, RejectPlan, Review, MustExecute, InPhases, Put
<1>3. ASSUME BeginSimple \/ EnterDag PROVE PhasesFollow'
  BY <1>3 DEF BeginSimple, EnterDag, MustExecute, InPhases
<1>4. ASSUME NEW result \in {"completed", "failed"}, EndSimple(result) PROVE PhasesFollow'
  BY <1>1, <1>4 DEF EndSimple, Put
<1>5. ASSUME StartWave \/ EndWave \/ CancelSiblings PROVE PhasesFollow'
  BY <1>5 DEF StartWave, EndWave, CancelSiblings
<1>6. CASE EndDag
  BY <1>1, <1>6 DEF EndDag, Stall, Put
<1>7. ASSUME NEW t \in Tasks, InTheWave(t) PROVE PhasesFollow'
  BY <1>7, WaveKeepsSaved
<1>8. ASSUME NEW t \in Tasks, TaskCompletes(t) PROVE PhasesFollow'
  BY <1>1, <1>8 DEF TaskCompletes, InAttempt, Put
<1>9. ASSUME NEW result \in {"passed", "failed"}, RunTests(result) PROVE PhasesFollow'
  BY <1>1, <1>9 DEF RunTests, MustTest, InPhases, Put
<1>10. ASSUME NEW result \in {"completed", "failed"}, EndFix(result) PROVE PhasesFollow'
  BY <1>1, <1>10 DEF EndFix, Put
<1>11. ASSUME BeginFix \/ Report PROVE PhasesFollow'
  BY <1>11 DEF BeginFix, Report
<1>12. CASE Leaving
  BY <1>12, LeavingKeepsSaved
<1>13. CASE EditWorkspace \/ UNCHANGED planVars
  BY <1>13 DEF EditWorkspace, Touch, planVars
<1>14. QED
  BY <1>2, <1>3, <1>4, <1>5, <1>6, <1>7, <1>8, <1>9, <1>10, <1>11, <1>12, <1>13
     DEF PlanNext, RunPlan, Phase, Wave, Attempt, InTheWave, Leaving
-----------------------------------------------------------------------------
(* In a valid plan tasks depend on tasks of the plan.                      *)
LEMMA ValidPlanIsClosed ==
    ASSUME NEW p \in Plans, ValidPlan(p), NEW t \in p.tasks
    PROVE  p.deps[t] \subseteq p.tasks
  BY PlanAssumption DEF ValidPlan, IsPlan, DAG!Valid, DAG!Missing

(* Only a task that completes is added to what is done.                    *)
LEMMA DoneGrows ==
    ASSUME PlanTypeOK, [PlanNext]_planVars
    PROVE  \/ saved'.done = saved.done
           \/ \E t \in Tasks : TaskCompletes(t) /\ saved'.done = saved.done \union {t}
<1> USE DEF PlanTypeOK, Put
<1>1. ASSUME NEW t \in Tasks, TaskCompletes(t) PROVE saved'.done = saved.done \union {t}
  BY <1>1 DEF TaskCompletes
<1>2. ASSUME NEW t \in Tasks, InTheWave(t) PROVE saved' = saved
  BY <1>2, WaveKeepsSaved
<1>3. ASSUME Leaving PROVE saved' = saved
  BY <1>3, LeavingKeepsSaved
<1>4. ASSUME Explore \/ Plan \/ RejectPlan \/ BeginSimple \/ EnterDag \/ Review \/ BeginFix \/ Report
      PROVE  saved'.done = saved.done
  BY <1>4 DEF Explore, Plan, RejectPlan, BeginSimple, EnterDag, Review, BeginFix, Report
<1>5. ASSUME StartWave \/ EndDag \/ EndWave \/ CancelSiblings \/ EditWorkspace \/ UNCHANGED planVars
      PROVE  saved'.done = saved.done
  BY <1>5 DEF StartWave, EndDag, EndWave, CancelSiblings, EditWorkspace, planVars
<1>6. ASSUME NEW r, EndSimple(r) \/ RunTests(r) \/ EndFix(r) PROVE saved'.done = saved.done
  BY <1>6 DEF EndSimple, RunTests, EndFix
<1>7. QED
  BY <1>1, <1>2, <1>3, <1>4, <1>5, <1>6 DEF PlanNext, RunPlan, Phase, Wave, Attempt, InTheWave, Leaving

(* Every task of a wave stays one that was ready when the wave began.      *)
LEMMA WaveStep == PlanIInv /\ [PlanNext]_planVars => WaveIsReady'
<1> SUFFICES ASSUME PlanTypeOK, PhasesFollow, WaveIsReady, [PlanNext]_planVars
             PROVE  WaveIsReady'
  BY DEF PlanIInv
<1> USE DEF PlanTypeOK, WaveIsReady, InWave
<1>1. ASSUME Explore \/ RejectPlan \/ Review \/ BeginSimple \/ BeginFix \/ Report PROVE WaveIsReady'
  BY <1>1 DEF Explore, RejectPlan, Review, BeginSimple, BeginFix, Report, InPhases, MustExecute, MustFix, Put, dag
<1>2. CASE Plan
  BY <1>2 DEF Plan, InPhases, Put, dag
<1>3. ASSUME NEW r, EndSimple(r) \/ RunTests(r) \/ EndFix(r) PROVE WaveIsReady'
  <2>1. saved'.plan = saved.plan /\ saved'.done = saved.done
    BY <1>3 DEF EndSimple, RunTests, EndFix, Put
  <2>2. at \in {"phases", "simple", "fix"} /\ at' = "phases" /\ UNCHANGED dag
    BY <1>3 DEF EndSimple, RunTests, EndFix, MustTest, InPhases
  <2>3. QED
    BY <2>1, <2>2 DEF dag
<1>4. CASE EnterDag
  <2>1. \A t \in Tasks : stage'[t] = "out"
    BY <1>4 DEF EnterDag, FreshDag
  <2>2. \A t \in Tasks : status'[t] = "completed" <=> t \in saved.done
    BY <1>4 DEF EnterDag, FreshDag
  <2>3. QED
    BY <1>4, <2>1, <2>2 DEF EnterDag
<1>5. CASE StartWave
  <2>1. saved.plan \in Plans /\ ValidPlan(saved.plan)
    BY <1>5 DEF StartWave, PhasesFollow, InDag
  <2>2. \A t \in Ready : /\ t \in saved.plan.tasks \ saved.done
                         /\ saved.plan.deps[t] \subseteq saved.done
    BY <1>5, <2>1, ValidPlanIsClosed, PlanAssumption DEF StartWave, Ready, Pending, IsPlan
  <2>3. QED
    BY <1>5, <2>2 DEF StartWave
<1>6. CASE EndDag
  BY <1>6 DEF EndDag, Stall, Pending, Put
<1>7. ASSUME NEW t \in Tasks, InTheWave(t) PROVE WaveIsReady'
  <2>1. CASE BeginTask(t)
    BY <2>1 DEF BeginTask
  <2>2. CASE Escalate(t)
    BY <2>2 DEF Escalate, InAttempt
  <2>3. CASE TaskFails(t)
    BY <2>3 DEF TaskFails, InAttempt, Settle
  <2>4. ASSUME NEW end \in {"refused", "expired"}, TaskBlocks(t, end) PROVE WaveIsReady'
    BY <2>4 DEF TaskBlocks, InAttempt, Settle
  <2>5. CASE TaskRaises(t)
    BY <2>5 DEF TaskRaises, InAttempt
  <2>6. CASE SiblingStops(t)
    BY <2>6 DEF SiblingStops
  <2>7. QED
    BY <1>7, <2>1, <2>2, <2>3, <2>4, <2>5, <2>6 DEF InTheWave
<1>8. ASSUME NEW t \in Tasks, TaskCompletes(t) PROVE WaveIsReady'
  <2>1. /\ saved' = [saved EXCEPT !["done"] = saved.done \union {t}] /\ at' = "wave"
        /\ status' = [status EXCEPT ![t] = "completed"] /\ stage' = [stage EXCEPT ![t] = "out"]
    BY <1>8 DEF TaskCompletes, InAttempt, Settle, Put
  <2>2. saved'.done = saved.done \union {t} /\ saved'.plan = saved.plan
    BY <2>1
  <2>3. \A u \in Tasks \ {t} : stage'[u] = stage[u] /\ status'[u] = status[u]
    BY <2>1
  <2>4. stage'[t] = "out" /\ status'[t] = "completed" /\ at = "wave"
    BY <1>8, <2>1 DEF TaskCompletes, InAttempt
  <2>5. QED
    BY <2>1, <2>2, <2>3, <2>4
<1>9. ASSUME EndWave \/ CancelSiblings PROVE WaveIsReady'
  <2>1. CASE EndWave
    BY <2>1 DEF EndWave, dag
  <2>2. CASE CancelSiblings
    <3>1. \A t \in Tasks : stage'[t] # "out" => stage[t] # "out"
      BY <2>2 DEF CancelSiblings, Executing
    <3>2. QED
      BY <2>2, <3>1 DEF CancelSiblings
  <2>3. QED
    BY <1>9, <2>1, <2>2
<1>10. ASSUME Unwound \/ FinishTurn \/ PhaseRaises \/ InterruptTurn \/ ResumeTurn PROVE WaveIsReady'
  BY <1>10 DEF Unwound, FinishTurn, PhaseRaises, InterruptTurn, ResumeTurn, Leave, dag
<1>11. CASE Crash
  BY <1>11 DEF Crash, FreshDag
<1>12. CASE EditWorkspace \/ UNCHANGED planVars
  BY <1>12 DEF EditWorkspace, Touch, planVars, dag
<1>13. QED
  BY <1>1, <1>2, <1>3, <1>4, <1>5, <1>6, <1>7, <1>8, <1>9, <1>10, <1>11, <1>12
     DEF PlanNext, RunPlan, Phase, Wave, Attempt, InTheWave
-----------------------------------------------------------------------------
LEMMA ExecutingIsFinite == IsFiniteSet(Executing) /\ Cardinality(Executing) \in Nat
  BY PlanAssumption, FS_Subset, FS_CardinalityType DEF Executing

(* The semaphore bounds what executes, and lets writers overlap only when   *)
(* their scopes are disjoint.                                              *)
LEMMA OverlapStep == PlanIInv /\ PlanTypeOK' /\ [PlanNext]_planVars => WaveIsDisjoint'
<1> SUFFICES ASSUME PlanTypeOK, PlanTypeOK', PhasesFollow, WaveIsReady, WaveIsDisjoint, [PlanNext]_planVars
             PROVE  WaveIsDisjoint'
  BY DEF PlanIInv
<1>1. CASE /\ slots' = slots /\ saved'.plan = saved.plan
           /\ Executing' \subseteq Executing
           /\ \A t \in Tasks : stage'[t] # "out" => stage[t] # "out"
  <2>1. IsFiniteSet(Executing') /\ Cardinality(Executing') <= Cardinality(Executing)
    BY <1>1, ExecutingIsFinite, FS_Subset
  <2>2. Cardinality(Executing') \in Nat
    BY <2>1, FS_CardinalityType
  <2>3. Cardinality(Executing') <= slots'
    BY <1>1, <2>1, <2>2, ExecutingIsFinite, PlanAssumption DEF WaveIsDisjoint, PlanTypeOK
  <2>4. QED
    BY <1>1, <2>3 DEF WaveIsDisjoint
<1>2. CASE slots' \in Nat \ {0} /\ Executing' = {} /\ \A t \in Tasks : stage'[t] = "out"
  BY <1>2, FS_EmptySet DEF WaveIsDisjoint
<1>3. ASSUME NEW t \in Tasks, BeginTask(t) PROVE WaveIsDisjoint'
  <2>1. Executing' = Executing \union {t}
    BY <1>3 DEF BeginTask, Executing, PlanTypeOK
  <2>2. Cardinality(Executing') <= Cardinality(Executing) + 1
    BY <2>1, ExecutingIsFinite, FS_AddElement
  <2>3. Cardinality(Executing') \in Nat
    BY <2>1, ExecutingIsFinite, FS_AddElement, FS_CardinalityType
  <2>4. Cardinality(Executing') <= slots'
    BY <1>3, <2>2, <2>3, ExecutingIsFinite, PlanAssumption DEF BeginTask, PlanTypeOK
  <2>5. \A u \in Tasks : stage'[u] # "out" => stage[u] # "out"
    BY <1>3 DEF BeginTask, PlanTypeOK
  <2>6. QED
    BY <1>3, <2>4, <2>5 DEF BeginTask, WaveIsDisjoint
<1>4. CASE StartWave
  <2>1. Executing' = {}
    BY <1>4 DEF StartWave, Executing
  <2>2. Cardinality(Executing') <= slots'
    BY <2>1, FS_EmptySet, PlanAssumption DEF PlanTypeOK
  <2>3. {v \in Tasks : stage'[v] # "out"} \subseteq Ready
    BY <1>4 DEF StartWave
  <2>4. slots' = Parallelism(Ready) /\ saved' = saved
    BY <1>4 DEF StartWave
  <2>5. ASSUME slots' > 1, NEW t \in Ready \cap saved.plan.mutating, NEW u \in Ready \cap saved.plan.mutating, t # u
        PROVE  /\ saved.plan.scope[t] # {} /\ saved.plan.scope[u] # {}
               /\ saved.plan.scope[t] \cap saved.plan.scope[u] = {}
    BY <2>4, <2>5 DEF Parallelism
  <2>6. QED
    BY <2>2, <2>3, <2>4, <2>5 DEF WaveIsDisjoint
<1>5. CASE UNCHANGED <<slots, stage>> /\ saved'.plan = saved.plan
  BY <1>1, <1>5 DEF Executing
<1> USE DEF PlanTypeOK
<1>6. ASSUME NEW t \in Tasks, Escalate(t) PROVE WaveIsDisjoint'
  <2>1. Executing' = Executing /\ \A u \in Tasks : stage'[u] # "out" => stage[u] # "out"
    BY <1>6 DEF Escalate, InAttempt, Executing
  <2>2. QED
    BY <1>1, <1>6, <2>1 DEF Escalate
<1>7. ASSUME NEW t \in Tasks, stage' = [stage EXCEPT ![t] = "out"], slots' = slots, saved'.plan = saved.plan
      PROVE  WaveIsDisjoint'
  <2>1. Executing' \subseteq Executing /\ \A u \in Tasks : stage'[u] # "out" => stage[u] # "out"
    BY <1>7 DEF Executing
  <2>2. QED
    BY <1>1, <1>7, <2>1
<1>8. CASE CancelSiblings
  <2>1. Executing' \subseteq Executing /\ \A u \in Tasks : stage'[u] # "out" => stage[u] # "out"
    BY <1>8 DEF CancelSiblings, Executing
  <2>2. QED
    BY <1>1, <1>8, <2>1 DEF CancelSiblings
<1>9. ASSUME EnterDag \/ Crash PROVE WaveIsDisjoint'
  <2>1. slots' = 1 /\ \A t \in Tasks : stage'[t] = "out"
    BY <1>9 DEF EnterDag, Crash, FreshDag
  <2>2. QED
    BY <1>2, <2>1 DEF Executing
<1>10. CASE Plan
  <2>1. \A t \in Tasks : stage'[t] = "out"
    BY <1>10 DEF Plan, InPhases, WaveIsReady, InWave, dag
  <2>2. slots' \in Nat \ {0}
    BY <1>10, PlanAssumption DEF Plan, dag
  <2>3. QED
    BY <1>2, <2>1, <2>2 DEF Executing
<1> USE DEF Put, dag
<1>11. ASSUME Explore \/ RejectPlan \/ Review \/ BeginSimple \/ BeginFix \/ Report \/ EndDag
       PROVE  WaveIsDisjoint'
  BY <1>5, <1>11 DEF Explore, RejectPlan, Review, BeginSimple, BeginFix, Report, EndDag
<1>12. ASSUME NEW r, EndSimple(r) \/ RunTests(r) \/ EndFix(r) PROVE WaveIsDisjoint'
  BY <1>5, <1>12 DEF EndSimple, RunTests, EndFix
<1>13. ASSUME Unwound \/ FinishTurn \/ PhaseRaises \/ InterruptTurn \/ ResumeTurn \/ EndWave \/ EditWorkspace \/ UNCHANGED planVars
       PROVE  WaveIsDisjoint'
  BY <1>5, <1>13 DEF Unwound, FinishTurn, PhaseRaises, InterruptTurn, ResumeTurn, Leave, EndWave, EditWorkspace, planVars
<1>14. ASSUME NEW t \in Tasks, TaskCompletes(t) PROVE WaveIsDisjoint'
  BY <1>7, <1>14 DEF TaskCompletes, Settle
<1>15. ASSUME NEW t \in Tasks, TaskFails(t) \/ TaskRaises(t) \/ SiblingStops(t) PROVE WaveIsDisjoint'
  BY <1>7, <1>15 DEF TaskFails, TaskRaises, SiblingStops, Settle
<1>16. ASSUME NEW t \in Tasks, NEW end \in {"refused", "expired"}, TaskBlocks(t, end) PROVE WaveIsDisjoint'
  BY <1>7, <1>16 DEF TaskBlocks, Settle
<1>17. QED
  BY <1>3, <1>4, <1>6, <1>8, <1>9, <1>10, <1>11, <1>12, <1>13, <1>14, <1>15, <1>16
     DEF PlanNext, RunPlan, Phase, Wave, Attempt
-----------------------------------------------------------------------------
(* Checkpoints of tests and fixes that a step leaves alone.                *)
LEMMA TestsKept ==
    ASSUME PlanTypeOK, FixesFollowTests,
           saved'.tests = saved.tests, saved'.fixes = saved.fixes,
           "turn" \in touched' => "turn" \in touched \/ saved.tests = <<>>,
           at' # "fix"
    PROVE  FixesFollowTests'
<1>1. Len(saved.tests) \in Nat /\ Len(saved.fixes) \in Nat
  BY DEF PlanTypeOK
<1>2. saved.tests = <<>> => Len(saved.tests) = 0
  OBVIOUS
<1>3. LastFailed(saved'.tests) <=> LastFailed(saved.tests)
  BY DEF LastFailed
<1>4. QED
  BY <1>1, <1>2, <1>3 DEF FixesFollowTests

(* Tests and fixes alternate, and only a fix changes what was tested.      *)
LEMMA TestStep == PlanIInv /\ [PlanNext]_planVars => FixesFollowTests'
<1> SUFFICES ASSUME PlanTypeOK, PhasesFollow, WaveIsReady, FixesFollowTests, [PlanNext]_planVars
             PROVE  FixesFollowTests'
  BY DEF PlanIInv
<1>1. saved \in [explored : BOOLEAN, plan : Plans \union {NoPlan}, done : SUBSET Tasks,
                 execute : {"none", "completed", "failed"}, reviewed : BOOLEAN,
                 tests : Seq({"passed", "failed"}), fixes : Seq({"completed", "failed"})]
  BY DEF PlanTypeOK
<1>2. saved.execute = "none" => saved.tests = <<>>
  BY <1>1 DEF PhasesFollow
<1>3. ASSUME NEW key \in {"explored", "plan", "execute", "done", "reviewed"}, NEW value, Put(key, value)
      PROVE  saved'.tests = saved.tests /\ saved'.fixes = saved.fixes
  BY <1>1, <1>3 DEF Put
<1>4. ASSUME Explore \/ Plan \/ RejectPlan \/ Review PROVE FixesFollowTests'
  <2>1. saved'.tests = saved.tests /\ saved'.fixes = saved.fixes
    BY <1>1, <1>4 DEF Explore, Plan, RejectPlan, Review, Put
  <2>2. touched' = touched /\ at' = "phases"
    BY <1>4 DEF Explore, Plan, RejectPlan, Review, MustExecute, InPhases
  <2>3. QED
    BY <2>1, <2>2, TestsKept
<1>5. ASSUME BeginSimple \/ EnterDag PROVE FixesFollowTests'
  BY <1>2, <1>5, TestsKept DEF BeginSimple, EnterDag, MustExecute
<1>6. ASSUME NEW result \in {"completed", "failed"}, EndSimple(result) PROVE FixesFollowTests'
  BY <1>3, <1>6, TestsKept DEF EndSimple
<1>7. ASSUME StartWave \/ EndWave \/ CancelSiblings \/ Report PROVE FixesFollowTests'
  BY <1>7, TestsKept DEF StartWave, EndWave, CancelSiblings, Report
<1>8. CASE EndDag
  BY <1>3, <1>8, TestsKept DEF EndDag
<1>9. ASSUME NEW t \in Tasks, InTheWave(t) PROVE FixesFollowTests'
  <2>1. saved.tests = <<>> /\ at # "fix"
    BY <1>2, <1>9 DEF InTheWave, BeginTask, Escalate, TaskFails, TaskBlocks, TaskRaises, SiblingStops,
                      InAttempt, PhasesFollow, InDag, InWave
  <2>2. QED
    BY <1>9, <2>1, WaveKeepsSaved, TestsKept
<1>10. ASSUME NEW t \in Tasks, TaskCompletes(t) PROVE FixesFollowTests'
  BY <1>3, <1>10, TestsKept DEF TaskCompletes, InAttempt
<1>11. ASSUME NEW result \in {"passed", "failed"}, RunTests(result) PROVE FixesFollowTests'
  <2>1. saved'.tests = Append(saved.tests, result) /\ saved'.fixes = saved.fixes
    BY <1>1, <1>11 DEF RunTests, Put
  <2>2. Len(saved'.tests) = Len(saved.tests) + 1 /\ Len(saved.tests) = Len(saved.fixes)
    BY <1>1, <1>11, <2>1 DEF RunTests, MustTest
  <2>3. QED
    BY <1>1, <1>11, <2>1, <2>2 DEF RunTests, MustTest, InPhases, FixesFollowTests
<1>12. CASE BeginFix
  BY <1>12 DEF BeginFix, MustFix, FixesFollowTests
<1>13. ASSUME NEW result \in {"completed", "failed"}, EndFix(result) PROVE FixesFollowTests'
  <2>1. saved'.fixes = Append(saved.fixes, result) /\ saved'.tests = saved.tests
    BY <1>1, <1>13 DEF EndFix, Put
  <2>2. LastFailed(saved.tests) /\ Len(saved'.fixes) = Len(saved.fixes) + 1 /\ Len(saved.tests) > Len(saved.fixes)
    BY <1>1, <1>13, <2>1 DEF EndFix, FixesFollowTests
  <2>3. LastFailed(saved'.tests) /\ at' = "phases"
    BY <1>13, <2>1, <2>2 DEF EndFix
  <2>4. QED
    BY <2>3 DEF FixesFollowTests
<1>14. CASE Leaving
  BY <1>14, LeavingKeepsSaved, TestsKept
     DEF Leaving, Unwound, FinishTurn, PhaseRaises, InterruptTurn, Crash, ResumeTurn, Leave
<1>15. CASE EditWorkspace \/ UNCHANGED planVars
  BY <1>15 DEF EditWorkspace, Touch, planVars, FixesFollowTests
<1>16. QED
  BY <1>4, <1>5, <1>6, <1>7, <1>8, <1>9, <1>10, <1>11, <1>12, <1>13, <1>14, <1>15
     DEF PlanNext, RunPlan, Phase, Wave, Attempt, InTheWave, Leaving
-----------------------------------------------------------------------------
LEMMA PlanHasTasks == PlanTypeOK => saved.plan.tasks \subseteq Tasks
  BY PlanAssumption DEF PlanTypeOK, IsPlan, NoPlan

(* How attempts end is in step with the checkpoints.                       *)
LEMMA EndsStep == PlanIInv /\ [PlanNext]_planVars => EndsAreRecorded'
<1> SUFFICES ASSUME PlanTypeOK, PhasesFollow, WaveIsReady, EndsAreRecorded, [PlanNext]_planVars
             PROVE  EndsAreRecorded'
  BY DEF PlanIInv
<1> USE DEF PlanTypeOK, EndsAreRecorded, InWave
<1>1. saved \in [explored : BOOLEAN, plan : Plans \union {NoPlan}, done : SUBSET Tasks,
                 execute : {"none", "completed", "failed"}, reviewed : BOOLEAN,
                 tests : Seq({"passed", "failed"}), fixes : Seq({"completed", "failed"})]
  OBVIOUS
<1>2. at \notin InWave => Executing = {}
  BY DEF Executing, WaveIsReady
<1>3. ASSUME UNCHANGED <<dag, attempts, lastEnd>>, at \in {"phases", "fix"}, at' \in {"phases", "simple", "fix", "reported"},
             saved'.plan = saved.plan, saved'.done = saved.done,
             saved'.execute = "completed" => saved.execute = "completed"
      PROVE  EndsAreRecorded'
  BY <1>3 DEF dag, Executing
<1>4. ASSUME Explore \/ RejectPlan \/ Review PROVE EndsAreRecorded'
  BY <1>1, <1>3, <1>4 DEF Explore, RejectPlan, Review, InPhases, MustExecute, Put
<1>5. ASSUME BeginFix \/ Report PROVE EndsAreRecorded'
  BY <1>3, <1>5 DEF BeginFix, Report, MustFix, InPhases
<1>6. ASSUME NEW r, RunTests(r) \/ EndFix(r) PROVE EndsAreRecorded'
  BY <1>1, <1>3, <1>6 DEF RunTests, EndFix, MustTest, InPhases, Put
<1>7. CASE Plan
  BY <1>1, <1>7 DEF Plan, InPhases, Put, dag, Executing, PhasesFollow
<1>8. CASE BeginSimple
  BY <1>1, <1>2, <1>8 DEF BeginSimple, MustExecute, InPhases, dag, Executing, PhasesFollow
<1>9. ASSUME NEW result \in {"completed", "failed"}, EndSimple(result) PROVE EndsAreRecorded'
  <2>1. /\ saved'.plan = saved.plan /\ saved'.done = saved.done /\ saved'.execute = result
        /\ at = "simple" /\ at' = "phases" /\ UNCHANGED <<dag, attempts>>
    BY <1>1, <1>9 DEF EndSimple, Put
  <2>2. Executing' = {} /\ saved.done = {} /\ Simple(saved.plan)
    BY <1>2, <2>1 DEF PhasesFollow, Executing, dag
  <2>3. \A t \in Tasks : lastEnd'[t] = IF t \in saved.plan.tasks THEN result ELSE lastEnd[t]
    BY <1>9 DEF EndSimple
  <2>4. \A t \in Tasks : lastEnd'[t] \notin {"refused", "expired"}
    BY <2>2, <2>3
  <2>5. result = "completed" => \A t \in saved.plan.tasks : lastEnd'[t] = "completed"
    BY <2>3, PlanHasTasks
  <2>6. QED
    BY <2>1, <2>2, <2>4, <2>5
<1>10. CASE EnterDag
  BY <1>10 DEF EnterDag, FreshDag, MustExecute, InPhases, Executing
<1>11. CASE StartWave
  BY <1>2, <1>11 DEF StartWave, Executing
<1>12. CASE EndDag
  <2>1. /\ saved'.plan = saved.plan /\ saved'.done = saved.done
        /\ at = "schedule" /\ at' = "phases" /\ UNCHANGED <<stage, raised, attempts, lastEnd>>
    BY <1>1, <1>12 DEF EndDag, Stall, Put
  <2>2. saved'.execute = "completed" => \A t \in saved.plan.tasks : status'[t] # "failed"
    BY <1>1, <1>12 DEF EndDag, Put
  <2>3. ASSUME saved'.execute = "completed", NEW t \in saved.plan.tasks PROVE lastEnd[t] = "completed"
    <3>1. t \in Tasks
      BY PlanHasTasks
    <3>2. status[t] \notin {"pending", "failed"}
      BY <1>12, <2>2, <2>3, <3>1 DEF EndDag, Pending
    <3>3. status[t] = "completed"
      BY <2>1, <3>1, <3>2
    <3>4. QED
      BY <3>1, <3>3 DEF WaveIsReady
  <2>4. Executing' = {}
    BY <1>2, <2>1 DEF Executing
  <2>5. QED
    BY <2>1, <2>3, <2>4
<1>13. ASSUME NEW t \in Tasks, BeginTask(t) PROVE EndsAreRecorded'
  BY <1>13 DEF BeginTask, Executing, WaveIsReady, PhasesFollow, InDag
<1>14. ASSUME NEW t \in Tasks, Escalate(t) PROVE EndsAreRecorded'
  BY <1>14 DEF Escalate, InAttempt, Executing, WaveIsReady
<1>15. ASSUME NEW t \in Tasks, TaskCompletes(t) PROVE EndsAreRecorded'
  BY <1>15 DEF TaskCompletes, InAttempt, Settle, Executing, Put, PhasesFollow, InDag
<1>16. ASSUME NEW t \in Tasks, TaskFails(t) PROVE EndsAreRecorded'
  BY <1>16 DEF TaskFails, InAttempt, Settle, Executing, WaveIsReady, PhasesFollow, InDag
<1>17. ASSUME NEW t \in Tasks, NEW end \in {"refused", "expired"}, TaskBlocks(t, end) PROVE EndsAreRecorded'
  BY <1>17 DEF TaskBlocks, InAttempt, Settle, Executing, WaveIsReady, PhasesFollow, InDag
<1>18. ASSUME NEW t \in Tasks, TaskRaises(t) PROVE EndsAreRecorded'
  BY <1>18 DEF TaskRaises, InAttempt, Executing, WaveIsReady, PhasesFollow, InDag
<1>19. ASSUME NEW t \in Tasks, SiblingStops(t) PROVE EndsAreRecorded'
  BY <1>19 DEF SiblingStops, Executing, WaveIsReady, PhasesFollow, InDag
<1>20. CASE EndWave
  BY <1>20 DEF EndWave, dag, Executing
<1>21. CASE CancelSiblings
  BY <1>21 DEF CancelSiblings, Executing
<1>22. ASSUME Unwound \/ FinishTurn \/ PhaseRaises \/ InterruptTurn PROVE EndsAreRecorded'
  BY <1>2, <1>22 DEF Unwound, FinishTurn, PhaseRaises, InterruptTurn, Leave, dag, Executing, WaveIsReady
<1>23. CASE Crash
  BY <1>23 DEF Crash, FreshDag, Executing
<1>24. CASE ResumeTurn
  BY <1>2, <1>24 DEF ResumeTurn, dag, Executing
<1>25. CASE EditWorkspace \/ UNCHANGED planVars
  BY <1>25 DEF EditWorkspace, Touch, planVars, dag, Executing
<1>26. QED
  BY <1>4, <1>5, <1>6, <1>7, <1>8, <1>9, <1>10, <1>11, <1>12, <1>13, <1>14, <1>15, <1>16, <1>17, <1>18,
     <1>19, <1>20, <1>21, <1>22, <1>23, <1>24, <1>25
     DEF PlanNext, RunPlan, Phase, Wave, Attempt
-----------------------------------------------------------------------------
(* A report is given once, by the process that still holds the turn, and   *)
(* nothing happens after it in that process.                               *)
LEMMA ReportStep ==
    PlanIInv /\ [PlanNext]_planVars => ReportIsLast' /\ CompletionIsVerified'
<1> SUFFICES ASSUME PlanTypeOK, PhasesFollow, FixesFollowTests, EndsAreRecorded, ReportIsLast,
                    CompletionIsVerified, [PlanNext]_planVars
             PROVE  ReportIsLast' /\ CompletionIsVerified'
  BY DEF PlanIInv
<1> USE DEF ReportIsLast
<1>1. CASE Report
  <2>1. ReportIsLast'
    BY <1>1 DEF Report
  <2>2. SUFFICES ASSUME report' = "completed" PROVE CompletionIsVerified'
    BY <2>1 DEF CompletionIsVerified
  <2>3. /\ UNCHANGED <<saved, touched, lastEnd>> /\ InPhases /\ saved.reviewed
        /\ saved.execute = "completed"
        /\ VerifyChanges => ~LastFailed(saved.tests) /\ ~MustTest
    BY <1>1, <2>2 DEF Report, Passed
  <2>4. \A t \in saved.plan.tasks : lastEnd[t] = "completed"
    BY <2>3 DEF EndsAreRecorded
  <2>5. ASSUME VerifyChanges PROVE saved.tests # <<>> /\ ~LastFailed(saved.tests) /\ "turn" \notin touched
    <3>1. Len(saved.tests) \in Nat /\ Len(saved.fixes) \in Nat /\ Len(saved.tests) - Len(saved.fixes) \in {0, 1}
      BY DEF PlanTypeOK
    <3>2. Len(saved.tests) # Len(saved.fixes) \/ LastFailed(saved.fixes)
      BY <2>3, <2>5 DEF MustTest
    <3>3. ~(Len(saved.tests) = Len(saved.fixes) /\ saved.fixes # <<>>)
      BY <2>3, <2>5 DEF FixesFollowTests
    <3>4. Len(saved.tests) > Len(saved.fixes)
      BY <3>1, <3>2, <3>3 DEF LastFailed
    <3>5. saved.tests # <<>>
      BY <3>1, <3>4
    <3>6. "turn" \notin touched
      BY <2>3, <2>5, <3>4 DEF FixesFollowTests, PlanTypeOK
    <3>7. QED
      BY <2>3, <2>5, <3>5, <3>6
  <2>6. QED
    BY <2>3, <2>4, <2>5 DEF CompletionIsVerified
<1>2. ASSUME report' = "none" PROVE ReportIsLast' /\ CompletionIsVerified'
  BY <1>2 DEF CompletionIsVerified
<1>3. ASSUME UNCHANGED <<saved, report, lastEnd>>, "turn" \in touched' => "turn" \in touched, at' = "idle" \/ at' = at
      PROVE  ReportIsLast' /\ CompletionIsVerified'
  BY <1>3 DEF CompletionIsVerified
<1>4. ASSUME at \notin {"reported", "idle"}, UNCHANGED report PROVE ReportIsLast' /\ CompletionIsVerified'
  BY <1>2, <1>4
<1>5. ASSUME Explore \/ Plan \/ RejectPlan \/ BeginSimple \/ EnterDag \/ Review \/ BeginFix
      PROVE  ReportIsLast' /\ CompletionIsVerified'
  BY <1>4, <1>5 DEF Explore, Plan, RejectPlan, BeginSimple, EnterDag, Review, BeginFix, MustExecute, MustFix, InPhases
<1>6. ASSUME NEW r, EndSimple(r) \/ RunTests(r) \/ EndFix(r) PROVE ReportIsLast' /\ CompletionIsVerified'
  BY <1>4, <1>6 DEF EndSimple, RunTests, EndFix, MustTest, InPhases
<1>7. ASSUME StartWave \/ EndDag \/ EndWave \/ CancelSiblings PROVE ReportIsLast' /\ CompletionIsVerified'
  BY <1>4, <1>7 DEF StartWave, EndDag, Stall, EndWave, CancelSiblings, dag
<1>8. ASSUME NEW t \in Tasks, Attempt(t) PROVE ReportIsLast' /\ CompletionIsVerified'
  BY <1>4, <1>8 DEF Attempt, BeginTask, TaskCompletes, Escalate, TaskFails, TaskBlocks, TaskRaises,
                    SiblingStops, InAttempt
<1>9. ASSUME Unwound \/ FinishTurn \/ PhaseRaises \/ InterruptTurn \/ Crash PROVE ReportIsLast' /\ CompletionIsVerified'
  BY <1>3, <1>9 DEF Unwound, FinishTurn, PhaseRaises, InterruptTurn, Crash, Leave, dag
<1>10. CASE ResumeTurn
  BY <1>2, <1>10 DEF ResumeTurn
<1>11. CASE EditWorkspace \/ UNCHANGED planVars
  BY <1>3, <1>11 DEF EditWorkspace, Touch, planVars
<1>12. QED
  BY <1>1, <1>5, <1>6, <1>7, <1>8, <1>9, <1>10, <1>11 DEF PlanNext, RunPlan, Phase, Wave
-----------------------------------------------------------------------------
(* The inductive invariant holds in every state.                           *)
THEOREM PlanInvariant == PlanSpec => []PlanIInv
<1>1. PlanInit => PlanIInv
  <2> SUFFICES ASSUME PlanInit PROVE PlanIInv
    OBVIOUS
  <2> USE PlanAssumption DEF PlanInit, NothingSaved
  <2>1. Executing = {} /\ Cardinality(Executing) = 0
    BY FS_EmptySet DEF Executing
  <2>2. <<>> \in Seq({"passed", "failed"}) /\ <<>> \in Seq({"completed", "failed"}) /\ Len(<<>>) = 0
    OBVIOUS
  <2>3. PlanTypeOK
    <3>1. saved \in [explored : BOOLEAN, plan : Plans \union {NoPlan}, done : SUBSET Tasks,
                     execute : {"none", "completed", "failed"}, reviewed : BOOLEAN,
                     tests : Seq({"passed", "failed"}), fixes : Seq({"completed", "failed"})]
      BY <2>2
    <3>2. slots \in 1..MaxParallel /\ resumes \in 0..MaxResumes /\ Len(saved.fixes) <= MaxFixes
          /\ Len(saved.tests) - Len(saved.fixes) \in {0, 1}
      BY <2>2
    <3>3. QED
      BY <3>1, <3>2 DEF PlanTypeOK, Unfinished, Ends
  <2>4. PhasesFollow /\ WaveIsReady
    BY DEF PhasesFollow, WaveIsReady, InDag, InWave, NoPlan
  <2>5. WaveIsDisjoint
    BY <2>1 DEF WaveIsDisjoint
  <2>6. FixesFollowTests /\ ReportIsLast /\ CompletionIsVerified
    BY <2>2 DEF FixesFollowTests, ReportIsLast, CompletionIsVerified
  <2>7. EndsAreRecorded
    BY <2>1 DEF EndsAreRecorded, InWave
  <2>8. QED
    BY <2>3, <2>4, <2>5, <2>6, <2>7 DEF PlanIInv
<1>2. PlanIInv /\ [PlanNext]_planVars => PlanIInv'
  BY PlanTypeStep, PhasesStep, WaveStep, OverlapStep, TestStep, EndsStep, ReportStep DEF PlanIInv
<1>3. QED
  BY <1>1, <1>2, PTL DEF PlanSpec

(* Types, for every set of plans.                                          *)
THEOREM PlanTypeCorrect == PlanSpec => []PlanTypeOK
  BY PlanInvariant, PTL DEF PlanIInv

(* In every plan, of any number of tasks, and however the turn is crashed  *)
(* and resumed, a task executes only after its dependencies, and beside    *)
(* nothing that writes to the same files.                                  *)
THEOREM TasksExecuteSafely == PlanSpec => []TasksMayExecute
<1>1. PlanIInv => TasksMayExecute
  <2> SUFFICES ASSUME PlanIInv PROVE TasksMayExecute
    OBVIOUS
  <2>1. DependenciesFirst
    BY DEF PlanIInv, WaveIsReady, DependenciesFirst, Executing
  <2>2. ASSUME NEW t \in Executing \cap saved.plan.mutating, NEW u \in Executing \cap saved.plan.mutating, t # u
        PROVE  /\ saved.plan.scope[t] # {} /\ saved.plan.scope[u] # {}
               /\ saved.plan.scope[t] \cap saved.plan.scope[u] = {}
    <3>0. IsFiniteSet({t}) /\ Cardinality({t}) = 1
      BY FS_Singleton
    <3>1. Cardinality({t} \union {u}) = 2
      <4>1. u \notin {t}
        BY <2>2
      <4>2. Cardinality({t} \union {u}) = IF u \in {t} THEN Cardinality({t}) ELSE Cardinality({t}) + 1
        BY <3>0, FS_AddElement
      <4>3. QED
        BY <3>0, <4>1, <4>2
    <3>2. Cardinality({t} \union {u}) <= Cardinality(Executing)
      BY <2>2, ExecutingIsFinite, FS_Subset
    <3>3. Cardinality(Executing) <= slots /\ slots \in Nat /\ Cardinality(Executing) \in Nat
      BY ExecutingIsFinite, PlanAssumption DEF PlanIInv, WaveIsDisjoint, PlanTypeOK
    <3>4. slots > 1
      BY <3>1, <3>2, <3>3
    <3>5. QED
      BY <2>2, <3>4 DEF PlanIInv, WaveIsDisjoint, Executing
  <2>3. QED
    BY <2>1, <2>2 DEF TasksMayExecute, WritersAreDisjoint
<1>2. QED
  BY <1>1, PlanInvariant, PTL

(* Whatever fails or is interrupted, no attempt is still at work when the  *)
(* run is left, reviewed or tested.                                        *)
THEOREM WaveEndsFirst == PlanSpec => []NothingOutlivesTheWave
<1>1. PlanIInv => NothingOutlivesTheWave
  BY DEF PlanIInv, WaveIsReady, InWave, Executing, NothingOutlivesTheWave
<1>2. QED
  BY <1>1, PlanInvariant, PTL

(* A report of completion is true: of every task, and of the last tests.   *)
THEOREM ReportFollowsTheTests == PlanSpec => []CompletionIsVerified
  BY PlanInvariant, PTL DEF PlanIInv

(* What is done, or ended in a way nobody knows, is not attempted again.   *)
THEOREM NoReplay == PlanSpec => SettledTasksAreNotReplayed
<1> DEFINE Kept == /\ saved.done \subseteq saved'.done
                   /\ \A t \in Tasks :
                        t \in saved.done \/ (lastEnd[t] \in {"refused", "expired"} /\ attempts[t] > 0)
                            => attempts'[t] <= attempts[t]
<1>1. PlanIInv /\ [PlanNext]_planVars => Kept
  <2> SUFFICES ASSUME PlanTypeOK, PhasesFollow, WaveIsReady, EndsAreRecorded, [PlanNext]_planVars
               PROVE  Kept
    BY DEF PlanIInv
  <2>1. saved.done \subseteq saved'.done
    BY DoneGrows
  <2>2. SUFFICES ASSUME NEW t \in Tasks,
                        t \in saved.done \/ (lastEnd[t] \in {"refused", "expired"} /\ attempts[t] > 0)
                 PROVE  attempts'[t] <= attempts[t]
    BY <2>1
  <2>3. attempts \in [Tasks -> Nat] /\ stage[t] = "out"
    BY <2>2 DEF PlanTypeOK, WaveIsReady, EndsAreRecorded
  <2>4. ASSUME NEW u \in Tasks, BeginTask(u) \/ Escalate(u) PROVE u # t
    BY <2>3, <2>4 DEF BeginTask, Escalate, InAttempt
  <2>5. ASSUME NEW u \in Tasks, Attempt(u) PROVE attempts'[t] <= attempts[t]
    BY <2>3, <2>4, <2>5 DEF Attempt, BeginTask, TaskCompletes, Escalate, TaskFails, TaskBlocks, TaskRaises,
                    SiblingStops
  <2>6. CASE BeginSimple
    <3>1. saved.done = {}
      BY <2>6 DEF BeginSimple, MustExecute, PhasesFollow
    <3>2. lastEnd[t] \notin {"refused", "expired"}
      BY <2>6 DEF BeginSimple, EndsAreRecorded
    <3>3. QED
      BY <2>2, <3>1, <3>2
  <2>7. CASE ResumeTurn
    BY <2>3, <2>7 DEF ResumeTurn
  <2>8. ASSUME Explore \/ Plan \/ RejectPlan \/ EnterDag \/ Review \/ BeginFix \/ Report \/ FinishTurn
        PROVE  UNCHANGED attempts
    BY <2>8 DEF Explore, Plan, RejectPlan, EnterDag, Review, BeginFix, Report, FinishTurn, Leave
  <2>9. ASSUME NEW r, EndSimple(r) \/ RunTests(r) \/ EndFix(r) PROVE UNCHANGED attempts
    BY <2>9 DEF EndSimple, RunTests, EndFix
  <2>10. ASSUME \/ StartWave \/ EndDag \/ EndWave \/ CancelSiblings \/ Unwound
                \/ PhaseRaises \/ InterruptTurn \/ Crash \/ EditWorkspace \/ UNCHANGED planVars
         PROVE  UNCHANGED attempts
    BY <2>10 DEF StartWave, EndDag, EndWave, CancelSiblings, Unwound, PhaseRaises, InterruptTurn, Crash, Leave, EditWorkspace, planVars
  <2>11. UNCHANGED attempts => attempts'[t] <= attempts[t]
    BY <2>3
  <2>12. QED
    BY <2>5, <2>6, <2>7, <2>8, <2>9, <2>10, <2>11 DEF PlanNext, RunPlan, Phase, Wave
<1>2. PlanIInv /\ [PlanNext]_planVars => [Kept]_planVars
  BY <1>1
<1>3. QED
  BY <1>2, PlanInvariant, PTL DEF PlanSpec, SettledTasksAreNotReplayed
-----------------------------------------------------------------------------
(* The channel of a plan.                                                  *)
LEMMA AppendToConcat ==
    ASSUME NEW S, NEW d \in Seq(S), NEW s \in Seq(S), NEW m \in S
    PROVE  d \o Append(s, m) = Append(d \o s, m)
  OBVIOUS

LEMMA TakeFromConcat ==
    ASSUME NEW S, NEW d \in Seq(S), NEW s \in Seq(S), NEW n \in 1..Len(s)
    PROVE  /\ SubSeq(s, 1, n) \in Seq(S) /\ SubSeq(s, n + 1, Len(s)) \in Seq(S)
           /\ (d \o SubSeq(s, 1, n)) \o SubSeq(s, n + 1, Len(s)) = d \o s
<1>1. SubSeq(s, 1, n) \in Seq(S) /\ SubSeq(s, n + 1, Len(s)) \in Seq(S)
  OBVIOUS
<1>2. SubSeq(s, 1, n) \o SubSeq(s, n + 1, Len(s)) = s
  OBVIOUS
<1>3. ASSUME NEW u \in Seq(S), NEW v \in Seq(S) PROVE (d \o u) \o v = d \o (u \o v)
  OBVIOUS
<1>4. (d \o SubSeq(s, 1, n)) \o SubSeq(s, n + 1, Len(s)) = d \o (SubSeq(s, 1, n) \o SubSeq(s, n + 1, Len(s)))
  BY <1>1, <1>3
<1>5. QED
  BY <1>1, <1>2, <1>4

LEMMA PrefixOfConcat ==
    ASSUME NEW S, NEW d \in Seq(S), NEW s \in Seq(S)
    PROVE  Len(d) <= Len(d \o s) /\ d = SubSeq(d \o s, 1, Len(d))
<1>1. Len(d \o s) = Len(d) + Len(s) /\ d \o s \in Seq(S)
  OBVIOUS
<1>2. SubSeq(d \o s, 1, Len(d)) \in Seq(S) /\ Len(SubSeq(d \o s, 1, Len(d))) = Len(d)
  BY <1>1
<1>3. \A i \in 1..Len(d) : SubSeq(d \o s, 1, Len(d))[i] = d[i]
  BY <1>1
<1>4. QED
  BY <1>1, <1>2, <1>3, SeqEqual

(* The first n messages of a participant change hands.                     *)
LEMMA TakeStep ==
    ASSUME MailboxTypeOK, NEW p \in Participants, NEW n \in 1..Len(inbox[p]), Take(p, n)
    PROVE  /\ inbox' \in [Participants -> Seq(Messages)] /\ delivered' \in [Participants -> Seq(Messages)]
           /\ delivered'[p] \o inbox'[p] = delivered[p] \o inbox[p]
           /\ \A q \in Participants \ {p} : inbox'[q] = inbox[q] /\ delivered'[q] = delivered[q]
<1>1. inbox[p] \in Seq(Messages) /\ delivered[p] \in Seq(Messages)
  BY DEF MailboxTypeOK
<1>2. /\ inbox' = [inbox EXCEPT ![p] = SubSeq(inbox[p], n + 1, Len(inbox[p]))]
      /\ delivered' = [delivered EXCEPT ![p] = delivered[p] \o SubSeq(inbox[p], 1, n)]
  BY DEF Take
<1>3. /\ SubSeq(inbox[p], 1, n) \in Seq(Messages) /\ SubSeq(inbox[p], n + 1, Len(inbox[p])) \in Seq(Messages)
      /\ (delivered[p] \o SubSeq(inbox[p], 1, n)) \o SubSeq(inbox[p], n + 1, Len(inbox[p])) = delivered[p] \o inbox[p]
  BY <1>1, TakeFromConcat
<1>4. delivered[p] \o SubSeq(inbox[p], 1, n) \in Seq(Messages)
  BY <1>1, <1>3
<1>5. QED
  BY <1>2, <1>3, <1>4 DEF MailboxTypeOK

MailboxIInv == MailboxTypeOK /\ ChannelIsReliable

(* Every call keeps the types, the order of the messages and the wake-ups. *)
LEMMA MailboxStep == MailboxIInv /\ [MailboxNext]_mailboxVars => MailboxIInv'
<1> SUFFICES ASSUME MailboxTypeOK, EveryMessageArrivesOnce, NoLostWakeup, [MailboxNext]_mailboxVars
             PROVE  MailboxTypeOK' /\ EveryMessageArrivesOnce' /\ NoLostWakeup'
  BY DEF MailboxIInv, ChannelIsReliable
<1> USE MailboxAssumption
<1>1. ASSUME NEW p \in Participants, NEW size \in Sizes, Send(p, size)
      PROVE  MailboxTypeOK' /\ EveryMessageArrivesOnce' /\ NoLostWakeup'
  <2> DEFINE m == [number |-> sent + 1, to |-> p]
  <2>1. m \in Messages /\ sent' \in 0..MaxMessages /\ bytes' \in 0..MaxBytes
    BY <1>1 DEF Send, MailboxTypeOK, Messages
  <2>2. /\ inbox' = [inbox EXCEPT ![p] = Append(inbox[p], m)]
        /\ accepted' = [accepted EXCEPT ![p] = Append(accepted[p], m)]
        /\ receiver' = [receiver EXCEPT ![p] = IF receiver[p] = "waiting" THEN "woken" ELSE receiver[p]]
        /\ ~closed /\ UNCHANGED <<closed, delivered>>
    BY <1>1 DEF Send, Wake
  <2>3. delivered[p] \o Append(inbox[p], m) = Append(delivered[p] \o inbox[p], m)
    BY <2>1, AppendToConcat DEF MailboxTypeOK
  <2> HIDE DEF m
  <2>4. MailboxTypeOK'
    BY <2>1, <2>2 DEF MailboxTypeOK
  <2>5. EveryMessageArrivesOnce'
    BY <2>2, <2>3 DEF EveryMessageArrivesOnce, MailboxTypeOK
  <2>6. NoLostWakeup'
    BY <2>2 DEF NoLostWakeup, MailboxTypeOK
  <2>7. QED
    BY <2>4, <2>5, <2>6
<1>2. ASSUME NEW p \in Participants, NEW n \in 1..Len(inbox[p]), Take(p, n), ~closed,
             receiver' = receiver \/ receiver' = [receiver EXCEPT ![p] = "out"],
             UNCHANGED <<sent, bytes, closed, accepted>>
      PROVE  MailboxTypeOK' /\ EveryMessageArrivesOnce' /\ NoLostWakeup'
  <2>1. MailboxTypeOK'
    BY <1>2, TakeStep DEF MailboxTypeOK
  <2>2. EveryMessageArrivesOnce'
    BY <1>2, TakeStep DEF EveryMessageArrivesOnce
  <2>3. inbox[p] # <<>>
    BY <1>2 DEF MailboxTypeOK
  <2>4. NoLostWakeup'
    BY <1>2, <2>3, TakeStep DEF NoLostWakeup, MailboxTypeOK
  <2>5. QED
    BY <2>1, <2>2, <2>4
<1>3. ASSUME NEW p \in Participants, NEW where \in {"out", "waiting"},
             receiver' = [receiver EXCEPT ![p] = where],
             where = "waiting" => inbox[p] = <<>> /\ ~closed,
             UNCHANGED <<inbox, delivered, sent, bytes, closed, accepted>>
      PROVE  MailboxTypeOK' /\ EveryMessageArrivesOnce' /\ NoLostWakeup'
  BY <1>3 DEF MailboxTypeOK, EveryMessageArrivesOnce, NoLostWakeup
<1>4. \A p \in Participants : inbox[p] # <<>> => 1 \in 1..Len(inbox[p])
  BY DEF MailboxTypeOK
<1>5. ASSUME NEW p \in Participants, NEW n \in 1..ReadLimit, Drain(p, n)
      PROVE  MailboxTypeOK' /\ EveryMessageArrivesOnce' /\ NoLostWakeup'
  <2>1. n \in 1..Len(inbox[p])
    BY <1>5 DEF Drain, MailboxTypeOK
  <2>2. QED
    BY <1>2, <1>5, <2>1 DEF Drain
<1>6. ASSUME NEW p \in Participants, Receive(p)
      PROVE  MailboxTypeOK' /\ EveryMessageArrivesOnce' /\ NoLostWakeup'
  BY <1>2, <1>3, <1>4, <1>6 DEF Receive
<1>7. ASSUME NEW p \in Participants, WakeUp(p) \/ TimeOut(p)
      PROVE  MailboxTypeOK' /\ EveryMessageArrivesOnce' /\ NoLostWakeup'
  BY <1>2, <1>3, <1>4, <1>7 DEF WakeUp, TimeOut
<1>8. CASE Close
  <2>1. MailboxTypeOK' /\ NoLostWakeup'
    BY <1>8 DEF Close, MailboxTypeOK, NoLostWakeup
  <2>2. ASSUME NEW p \in Participants
        PROVE  Len(delivered[p]) <= Len(accepted[p]) /\ delivered[p] = SubSeq(accepted[p], 1, Len(delivered[p]))
    <3>1. delivered[p] \in Seq(Messages) /\ inbox[p] \in Seq(Messages) /\ accepted[p] = delivered[p] \o inbox[p]
      BY <1>8 DEF Close, MailboxTypeOK, EveryMessageArrivesOnce
    <3>2. QED
      BY <3>1, PrefixOfConcat
  <2>3. EveryMessageArrivesOnce'
    BY <1>8, <2>2 DEF Close, EveryMessageArrivesOnce
  <2>4. QED
    BY <2>1, <2>3
<1>9. CASE UNCHANGED mailboxVars
  BY <1>9 DEF mailboxVars, MailboxTypeOK, EveryMessageArrivesOnce, NoLostWakeup
<1>10. QED
  BY <1>1, <1>5, <1>6, <1>7, <1>8, <1>9 DEF MailboxNext

(* Whatever the capacity, the readers and the timeouts: a message that was  *)
(* accepted arrives once and in order, and nobody sleeps beside one.       *)
THEOREM MailboxInvariant == MailboxSpec => []MailboxIInv
<1>1. MailboxInit => MailboxIInv
  <2> SUFFICES ASSUME MailboxInit PROVE MailboxIInv
    OBVIOUS
  <2>1. MailboxTypeOK
    <3>1. 0 \in 0..MaxMessages /\ 0 \in 0..MaxBytes /\ <<>> \in Seq(Messages)
      BY MailboxAssumption
    <3>2. QED
      BY <3>1 DEF MailboxInit, MailboxTypeOK
  <2>2. <<>> \o <<>> = <<>>
    OBVIOUS
  <2>3. ChannelIsReliable
    BY <2>2 DEF MailboxInit, ChannelIsReliable, EveryMessageArrivesOnce, NoLostWakeup
  <2>4. QED
    BY <2>1, <2>3 DEF MailboxIInv
<1>2. QED
  BY <1>1, MailboxStep, PTL DEF MailboxSpec

(* Every message is taken by its recipient at most once and in the order    *)
(* sent, and no wake-up is lost, for any tasks (Mailbox.send, receive).     *)
THEOREM MessagesArriveOnce == MailboxSpec => []ChannelIsReliable
  BY MailboxInvariant, PTL DEF MailboxIInv
=============================================================================
