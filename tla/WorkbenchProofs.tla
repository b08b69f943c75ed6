----------------------------- MODULE WorkbenchProofs ----------------------------
(***************************************************************************)
(* Proofs about JobLifecycle, for any set of jobs and any number of stop   *)
(* requests and kills: the workspace has one owner, a shutdown that        *)
(* answers "stopped" leaves no job at work, a settled status is final and  *)
(* an undo discards nothing but its own run; and about EngineSharing, for  *)
(* any number of apps and engine processes.                                *)
(***************************************************************************)
EXTENDS JobLifecycle, EngineSharing, TLAPS

(* The threads that may still touch the workspace or the job's record.    *)
AtWork(j) == ThreadAlive(j) /\ point[j] # "popped"

(* A registered job is in _jobs until its thread leaves it, so a shutdown   *)
(* finds it there.                                                         *)
Registered == \A j \in Jobs : point[j] \in {"registered", "queued"} \/ AtWork(j) => j \in jobs

(* drain_jobs sets _stopping first; from its snapshot on it waits for every *)
(* job at work, because no thread starts any more.                         *)
Draining ==
    /\ drain # "idle" => stopping
    /\ signal.by = "drain" => drain = "signalling"
    /\ drain \in {"signalling", "joining", "late", "stopped"} =>
            \A j \in Jobs : AtWork(j) => j \in waits

IInv == JobsTypeOK /\ RunsHoldTheLock /\ Registered /\ Draining /\ ShutdownDrains

-----------------------------------------------------------------------------
(* A checkpoint holds a state of the workspace.                            *)
LEMMA ContentType ==
    JobsTypeOK => \A i \in DOMAIN gitCheckpoints : gitCheckpoints[i].content \subseteq Jobs \cup {OPERATOR}
<1> SUFFICES ASSUME JobsTypeOK, NEW i \in DOMAIN gitCheckpoints
             PROVE  gitCheckpoints[i].content \subseteq Jobs \cup {OPERATOR}
  OBVIOUS
<1> DEFINE Entry == [job : Jobs, content : SUBSET (Jobs \cup {OPERATOR})]
<1>1. gitCheckpoints \in Seq(Entry)
  BY DEF JobsTypeOK
<1> HIDE DEF Entry
<1>2. gitCheckpoints[i] \in Entry
  BY <1>1
<1>3. QED
  BY <1>2 DEF Entry

(* Every step keeps the types.                                             *)
LEMMA TypeStep == JobsTypeOK /\ [JobsNext]_jobVars => JobsTypeOK'
<1> SUFFICES ASSUME JobsTypeOK, [JobsNext]_jobVars PROVE JobsTypeOK'
  OBVIOUS
<1> USE JobAssumption DEF JobsTypeOK, Step, Idle, engine, thread, onDisk, Starting, Publishing, Closing, Unsettled, Settled, Endings
<1>1. ASSUME NEW j \in Jobs, Submit(j) PROVE JobsTypeOK'
  BY <1>1 DEF Submit
<1>2. ASSUME NEW j \in Jobs, AcquireJobLock(j) PROVE JobsTypeOK'
  BY <1>2 DEF AcquireJobLock
<1>3. ASSUME NEW j \in Jobs, Register(j) PROVE JobsTypeOK'
  BY <1>3 DEF Register
<1>4. ASSUME NEW j \in Jobs, SaveQueued(j) PROVE JobsTypeOK'
  BY <1>4 DEF SaveQueued
<1>5. ASSUME NEW j \in Jobs, StartThread(j) PROVE JobsTypeOK'
  BY <1>5 DEF StartThread
<1>6. ASSUME NEW j \in Jobs, Publish(j) PROVE JobsTypeOK'
  BY <1>6 DEF Publish
<1>7. ASSUME NEW j \in Jobs, CheckCancel(j) PROVE JobsTypeOK'
  BY <1>7 DEF CheckCancel, BeginRun
<1>8. ASSUME NEW j \in Jobs, TakeCheckpoint(j) PROVE JobsTypeOK'
  BY <1>8 DEF TakeCheckpoint, CheckpointsOf
<1>9. ASSUME NEW j \in Jobs, Edit(j) PROVE JobsTypeOK'
  BY <1>9 DEF Edit
<1>10. ASSUME NEW j \in Jobs, BodyEnds(j) PROVE JobsTypeOK'
  <2>1. \A i \in DOMAIN gitCheckpoints : gitCheckpoints[i].content \subseteq Jobs \cup {OPERATOR}
    BY ContentType
  <2>2. gitCheckpoints # <<>> => Len(gitCheckpoints) \in DOMAIN gitCheckpoints
    OBVIOUS
  <2>3. work' \subseteq Jobs \cup {OPERATOR}
    BY <1>10, <2>1, <2>2 DEF BodyEnds, AutoRollback, IsNewest
  <2>4. outcome' \in [Jobs -> Endings \cup {"cancelled"}]
    BY <1>10 DEF BodyEnds
  <2>5. QED
    BY <1>10, <2>3, <2>4 DEF BodyEnds
<1>11. ASSUME NEW j \in Jobs, BodyCancelled(j) PROVE JobsTypeOK'
  BY <1>11 DEF BodyCancelled
<1>12. ASSUME NEW j \in Jobs, CleanupEnds(j) PROVE JobsTypeOK'
  BY <1>12 DEF CleanupEnds
<1>13. ASSUME NEW j \in Jobs, CleanupAwaited(j) PROVE JobsTypeOK'
  BY <1>13 DEF CleanupAwaited, AfterCleanup
<1>14. ASSUME NEW j \in Jobs, CleanupInterrupted(j) PROVE JobsTypeOK'
  BY <1>14 DEF CleanupInterrupted
<1>15. ASSUME NEW j \in Jobs, CleanupAbandoned(j) PROVE JobsTypeOK'
  BY <1>15 DEF CleanupAbandoned
<1>16. ASSUME NEW j \in Jobs, FinalSave(j) PROVE JobsTypeOK'
  BY <1>16 DEF FinalSave, CheckpointsOf
<1>17. ASSUME NEW j \in Jobs, Unregister(j) PROVE JobsTypeOK'
  BY <1>17 DEF Unregister
<1>18. ASSUME NEW j \in Jobs, ReleaseJobLock(j) PROVE JobsTypeOK'
  BY <1>18 DEF ReleaseJobLock
<1>19. ASSUME NEW j \in Jobs, RequestCancel(j) PROVE JobsTypeOK'
  BY <1>19 DEF RequestCancel, NoSignal
<1>20. ASSUME NEW j \in Jobs, CheckUndo(j) PROVE JobsTypeOK'
  BY <1>20 DEF CheckUndo, MayUndo, IsNewest
<1>21. CASE BeginDrain
  BY <1>21 DEF BeginDrain
<1>22. CASE DrainSignal
  BY <1>22 DEF DrainSignal, NoSignal
<1>23. CASE Deliver
  BY <1>23 DEF Deliver, Reachable, NoSignal
<1>24. CASE DrainReturns
  BY <1>24 DEF DrainReturns, ThreadAlive
<1>25. CASE Undo
  <2>1. PICK i \in DOMAIN gitCheckpoints : work' = gitCheckpoints[i].content
    BY <1>25 DEF Undo, CheckpointsOf
  <2>2. gitCheckpoints[i].content \subseteq Jobs \cup {OPERATOR}
    BY ContentType
  <2>3. QED
    BY <1>25, <2>1, <2>2 DEF Undo
<1>26. CASE OperatorEdits
  BY <1>26 DEF OperatorEdits
<1>27. CASE RestartServer
  <2>1. record' \in [Jobs -> Unsettled \cup Settled \cup {"none"}]
    BY <1>27 DEF RestartServer, Reconcile
  <2>2. point' \in [Jobs -> {"new", "over"}]
    BY <1>27 DEF RestartServer
  <2>3. outcome' \in [Jobs -> {"failed"}] /\ closing' \in [Jobs -> {"none"}]
    BY <1>27 DEF RestartServer
  <2>4. restarts' \in 0 .. MaxRestarts
    BY <1>27 DEF RestartServer
  <2>5. QED
    BY <1>27, <2>1, <2>2, <2>3, <2>4 DEF RestartServer, NoSignal
<1>28. CASE UNCHANGED jobVars
  BY <1>28 DEF jobVars
<1>29. QED
  BY <1>1, <1>2, <1>3, <1>4, <1>5, <1>6, <1>7, <1>8, <1>9, <1>10, <1>11, <1>12, <1>13, <1>14, <1>15, <1>16, <1>17, <1>18, <1>19, <1>20, <1>21, <1>22, <1>23, <1>24, <1>25, <1>26, <1>27, <1>28 DEF JobsNext, Life, StartJob, Thread, WorkOn, FinishJob

-----------------------------------------------------------------------------
(* What a step has to keep beside the types.                               *)
OwnershipKept == RunsHoldTheLock' /\ Registered' /\ Draining' /\ ShutdownDrains'

(* Every step keeps the rest of the invariant.                             *)
LEMMA OwnerStep == IInv /\ JobsTypeOK' /\ [JobsNext]_jobVars => OwnershipKept
<1> SUFFICES ASSUME IInv, JobsTypeOK', [JobsNext]_jobVars PROVE OwnershipKept
  OBVIOUS
<1> USE JobAssumption DEF IInv, JobsTypeOK, OwnershipKept, RunsHoldTheLock, Registered, Draining, ShutdownDrains, AtWork, ThreadAlive,
        Step, Idle, NoSignal, engine, thread, onDisk, Starting, Publishing, Closing
<1>1. ASSUME NEW j \in Jobs, Submit(j) PROVE OwnershipKept
  BY <1>1 DEF Submit
<1>2. ASSUME NEW j \in Jobs, AcquireJobLock(j) PROVE OwnershipKept
  BY <1>2 DEF AcquireJobLock
<1>3. ASSUME NEW j \in Jobs, Register(j) PROVE OwnershipKept
  <2>1. CASE stopping
    <3>1. /\ point[j] = "locked" /\ point' = [point EXCEPT ![j] = "refused"]
          /\ jobLock' = NONE /\ jobs' = jobs
      BY <1>3, <2>1 DEF Register
    <3>2. RunsHoldTheLock' /\ Registered'
      BY <1>3, <3>1 DEF Register
    <3>3. Draining' /\ ShutdownDrains'
      BY <1>3, <3>1 DEF Register
    <3>4. QED
      BY <3>2, <3>3
  <2>2. CASE ~stopping
    <3>1. /\ point[j] = "locked" /\ point' = [point EXCEPT ![j] = "registered"]
          /\ jobLock' = jobLock /\ jobs' = jobs \cup {j}
      BY <1>3, <2>2 DEF Register
    <3>2. RunsHoldTheLock' /\ Registered'
      BY <1>3, <3>1 DEF Register
    <3>3. Draining' /\ ShutdownDrains'
      BY <1>3, <2>2, <3>1 DEF Register
    <3>4. QED
      BY <3>2, <3>3
  <2>3. QED
    BY <2>1, <2>2
<1>4. ASSUME NEW j \in Jobs, SaveQueued(j) PROVE OwnershipKept
  BY <1>4 DEF SaveQueued
<1>5. ASSUME NEW j \in Jobs, StartThread(j) PROVE OwnershipKept
  <2>1. \A k \in Jobs \ {j} : point'[k] = point[k]
    BY <1>5 DEF StartThread
  <2>2. CASE stopping
    <3>1. point'[j] = "refused"
      BY <1>5, <2>2 DEF StartThread
    <3>2. \A k \in Jobs \ {j} : ~(point[k] \in Starting \/ ThreadAlive(k))
      BY <1>5 DEF StartThread
    <3>3. undo = NONE
      BY <1>5 DEF StartThread
    <3>4. RunsHoldTheLock'
      BY <1>5, <2>1, <3>1, <3>2, <3>3 DEF StartThread
    <3>5. Registered'
      BY <1>5, <2>1, <2>2, <3>1 DEF StartThread
    <3>6. Draining'
      BY <1>5, <2>1, <3>1 DEF StartThread
    <3>7. ShutdownDrains'
      BY <1>5, <2>1, <3>1 DEF StartThread
    <3> HIDE DEF RunsHoldTheLock, Registered, Draining, ShutdownDrains
    <3>8. QED
      BY <3>4, <3>5, <3>6, <3>7 DEF OwnershipKept
  <2>3. CASE ~stopping
    <3>1. point'[j] = "started" /\ point[j] = "queued" /\ UNCHANGED engine
      BY <1>5, <2>3 DEF StartThread
    <3>2. RunsHoldTheLock' /\ Registered'
      BY <2>1, <3>1
    <3>3. Draining' /\ ShutdownDrains'
      BY <2>1, <3>1, <2>3
    <3>4. QED
      BY <3>2, <3>3
  <2>4. QED
    BY <2>2, <2>3
<1>6. ASSUME NEW j \in Jobs, Publish(j) PROVE OwnershipKept
  BY <1>6 DEF Publish
<1>7. ASSUME NEW j \in Jobs, CheckCancel(j) PROVE OwnershipKept
  BY <1>7 DEF CheckCancel, BeginRun
<1>8. ASSUME NEW j \in Jobs, TakeCheckpoint(j) PROVE OwnershipKept
  BY <1>8 DEF TakeCheckpoint, CheckpointsOf
<1>9. ASSUME NEW j \in Jobs, Edit(j) PROVE OwnershipKept
  BY <1>9 DEF Edit
<1>10. ASSUME NEW j \in Jobs, BodyEnds(j) PROVE OwnershipKept
  BY <1>10 DEF BodyEnds, AutoRollback, IsNewest
<1>11. ASSUME NEW j \in Jobs, BodyCancelled(j) PROVE OwnershipKept
  BY <1>11 DEF BodyCancelled
<1>12. ASSUME NEW j \in Jobs, CleanupEnds(j) PROVE OwnershipKept
  BY <1>12 DEF CleanupEnds
<1>13. ASSUME NEW j \in Jobs, CleanupAwaited(j) PROVE OwnershipKept
  BY <1>13 DEF CleanupAwaited, AfterCleanup
<1>14. ASSUME NEW j \in Jobs, CleanupInterrupted(j) PROVE OwnershipKept
  BY <1>14 DEF CleanupInterrupted
<1>15. ASSUME NEW j \in Jobs, CleanupAbandoned(j) PROVE OwnershipKept
  BY <1>15 DEF CleanupAbandoned
<1>16. ASSUME NEW j \in Jobs, FinalSave(j) PROVE OwnershipKept
  BY <1>16 DEF FinalSave, CheckpointsOf
<1>17. ASSUME NEW j \in Jobs, Unregister(j) PROVE OwnershipKept
  BY <1>17 DEF Unregister
<1>18. ASSUME NEW j \in Jobs, ReleaseJobLock(j) PROVE OwnershipKept
  BY <1>18 DEF ReleaseJobLock
<1>19. ASSUME NEW j \in Jobs, RequestCancel(j) PROVE OwnershipKept
  BY <1>19 DEF RequestCancel
<1>20. ASSUME NEW j \in Jobs, CheckUndo(j) PROVE OwnershipKept
  BY <1>20 DEF CheckUndo, MayUndo, IsNewest
<1>21. CASE BeginDrain
  BY <1>21 DEF BeginDrain
<1>22. CASE DrainSignal
  BY <1>22 DEF DrainSignal
<1>23. CASE Deliver
  BY <1>23 DEF Deliver, Reachable
<1>24. CASE DrainReturns
  BY <1>24 DEF DrainReturns
<1>25. CASE Undo
  BY <1>25 DEF Undo, CheckpointsOf
<1>26. CASE OperatorEdits
  BY <1>26 DEF OperatorEdits
<1>27. CASE RestartServer
  BY <1>27 DEF RestartServer, Reconcile
<1>28. CASE UNCHANGED jobVars
  BY <1>28 DEF jobVars
<1>29. QED
  BY <1>1, <1>2, <1>3, <1>4, <1>5, <1>6, <1>7, <1>8, <1>9, <1>10, <1>11, <1>12, <1>13, <1>14, <1>15, <1>16, <1>17, <1>18, <1>19, <1>20, <1>21, <1>22, <1>23, <1>24, <1>25, <1>26, <1>27, <1>28 DEF JobsNext, Life, StartJob, Thread, WorkOn, FinishJob

-----------------------------------------------------------------------------
(* The inductive invariant holds in every state.                           *)
THEOREM Invariant == JobsSpec => []IInv
<1>1. JobsInit => IInv
  <2> SUFFICES ASSUME JobsInit PROVE IInv
    OBVIOUS
  <2> USE JobAssumption DEF JobsInit
  <2>1. gitCheckpoints \in Seq([job : Jobs, content : SUBSET (Jobs \cup {OPERATOR})])
    OBVIOUS
  <2>2. cancels \in 0 .. MaxCancels /\ restarts \in 0 .. MaxRestarts
    OBVIOUS
  <2>3. JobsTypeOK
    BY <2>1, <2>2 DEF JobsTypeOK, NoSignal, Starting, Publishing, Closing, Unsettled, Settled, Endings
  <2>4. RunsHoldTheLock /\ Registered /\ Draining /\ ShutdownDrains
    BY DEF RunsHoldTheLock, Registered, Draining, ShutdownDrains, AtWork, ThreadAlive,
       NoSignal, Starting, Publishing, Closing
  <2>5. QED
    BY <2>3, <2>4 DEF IInv
<1>2. IInv /\ [JobsNext]_jobVars => IInv'
  BY TypeStep, OwnerStep DEF IInv, OwnershipKept
<1>3. QED
  BY <1>1, <1>2, PTL DEF JobsSpec

(* Types, for every set of jobs.                                           *)
THEOREM TypeCorrect == JobsSpec => []JobsTypeOK
  BY Invariant, PTL DEF IInv

(* One task or undo owns the workspace, whatever is refused, cancelled or   *)
(* killed in between.                                                      *)
THEOREM OneOwner == JobsSpec => []RunsHoldTheLock
  BY Invariant, PTL DEF IInv

(* A shutdown that answers "stopped" has stopped every job for good.        *)
THEOREM ShutdownIsComplete == JobsSpec => []ShutdownDrains
  BY Invariant, PTL DEF IInv
-----------------------------------------------------------------------------
BeforeRun == {"new", "prepared", "started", "published"} \cup Starting
InRun == Closing \cup {"running", "finishing"}

(* A record is settled by the last thing the job's thread writes, or by     *)
(* the reconciliation that finds the record of a thread that is gone.      *)
StatusIsLast ==
    \A j \in Jobs :
        /\ point[j] \in {"new", "prepared", "locked", "registered"} => record[j] = "none"
        /\ record[j] \in Settled => point[j] \in {"settled", "popped", "over"}

(* No step but the start and the end of a job's thread moves it.           *)
LEMMA StatusStep == IInv /\ StatusIsLast /\ [JobsNext]_jobVars =>
    StatusIsLast' /\ \A j \in Jobs : record[j] \in Settled => record'[j] = record[j]
<1> SUFFICES ASSUME JobsTypeOK, StatusIsLast, [JobsNext]_jobVars
             PROVE  StatusIsLast' /\ \A j \in Jobs : record[j] \in Settled => record'[j] = record[j]
  BY DEF IInv
<1> USE DEF StatusIsLast, JobsTypeOK, Step
<1>1. CASE UNCHANGED <<record, point>>
  BY <1>1
<1> USE DEF engine, thread, onDisk
<1>2. ASSUME NEW j \in Jobs, Submit(j) \/ AcquireJobLock(j) \/ Register(j) \/ StartThread(j)
      PROVE  StatusIsLast' /\ \A k \in Jobs : record[k] \in Settled => record'[k] = record[k]
  BY <1>2 DEF Submit, AcquireJobLock, Register, StartThread
<1>3. ASSUME NEW j \in Jobs, SaveQueued(j)
      PROVE  StatusIsLast' /\ \A k \in Jobs : record[k] \in Settled => record'[k] = record[k]
  BY <1>3 DEF SaveQueued, Settled, Endings
<1>4. ASSUME NEW j \in Jobs, CheckCancel(j)
      PROVE  StatusIsLast' /\ \A k \in Jobs : record[k] \in Settled => record'[k] = record[k]
  BY <1>4 DEF CheckCancel, BeginRun, Settled, Endings
<1>5. ASSUME NEW j \in Jobs, FinalSave(j)
      PROVE  StatusIsLast' /\ \A k \in Jobs : record[k] \in Settled => record'[k] = record[k]
  BY <1>5 DEF FinalSave
<1>6. ASSUME NEW j \in Jobs, Publish(j) \/ BodyEnds(j) \/ BodyCancelled(j) \/ CleanupAwaited(j)
      PROVE  StatusIsLast' /\ \A k \in Jobs : record[k] \in Settled => record'[k] = record[k]
  BY <1>6 DEF Publish, BodyEnds, BodyCancelled, CleanupAwaited, Closing
<1>7. ASSUME NEW j \in Jobs, CleanupInterrupted(j) \/ CleanupAbandoned(j) \/ Unregister(j) \/ ReleaseJobLock(j)
      PROVE  StatusIsLast' /\ \A k \in Jobs : record[k] \in Settled => record'[k] = record[k]
  BY <1>7 DEF CleanupInterrupted, CleanupAbandoned, Unregister, ReleaseJobLock
<1>8. ASSUME NEW j \in Jobs, TakeCheckpoint(j) \/ Edit(j) \/ CleanupEnds(j) \/ RequestCancel(j) \/ CheckUndo(j)
      PROVE  StatusIsLast' /\ \A k \in Jobs : record[k] \in Settled => record'[k] = record[k]
  BY <1>1, <1>8 DEF TakeCheckpoint, Edit, CleanupEnds, RequestCancel, CheckUndo
<1>9. ASSUME BeginDrain \/ DrainSignal \/ Deliver \/ DrainReturns \/ Undo \/ OperatorEdits \/ UNCHANGED jobVars
       PROVE  StatusIsLast' /\ \A k \in Jobs : record[k] \in Settled => record'[k] = record[k]
  BY <1>1, <1>9 DEF BeginDrain, DrainSignal, Deliver, DrainReturns, Undo, OperatorEdits, jobVars
<1>10. CASE RestartServer
  <2>1. \A j \in Jobs : /\ point'[j] = IF point[j] = "new" THEN "new" ELSE "over"
                        /\ record'[j] = IF record[j] \in Unsettled THEN "interrupted" ELSE record[j]
    BY <1>10 DEF RestartServer, Reconcile
  <2>2. Unsettled \cap Settled = {} /\ "none" \notin Unsettled \cup Settled
    BY DEF Unsettled, Settled, Endings
  <2>3. QED
    BY <2>1, <2>2
<1>11. QED
  BY <1>2, <1>3, <1>4, <1>5, <1>6, <1>7, <1>8, <1>9, <1>10 DEF JobsNext, Life, StartJob, Thread, WorkOn, FinishJob

(* A status that ends a task stays, whatever is submitted, stopped, killed  *)
(* or restarted afterwards.                                                *)
THEOREM StatusIsFinal == JobsSpec => SettledStatusIsFinal
<1>1. JobsInit => StatusIsLast
  BY DEF JobsInit, StatusIsLast, Settled, Endings
<1>2. IInv /\ StatusIsLast /\ [JobsNext]_jobVars => StatusIsLast'
  BY StatusStep
<1>3. IInv /\ StatusIsLast /\ [JobsNext]_jobVars =>
        [\A j \in Jobs : record[j] \in Settled => record'[j] = record[j]]_jobVars
  BY StatusStep
<1>4. QED
  BY <1>1, <1>2, <1>3, Invariant, PTL DEF JobsSpec, SettledStatusIsFinal
-----------------------------------------------------------------------------
(* Between its checkpoint and the fingerprint that an undo compares, only  *)
(* a run itself (and the user) changes the workspace.                      *)
OnlyTheRunEdits ==
    /\ \A j \in Jobs : point[j] \in BeforeRun => CheckpointsOf(j) = {}
    /\ \A j \in Jobs : point[j] \in BeforeRun \cup InRun => finger[j] = {NONE}
    /\ \A j \in Jobs : \A i, k \in CheckpointsOf(j) : i = k
    /\ \A j \in Jobs : \A i \in CheckpointsOf(j) :
        /\ point[j] \in InRun => work \cap Jobs \subseteq gitCheckpoints[i].content \cup {j}
        /\ finger[j] \cap Jobs \subseteq gitCheckpoints[i].content \cup {j}
    /\ undo # NONE => work \cap Jobs = finger[undo] \cap Jobs

DiscardsOnlyItsOwn ==
    \A j \in Jobs : j \in work /\ j \notin work' => undo = j \/ point[j] = "running"

LEMMA CheckpointIndexes == JobsTypeOK => \A j \in Jobs : CheckpointsOf(j) \subseteq 1..Len(gitCheckpoints)
  BY DEF JobsTypeOK, CheckpointsOf

(* A step that leaves the checkpoints, the fingerprints and the workspace   *)
(* alone and starts no run.                                                *)
LEMMA EditsKept ==
    ASSUME OnlyTheRunEdits, UNCHANGED <<finger, gitCheckpoints, undo>>, work' \cap Jobs = work \cap Jobs,
           \A j \in Jobs : /\ point'[j] \in BeforeRun => point[j] \in BeforeRun
                           /\ point'[j] \in InRun => point[j] \in BeforeRun \cup InRun
    PROVE  OnlyTheRunEdits' /\ DiscardsOnlyItsOwn
<1> USE DEF OnlyTheRunEdits
<1>1. \A j \in Jobs : CheckpointsOf(j)' = CheckpointsOf(j)
  BY DEF CheckpointsOf
<1>2. DiscardsOnlyItsOwn
  BY DEF DiscardsOnlyItsOwn
<1>3. \A j \in Jobs : point'[j] \in BeforeRun => CheckpointsOf(j)' = {}
  BY <1>1
<1>4. \A j \in Jobs : point'[j] \in BeforeRun \cup InRun => finger'[j] = {NONE}
  OBVIOUS
<1>5. ASSUME NEW j \in Jobs, NEW i \in CheckpointsOf(j)'
      PROVE  /\ point'[j] \in InRun => work' \cap Jobs \subseteq gitCheckpoints'[i].content \cup {j}
             /\ finger'[j] \cap Jobs \subseteq gitCheckpoints'[i].content \cup {j}
  BY <1>1, <1>5
<1>6. \A j \in Jobs : \A i, k \in CheckpointsOf(j)' : i = k
  BY <1>1
<1>7. QED
  BY <1>2, <1>3, <1>4, <1>5, <1>6

(* Every step keeps it, and discards edits as a run or its undo may.       *)
LEMMA EditStep == IInv /\ OnlyTheRunEdits /\ [JobsNext]_jobVars => OnlyTheRunEdits' /\ DiscardsOnlyItsOwn
<1> SUFFICES ASSUME JobsTypeOK, RunsHoldTheLock, OnlyTheRunEdits, [JobsNext]_jobVars
             PROVE  OnlyTheRunEdits' /\ DiscardsOnlyItsOwn
  BY DEF IInv
<1> USE JobAssumption DEF BeforeRun, InRun, Starting, Publishing, Closing, Step, engine, thread, onDisk
<1>1. point \in [Jobs -> {"new", "prepared", "refused", "over", "running", "finishing", "settled", "popped"}
                      \cup Starting \cup Publishing \cup Closing]
  BY DEF JobsTypeOK
<1>2. ASSUME NEW j \in Jobs, Submit(j) \/ AcquireJobLock(j) \/ Register(j) \/ SaveQueued(j) \/ StartThread(j) \/ Publish(j)
      PROVE  OnlyTheRunEdits' /\ DiscardsOnlyItsOwn
  BY <1>1, <1>2, EditsKept DEF Submit, AcquireJobLock, Register, SaveQueued, StartThread, Publish
<1>3. ASSUME NEW j \in Jobs, CheckCancel(j) PROVE OnlyTheRunEdits' /\ DiscardsOnlyItsOwn
  BY <1>1, <1>3, EditsKept DEF CheckCancel, BeginRun
<1>4. ASSUME NEW j \in Jobs, BodyCancelled(j) \/ CleanupEnds(j) \/ CleanupAwaited(j) \/ CleanupInterrupted(j) \/ CleanupAbandoned(j)
      PROVE  OnlyTheRunEdits' /\ DiscardsOnlyItsOwn
  BY <1>1, <1>4, EditsKept DEF BodyCancelled, CleanupEnds, CleanupAwaited, CleanupInterrupted, CleanupAbandoned
<1>5. ASSUME NEW j \in Jobs, Unregister(j) \/ ReleaseJobLock(j) \/ RequestCancel(j)
      PROVE  OnlyTheRunEdits' /\ DiscardsOnlyItsOwn
  BY <1>1, <1>5, EditsKept DEF Unregister, ReleaseJobLock, RequestCancel
<1>6. ASSUME BeginDrain \/ DrainSignal \/ Deliver \/ DrainReturns \/ UNCHANGED jobVars
      PROVE  OnlyTheRunEdits' /\ DiscardsOnlyItsOwn
  BY <1>6, EditsKept DEF BeginDrain, DrainSignal, Deliver, DrainReturns, jobVars
<1>7. CASE OperatorEdits
  <2>1. work' \cap Jobs = work \cap Jobs
    BY <1>7 DEF OperatorEdits
  <2>2. QED
    BY <1>7, <2>1, EditsKept DEF OperatorEdits
<1>8. ASSUME NEW j \in Jobs, CheckUndo(j) PROVE OnlyTheRunEdits' /\ DiscardsOnlyItsOwn
  <2>1. undo' = j /\ finger[j] = work /\ UNCHANGED <<point, finger, gitCheckpoints, work>>
    BY <1>8 DEF CheckUndo, MayUndo
  <2>2. \A k \in Jobs : CheckpointsOf(k)' = CheckpointsOf(k)
    BY <2>1 DEF CheckpointsOf
  <2>3. QED
    BY <2>1, <2>2 DEF OnlyTheRunEdits, DiscardsOnlyItsOwn
<1>9. ASSUME NEW j \in Jobs, point[j] = "running"
      PROVE  jobLock = j /\ undo = NONE /\ \A k \in Jobs \ {j} : point[k] \notin InRun
  BY <1>9 DEF RunsHoldTheLock, ThreadAlive
<1>10. ASSUME NEW j \in Jobs, TakeCheckpoint(j) PROVE OnlyTheRunEdits' /\ DiscardsOnlyItsOwn
  <2>1. /\ point[j] = "running" /\ CheckpointsOf(j) = {} /\ UNCHANGED <<point, finger, work, undo>>
        /\ gitCheckpoints' = Append(gitCheckpoints, [job |-> j, content |-> work])
    BY <1>10 DEF TakeCheckpoint
  <2>2. /\ DOMAIN gitCheckpoints' = 1..(Len(gitCheckpoints) + 1) /\ DOMAIN gitCheckpoints = 1..Len(gitCheckpoints)
        /\ gitCheckpoints'[Len(gitCheckpoints) + 1] = [job |-> j, content |-> work]
        /\ \A i \in 1..Len(gitCheckpoints) : gitCheckpoints'[i] = gitCheckpoints[i]
        /\ Len(gitCheckpoints) \in Nat
    BY <2>1 DEF JobsTypeOK
  <2>3. CheckpointsOf(j)' = {Len(gitCheckpoints) + 1}
    BY <2>1, <2>2 DEF CheckpointsOf
  <2>4. \A k \in Jobs \ {j} : CheckpointsOf(k)' = CheckpointsOf(k)
    BY <2>1, <2>2 DEF CheckpointsOf
  <2>5. \A k \in Jobs \ {j} : \A i \in CheckpointsOf(k) : gitCheckpoints'[i] = gitCheckpoints[i]
    BY <2>2, CheckpointIndexes
  <2>6. finger[j] \cap Jobs = {}
    BY <2>1 DEF OnlyTheRunEdits
  <2>7. undo = NONE
    BY <1>9, <2>1
  <2>8. \A k \in Jobs : point'[k] \in BeforeRun => CheckpointsOf(k)' = {}
    BY <2>1, <2>3, <2>4 DEF OnlyTheRunEdits
  <2>9. \A k \in Jobs : point'[k] \in BeforeRun \cup InRun => finger'[k] = {NONE}
    BY <2>1 DEF OnlyTheRunEdits
  <2>10. \A k \in Jobs : \A i \in CheckpointsOf(k)' :
        /\ point'[k] \in InRun => work' \cap Jobs \subseteq gitCheckpoints'[i].content \cup {k}
        /\ finger'[k] \cap Jobs \subseteq gitCheckpoints'[i].content \cup {k}
    <3>1. SUFFICES ASSUME NEW k \in Jobs, NEW i \in CheckpointsOf(k)'
                   PROVE  /\ point'[k] \in InRun => work' \cap Jobs \subseteq gitCheckpoints'[i].content \cup {k}
                          /\ finger'[k] \cap Jobs \subseteq gitCheckpoints'[i].content \cup {k}
      OBVIOUS
    <3>2. CASE k = j
      <4>1. gitCheckpoints'[i].content = work
        BY <2>2, <2>3, <3>1, <3>2
      <4>2. QED
        BY <2>1, <2>6, <3>2, <4>1
    <3>3. CASE k # j
      <4>1. i \in CheckpointsOf(k) /\ gitCheckpoints'[i] = gitCheckpoints[i]
        BY <2>4, <2>5, <3>1, <3>3
      <4>2. QED
        BY <2>1, <4>1 DEF OnlyTheRunEdits
    <3>4. QED
      BY <3>2, <3>3
  <2>11. \A k \in Jobs : \A i, l \in CheckpointsOf(k)' : i = l
    BY <2>3, <2>4 DEF OnlyTheRunEdits
  <2>12. QED
    BY <2>1, <2>7, <2>8, <2>9, <2>10, <2>11 DEF OnlyTheRunEdits, DiscardsOnlyItsOwn
<1>11. ASSUME NEW j \in Jobs, Edit(j) PROVE OnlyTheRunEdits' /\ DiscardsOnlyItsOwn
  <2>1. point[j] = "running" /\ work' = work \cup {j} /\ UNCHANGED <<point, finger, gitCheckpoints, undo>>
    BY <1>11 DEF Edit
  <2>2. undo = NONE /\ \A k \in Jobs \ {j} : point[k] \notin InRun
    BY <1>9, <2>1
  <2>3. \A k \in Jobs : CheckpointsOf(k)' = CheckpointsOf(k)
    BY <2>1 DEF CheckpointsOf
  <2>4. QED
    BY <2>1, <2>2, <2>3 DEF OnlyTheRunEdits, DiscardsOnlyItsOwn
<1>12. ASSUME NEW j \in Jobs, BodyEnds(j) PROVE OnlyTheRunEdits' /\ DiscardsOnlyItsOwn
  <2>1. point[j] = "running" /\ point' = [point EXCEPT ![j] = "closing"] /\ UNCHANGED <<finger, gitCheckpoints, undo>>
    BY <1>12 DEF BodyEnds
  <2>2. undo = NONE /\ \A k \in Jobs \ {j} : point[k] \notin InRun
    BY <1>9, <2>1
  <2>3. \A k \in Jobs : CheckpointsOf(k)' = CheckpointsOf(k)
    BY <2>1 DEF CheckpointsOf
  <2>4. work' = work \/ \E i \in CheckpointsOf(j) : work' = gitCheckpoints[i].content
    BY <1>12 DEF BodyEnds, AutoRollback, IsNewest, CheckpointsOf, JobsTypeOK
  <2>5. point'[j] = "closing" /\ \A k \in Jobs \ {j} : point'[k] = point[k]
    BY <1>1, <2>1
  <2>6. \A k \in Jobs : point'[k] \in BeforeRun => CheckpointsOf(k)' = {}
    BY <2>3, <2>5 DEF OnlyTheRunEdits
  <2>7. \A k \in Jobs : point'[k] \in BeforeRun \cup InRun => finger'[k] = {NONE}
    BY <2>1, <2>5 DEF OnlyTheRunEdits
  <2>8. \A i \in CheckpointsOf(j) : work' \cap Jobs \subseteq gitCheckpoints[i].content \cup {j}
    <3>1. CASE work' = work
      BY <2>1, <3>1 DEF OnlyTheRunEdits
    <3>2. CASE \E i \in CheckpointsOf(j) : work' = gitCheckpoints[i].content
      BY <3>2 DEF OnlyTheRunEdits
    <3>3. QED
      BY <2>4, <3>1, <3>2
  <2>9. \A k \in Jobs : \A i \in CheckpointsOf(k)' :
        /\ point'[k] \in InRun => work' \cap Jobs \subseteq gitCheckpoints'[i].content \cup {k}
        /\ finger'[k] \cap Jobs \subseteq gitCheckpoints'[i].content \cup {k}
    <3>1. SUFFICES ASSUME NEW k \in Jobs, NEW i \in CheckpointsOf(k)
                   PROVE  /\ point'[k] \in InRun => work' \cap Jobs \subseteq gitCheckpoints[i].content \cup {k}
                          /\ finger[k] \cap Jobs \subseteq gitCheckpoints[i].content \cup {k}
      BY <2>1, <2>3
    <3>2. finger[k] \cap Jobs \subseteq gitCheckpoints[i].content \cup {k}
      BY DEF OnlyTheRunEdits
    <3>3. CASE k = j
      BY <2>8, <3>2, <3>3
    <3>4. CASE k # j
      BY <2>2, <2>5, <3>2, <3>4
    <3>5. QED
      BY <3>3, <3>4
  <2>10. DiscardsOnlyItsOwn
    <3>1. \A k \in Jobs : k \in work /\ k \notin work' => k = j
      BY <2>1, <2>4 DEF OnlyTheRunEdits
    <3>2. QED
      BY <2>1, <3>1 DEF DiscardsOnlyItsOwn
  <2>11. QED
    BY <2>1, <2>2, <2>3, <2>6, <2>7, <2>9, <2>10 DEF OnlyTheRunEdits
<1>13. ASSUME NEW j \in Jobs, FinalSave(j) PROVE OnlyTheRunEdits' /\ DiscardsOnlyItsOwn
  <2>1. /\ point[j] = "finishing" /\ point' = [point EXCEPT ![j] = "settled"] /\ UNCHANGED <<work, gitCheckpoints, undo>>
        /\ finger' = [finger EXCEPT ![j] = IF CheckpointsOf(j) = {} THEN {NONE} ELSE work]
    BY <1>13 DEF FinalSave
  <2>2. undo = NONE
    BY <2>1 DEF RunsHoldTheLock, ThreadAlive
  <2>3. \A k \in Jobs : CheckpointsOf(k)' = CheckpointsOf(k)
    BY <2>1 DEF CheckpointsOf
  <2>4. finger \in [Jobs -> SUBSET (Jobs \cup {OPERATOR, NONE})]
    BY DEF JobsTypeOK
  <2>5. QED
    BY <1>1, <2>1, <2>2, <2>3, <2>4 DEF OnlyTheRunEdits, DiscardsOnlyItsOwn
<1>14. CASE Undo
  <2>1. PICK i \in CheckpointsOf(undo) : work' = gitCheckpoints[i].content
    BY <1>14 DEF Undo
  <2>2. undo \in Jobs /\ jobLock = "undo" /\ undo' = NONE /\ UNCHANGED <<point, finger, gitCheckpoints>>
    BY <1>14 DEF Undo, JobsTypeOK, RunsHoldTheLock
  <2>3. \A k \in Jobs : point[k] \notin InRun
    BY <2>2 DEF RunsHoldTheLock, ThreadAlive
  <2>4. \A k \in Jobs : CheckpointsOf(k)' = CheckpointsOf(k)
    BY <2>2 DEF CheckpointsOf
  <2>5. work \cap Jobs \subseteq work' \cup {undo}
    BY <2>1, <2>2 DEF OnlyTheRunEdits
  <2>6. QED
    BY <2>2, <2>3, <2>4, <2>5 DEF OnlyTheRunEdits, DiscardsOnlyItsOwn
<1>15. CASE RestartServer
  <2>1. /\ \A j \in Jobs : point'[j] = IF point[j] = "new" THEN "new" ELSE "over"
        /\ undo' = NONE /\ UNCHANGED <<finger, gitCheckpoints, work>>
    BY <1>15 DEF RestartServer
  <2>2. \A k \in Jobs : CheckpointsOf(k)' = CheckpointsOf(k)
    BY <2>1 DEF CheckpointsOf
  <2>3. QED
    BY <2>1, <2>2 DEF OnlyTheRunEdits, DiscardsOnlyItsOwn
<1>16. QED
  BY <1>2, <1>3, <1>4, <1>5, <1>6, <1>7, <1>8, <1>10, <1>11, <1>12, <1>13, <1>14, <1>15
     DEF JobsNext, Life, StartJob, Thread, WorkOn, FinishJob

(* Neither an undo nor an automatic rollback ever discards the edits of     *)
(* another task, in whatever order tasks run, fail and are undone.         *)
THEOREM UndoIsExact == JobsSpec => UndoDiscardsOnlyItsOwnRun
<1>1. JobsInit => OnlyTheRunEdits
  BY JobAssumption DEF JobsInit, OnlyTheRunEdits, CheckpointsOf, BeforeRun, InRun
<1>2. IInv /\ OnlyTheRunEdits /\ [JobsNext]_jobVars => OnlyTheRunEdits'
  BY EditStep
<1>3. IInv /\ OnlyTheRunEdits /\ [JobsNext]_jobVars =>
        [\A j \in Jobs : j \in work /\ j \notin work' => undo = j \/ point[j] = "running"]_jobVars
  BY EditStep DEF DiscardsOnlyItsOwn
<1>4. QED
  BY <1>1, <1>2, <1>3, Invariant, PTL DEF JobsSpec, UndoDiscardsOnlyItsOwnRun
-----------------------------------------------------------------------------
(* The engines that share a workspace.                                     *)

Holding == {"leased", "recorded", "serving", "draining", "closed", "leaving"}

Published == {"recorded", "serving", "draining", "closed"}

(* The lease is what keeps two engines from publishing over one another.   *)
OneHolder ==
    /\ \A e \in Engines : process[e] \in Holding => lease = e
    /\ \A e \in Engines : process[e] \in Published => descriptor = e

(* An app that looks for an engine has none, and the one that it waits for *)
(* is its own.  Whoever clears `child` leaves no engine of the app behind. *)
EngineOfItsApp ==
    /\ \A e \in Engines : EngineRuns(e) => spawner[e] \in Apps /\ child[spawner[e]] = e
    /\ \A a \in Apps : child[a] # 0 => process[child[a]] # "none" /\ spawner[child[a]] = a
    /\ \A a \in Apps : at[a] \in {"new", "reading", "checking", "dropped"} => child[a] = 0
    /\ \A a \in Apps : at[a] = "waiting" /\ child[a] # 0 => found[a] = child[a]

SIInv == SharingTypeOK /\ OneHolder /\ EngineOfItsApp /\ OwnersStopTheirEngines

LEMMA SharingInitially == SharingInit => SIInv
<1> SUFFICES ASSUME SharingInit PROVE SIInv
  OBVIOUS
<1> USE SharingAssumption DEF SharingInit, Apps, Engines
<1>1. SharingTypeOK
  BY DEF SharingTypeOK
<1>2. \A e \in Engines : ~EngineRuns(e) /\ process[e] = "none"
  BY DEF EngineRuns
<1>3. OneHolder /\ EngineOfItsApp
  BY <1>2 DEF OneHolder, Holding, Published, EngineOfItsApp
<1>4. QED
  BY <1>1, <1>2, <1>3 DEF SIInv, OwnersStopTheirEngines

LEMMA SharingTypeStep == SharingTypeOK /\ [SharingNext]_sharingVars => SharingTypeOK'
<1> SUFFICES ASSUME SharingTypeOK, [SharingNext]_sharingVars PROVE SharingTypeOK'
  OBVIOUS
<1> USE SharingAssumption DEF SharingTypeOK, processVars, appVars, Proceed, Go, Vanish
<1>1. Engines \subseteq 0..MaxEngines /\ 0 \in 0..MaxEngines
  BY DEF Engines
<1>2. ASSUME NEW e \in Engines,
             TakeLease(e) \/ LeaseIsBusy(e) \/ FailStart(e) \/ PublishConnection(e) \/ Serve(e)
                \/ CloseSocket(e) \/ LeaveWorkspace(e),
             UNCHANGED <<appVars, deaths>>
      PROVE  SharingTypeOK'
  BY <1>1, <1>2 DEF TakeLease, LeaseIsBusy, FailStart, PublishConnection, Serve, CloseSocket, LeaveWorkspace
<1>3. ASSUME NEW e \in Engines, Die(e), UNCHANGED appVars PROVE SharingTypeOK'
  BY <1>1, <1>3 DEF Die
<1>4. CASE ClearStaleDescriptor /\ UNCHANGED <<appVars, deaths>>
  BY <1>1, <1>4 DEF ClearStaleDescriptor
<1>5. ASSUME NEW a \in Apps, NothingFound(a), UNCHANGED deaths PROVE SharingTypeOK'
  <2>1. CASE Spawn(a)
    BY <1>1, <1>5, <2>1 DEF Spawn
  <2>2. CASE /\ attempts[a] \in 1..(MaxAttempts - 1) /\ attempts' = [attempts EXCEPT ![a] = @ + 1]
             /\ at' = [at EXCEPT ![a] = "reading"] /\ UNCHANGED <<processVars, found, child, kept, stop>>
    BY <1>5, <2>2
  <2>3. CASE /\ at' = [at EXCEPT ![a] = "failed"] /\ kept' = kept \ {a}
             /\ UNCHANGED <<processVars, found, child, attempts, stop>>
    BY <1>5, <2>3
  <2>4. QED
    BY <1>5, <2>1, <2>2, <2>3 DEF NothingFound
<1>6. ASSUME NEW a \in Apps, Open(a) \/ ReadDescriptor(a) \/ CheckIdentity(a) \/ Ready(a), UNCHANGED deaths
      PROVE  SharingTypeOK'
  <2>1. CASE Open(a)
    BY <1>1, <1>6, <2>1 DEF Open
  <2>2. CASE ReadDescriptor(a)
    BY <1>5, <1>6, <2>2 DEF ReadDescriptor
  <2>3. CASE CheckIdentity(a)
    BY <1>5, <1>6, <2>3 DEF CheckIdentity
  <2>4. CASE Ready(a)
    BY <1>6, <2>4 DEF Ready
  <2>5. QED
    BY <1>6, <2>1, <2>2, <2>3, <2>4
<1>7. ASSUME NEW a \in Apps, ChildFails(a) \/ ChildExits(a) \/ ResumeEngine(a), UNCHANGED deaths
      PROVE  SharingTypeOK'
  <2>1. 0 \in 0..MaxAttempts /\ 1 \in 0..MaxAttempts
    OBVIOUS
  <2>2. CASE ChildFails(a)
    BY <1>1, <1>7, <2>1, <2>2 DEF ChildFails
  <2>3. CASE ChildExits(a)
    BY <1>1, <1>7, <2>3 DEF ChildExits
  <2>4. CASE ResumeEngine(a)
    BY <1>7, <2>1, <2>4 DEF ResumeEngine
  <2>5. QED
    BY <1>7, <2>2, <2>3, <2>4
<1>8. ASSUME NEW a \in Apps, StartTimesOut(a), UNCHANGED deaths PROVE SharingTypeOK'
  BY <1>1, <1>8 DEF StartTimesOut
<1>9. ASSUME NEW a \in Apps, Close(a), UNCHANGED deaths PROVE SharingTypeOK'
  BY <1>9 DEF Close
<1>10. ASSUME NEW a \in Apps, ShutDown(a), UNCHANGED deaths PROVE SharingTypeOK'
  BY <1>10 DEF ShutDown
<1>11. ASSUME NEW a \in Apps, StopEnds(a), UNCHANGED deaths PROVE SharingTypeOK'
  BY <1>1, <1>11 DEF StopEnds
<1>12. ASSUME NEW a \in Editors, NEW m \in Managers, OpenShared(a, m), UNCHANGED deaths PROVE SharingTypeOK'
  BY <1>12 DEF OpenShared, Apps
<1>13. CASE UNCHANGED sharingVars
  BY <1>13 DEF sharingVars
<1>14. QED
  BY <1>2, <1>3, <1>4, <1>6, <1>7, <1>8, <1>9, <1>10, <1>11, <1>12, <1>13 DEF SharingNext, EngineStep, AppStep

(* A process that ends, or has not begun, holds nothing.                   *)
LEMMA VanishKeepsOneHolder ==
    ASSUME SharingTypeOK, OneHolder, NEW e, Vanish(e) PROVE OneHolder'
  BY DEF SharingTypeOK, OneHolder, Holding, Published, Vanish

LEMMA OneHolderStep == SharingTypeOK /\ OneHolder /\ [SharingNext]_sharingVars => OneHolder'
<1> SUFFICES ASSUME SharingTypeOK, OneHolder, [SharingNext]_sharingVars PROVE OneHolder'
  OBVIOUS
<1> USE DEF Holding, Published, processVars, Proceed
<1>1. process \in [Engines -> {"none", "starting", "leased", "recorded", "serving",
                               "draining", "closed", "leaving", "gone"}]
  BY DEF SharingTypeOK
<1>2. ASSUME UNCHANGED processVars PROVE OneHolder'
  BY <1>2 DEF OneHolder
<1>3. ASSUME NEW e \in Engines, TakeLease(e) PROVE OneHolder'
  <2>1. \A d \in Engines : process[d] \notin Holding
    BY <1>3 DEF OneHolder, TakeLease, Engines
  <2>2. QED
    BY <1>1, <1>3, <2>1 DEF OneHolder, TakeLease
<1>4. ASSUME NEW e \in Engines, PublishConnection(e) \/ Serve(e) \/ CloseSocket(e) PROVE OneHolder'
  BY <1>1, <1>4 DEF OneHolder, PublishConnection, Serve, CloseSocket
<1>5. ASSUME NEW e \in Engines, LeaseIsBusy(e) \/ FailStart(e) \/ Die(e) PROVE OneHolder'
  BY <1>5, VanishKeepsOneHolder DEF LeaseIsBusy, FailStart, Die
<1>6. ASSUME NEW e \in Engines, LeaveWorkspace(e) PROVE OneHolder'
  BY <1>1, <1>6, VanishKeepsOneHolder DEF OneHolder, LeaveWorkspace
<1>7. CASE ClearStaleDescriptor
  BY <1>1, <1>7 DEF OneHolder, ClearStaleDescriptor
<1>8. ASSUME NEW a \in Apps, NothingFound(a) PROVE OneHolder'
  <2>1. CASE Spawn(a)
    BY <1>1, <2>1 DEF OneHolder, Spawn
  <2>2. QED
    BY <1>2, <1>8, <2>1 DEF NothingFound
<1>9. ASSUME NEW a \in Apps, AppStep(a) PROVE OneHolder'
  <2>1. CASE ShutDown(a)
    BY <1>1, <2>1 DEF OneHolder, ShutDown
  <2>2. CASE StartTimesOut(a) \/ StopEnds(a)
    BY <1>2, <2>2, VanishKeepsOneHolder DEF StartTimesOut, StopEnds
  <2>3. CASE ReadDescriptor(a) \/ CheckIdentity(a)
    BY <1>2, <1>8, <2>3 DEF ReadDescriptor, CheckIdentity
  <2>4. CASE Open(a) \/ Ready(a) \/ ChildFails(a) \/ ChildExits(a) \/ ResumeEngine(a) \/ Close(a)
    BY <1>2, <2>4 DEF Open, Ready, ChildFails, ChildExits, ResumeEngine, Close
  <2>5. QED
    BY <1>9, <2>1, <2>2, <2>3, <2>4 DEF AppStep
<1>10. ASSUME NEW a, NEW m, OpenShared(a, m) PROVE OneHolder'
  BY <1>2, <1>10 DEF OpenShared
<1>11. CASE UNCHANGED sharingVars
  BY <1>2, <1>11 DEF sharingVars
<1>12. QED
  BY <1>3, <1>4, <1>5, <1>6, <1>7, <1>9, <1>10, <1>11 DEF SharingNext, EngineStep

(* A step of the processes alone, in which none begins to run and none      *)
(* begins to drain, or an app forgets an engine that has ended.             *)
LEMMA OwnersKept ==
    ASSUME SIInv, UNCHANGED <<spawner, at, found, stop, kept, child>>,
           \A e \in Engines : process[e] # "none" => process'[e] # "none",
           \A e \in Engines : EngineRuns(e)' => EngineRuns(e),
           \A e \in Engines : process'[e] \in {"draining", "closed", "leaving"} =>
               process[e] \in {"draining", "closed", "leaving"}
    PROVE  EngineOfItsApp' /\ OwnersStopTheirEngines'
<1> USE SharingAssumption DEF SIInv
<1>1. \A a \in Apps : child[a] # 0 => child[a] \in Engines
  BY DEF SharingTypeOK, Engines
<1>2. EngineOfItsApp'
  BY <1>1 DEF EngineOfItsApp
<1>3. OwnersStopTheirEngines'
  BY DEF OwnersStopTheirEngines
<1>4. QED
  BY <1>2, <1>3

(* An app stops, or loses, the engine that it started.                      *)
LEMMA AppLosesItsEngine ==
    ASSUME SIInv, NEW a \in Apps, child' = [child EXCEPT ![a] = 0], UNCHANGED spawner,
           child[a] # 0 => process'[child[a]] = "gone",
           \A e \in Engines : process'[e] \in {process[e], "gone"},
           \A b \in Apps \ {a} : at'[b] = at[b] /\ found'[b] = found[b] /\ stop'[b] = stop[b]
    PROVE  EngineOfItsApp' /\ OwnersStopTheirEngines'
<1> USE SharingAssumption DEF SIInv
<1>1. \A b \in Apps : child[b] # 0 => child[b] \in Engines
  BY DEF SharingTypeOK, Engines
<1>2. child'[a] = 0 /\ \A b \in Apps \ {a} : child'[b] = child[b]
  BY DEF SharingTypeOK
<1>3. \A e \in Engines : EngineRuns(e)' => EngineRuns(e) /\ process'[e] = process[e]
  BY DEF EngineRuns
<1>4. \A e \in Engines : EngineRuns(e)' => spawner[e] \in Apps \ {a} /\ child[spawner[e]] = e
  <2>1. SUFFICES ASSUME NEW e \in Engines, EngineRuns(e)' PROVE spawner[e] \in Apps \ {a} /\ child[spawner[e]] = e
    OBVIOUS
  <2>2. spawner[e] \in Apps /\ child[spawner[e]] = e
    BY <1>3, <2>1 DEF EngineOfItsApp
  <2>3. e # 0
    BY DEF Engines
  <2>4. process'[e] # "gone"
    BY <2>1 DEF EngineRuns
  <2>5. QED
    BY <2>1, <2>2, <2>3, <2>4
<1>5. EngineOfItsApp'
  <2>1. \A e \in Engines : EngineRuns(e)' => spawner'[e] \in Apps /\ child'[spawner'[e]] = e
    BY <1>2, <1>4
  <2>2. \A b \in Apps : child'[b] # 0 => process'[child'[b]] # "none" /\ spawner'[child'[b]] = b
    BY <1>1, <1>2 DEF EngineOfItsApp
  <2>3. \A b \in Apps : at'[b] \in {"new", "reading", "checking", "dropped"} => child'[b] = 0
    BY <1>2 DEF EngineOfItsApp
  <2>4. \A b \in Apps : at'[b] = "waiting" /\ child'[b] # 0 => found'[b] = child'[b]
    BY <1>2 DEF EngineOfItsApp
  <2>5. QED
    BY <2>1, <2>2, <2>3, <2>4 DEF EngineOfItsApp
<1>6. OwnersStopTheirEngines'
  <2>1. \A e \in Engines : process'[e] \in {"draining", "closed", "leaving"} => EngineRuns(e)'
    BY DEF EngineRuns
  <2>2. \A e \in Engines : process'[e] \in {"draining", "closed", "leaving"} => stop'[spawner'[e]] = "asked"
    BY <1>3, <1>4, <2>1 DEF OwnersStopTheirEngines
  <2>3. QED
    BY <1>5, <2>2 DEF EngineOfItsApp, OwnersStopTheirEngines
<1>7. QED
  BY <1>5, <1>6

(* A step of an app that does not touch the engines: where it has one of   *)
(* its own, a stop() of it goes on.                                         *)
LEMMA AppMoves ==
    ASSUME SIInv, NEW a \in Apps, UNCHANGED <<process, spawner, child>>,
           \A b \in Apps \ {a} : at'[b] = at[b] /\ found'[b] = found[b] /\ stop'[b] = stop[b],
           at'[a] \in {"new", "reading", "checking", "dropped"} => child[a] = 0,
           at'[a] = "waiting" /\ child[a] # 0 => at[a] = "waiting" /\ found'[a] = found[a],
           child[a] # 0 => stop'[a] \in {stop[a], "asked"}
    PROVE  EngineOfItsApp' /\ OwnersStopTheirEngines'
<1> USE DEF SIInv
<1>1. \A e \in Engines : EngineRuns(e)' = EngineRuns(e)
  BY DEF EngineRuns
<1>2. EngineOfItsApp'
  BY <1>1 DEF EngineOfItsApp
<1>3. OwnersStopTheirEngines'
  <2>1. ASSUME NEW e \in Engines, process[e] \in {"draining", "closed", "leaving"}
        PROVE  stop'[spawner[e]] = "asked"
    <3>1. spawner[e] \in Apps /\ child[spawner[e]] = e /\ e # 0 /\ stop[spawner[e]] = "asked"
      BY <2>1 DEF EngineOfItsApp, OwnersStopTheirEngines, EngineRuns, Engines
    <3>2. QED
      BY <3>1
  <2>2. QED
    BY <1>2, <2>1 DEF EngineOfItsApp, OwnersStopTheirEngines
<1>4. QED
  BY <1>2, <1>3

LEMMA OwnersStep == SIInv /\ [SharingNext]_sharingVars => EngineOfItsApp' /\ OwnersStopTheirEngines'
<1> SUFFICES ASSUME SIInv, [SharingNext]_sharingVars PROVE EngineOfItsApp' /\ OwnersStopTheirEngines'
  OBVIOUS
<1> USE SharingAssumption DEF processVars, appVars, Proceed, Go
<1>1. /\ process \in [Engines -> {"none", "starting", "leased", "recorded", "serving",
                                  "draining", "closed", "leaving", "gone"}]
      /\ at \in [Apps -> {"new", "reading", "checking", "waiting", "connected", "dropped", "failed"}]
      /\ found \in [Apps -> 0..MaxEngines] /\ child \in [Apps -> 0..MaxEngines]
      /\ stop \in [Apps -> {"no", "asked", "done"}] /\ spawner \in [Engines -> Apps \union {NOAPP}]
  BY DEF SIInv, SharingTypeOK
<1>2. ASSUME UNCHANGED <<process, spawner, appVars>> PROVE EngineOfItsApp' /\ OwnersStopTheirEngines'
  BY <1>2, OwnersKept DEF EngineRuns
<1>3. ASSUME NEW e \in Engines, TakeLease(e) \/ PublishConnection(e) \/ Serve(e) \/ CloseSocket(e), UNCHANGED appVars
      PROVE  EngineOfItsApp' /\ OwnersStopTheirEngines'
  BY <1>1, <1>3, OwnersKept DEF TakeLease, PublishConnection, Serve, CloseSocket, EngineRuns
<1>4. ASSUME NEW e \in Engines, LeaseIsBusy(e) \/ FailStart(e) \/ LeaveWorkspace(e) \/ Die(e), UNCHANGED appVars
      PROVE  EngineOfItsApp' /\ OwnersStopTheirEngines'
  BY <1>1, <1>4, OwnersKept DEF LeaseIsBusy, FailStart, LeaveWorkspace, Die, Vanish, EngineRuns
<1>5. ASSUME NEW a \in Apps, at[a] \in {"reading", "checking"}, NothingFound(a)
      PROVE  EngineOfItsApp' /\ OwnersStopTheirEngines'
  <2>1. child[a] = 0
    BY <1>5 DEF SIInv, EngineOfItsApp
  <2>2. CASE Spawn(a)
    <3>1. PICK e \in Engines :
            /\ process[e] = "none" /\ process' = [process EXCEPT ![e] = "starting"]
            /\ spawner' = [spawner EXCEPT ![e] = a] /\ at' = [at EXCEPT ![a] = "waiting"]
            /\ found' = [found EXCEPT ![a] = e] /\ child' = [child EXCEPT ![a] = e]
            /\ UNCHANGED <<kept, stop>>
      BY <2>2 DEF Spawn
    <3>2. /\ process'[e] = "starting" /\ spawner'[e] = a /\ child'[a] = e /\ found'[a] = e /\ at'[a] = "waiting"
          /\ \A d \in Engines \ {e} : process'[d] = process[d] /\ spawner'[d] = spawner[d]
          /\ \A b \in Apps \ {a} : child'[b] = child[b] /\ found'[b] = found[b] /\ at'[b] = at[b]
      BY <1>1, <3>1
    <3>3. \A d \in Engines \ {e} : EngineRuns(d)' =>
            EngineRuns(d) /\ spawner[d] \in Apps \ {a} /\ child[spawner[d]] = d
      BY <2>1, <3>2 DEF SIInv, EngineOfItsApp, EngineRuns, Engines
    <3>4. \A b \in Apps \ {a} : child[b] # 0 => child[b] \in Engines \ {e}
      BY <1>1, <3>1 DEF SIInv, EngineOfItsApp, Engines
    <3>5. EngineOfItsApp'
      BY <3>1, <3>2, <3>3, <3>4 DEF SIInv, EngineOfItsApp
    <3>6. OwnersStopTheirEngines'
      <4>1. \A d \in Engines \ {e} :
              process'[d] \in {"draining", "closed", "leaving"} => stop'[spawner'[d]] = "asked"
        BY <3>1, <3>2 DEF SIInv, OwnersStopTheirEngines
      <4>2. QED
        BY <3>2, <3>5, <4>1 DEF EngineOfItsApp, OwnersStopTheirEngines
    <3>7. QED
      BY <3>5, <3>6
  <2>3. CASE /\ at' = [at EXCEPT ![a] = "reading"]
             /\ UNCHANGED <<processVars, found, child, kept, stop>>
    BY <1>1, <2>1, <2>3, AppMoves
  <2>4. CASE /\ at' = [at EXCEPT ![a] = "failed"] /\ kept' = kept \ {a}
             /\ UNCHANGED <<processVars, found, child, attempts, stop>>
    BY <1>1, <2>1, <2>4, AppMoves
  <2>5. QED
    BY <1>5, <2>2, <2>3, <2>4 DEF NothingFound
<1>6. ASSUME NEW a \in Apps, Open(a) PROVE EngineOfItsApp' /\ OwnersStopTheirEngines'
  BY <1>1, <1>6, AppMoves DEF Open
<1>7. ASSUME NEW a \in Apps, ReadDescriptor(a) \/ CheckIdentity(a)
      PROVE  EngineOfItsApp' /\ OwnersStopTheirEngines'
  <2>1. child[a] = 0
    BY <1>7 DEF SIInv, EngineOfItsApp, ReadDescriptor, CheckIdentity
  <2>2. CASE at[a] \in {"reading", "checking"} /\ NothingFound(a)
    BY <1>5, <2>2
  <2>3. CASE /\ at' = [at EXCEPT ![a] = "checking"] /\ found' = [found EXCEPT ![a] = descriptor]
             /\ UNCHANGED <<processVars, child, attempts, kept, stop>>
    BY <1>1, <2>1, <2>3, AppMoves
  <2>4. CASE /\ at' = [at EXCEPT ![a] = "connected"]
             /\ UNCHANGED <<processVars, found, child, attempts, kept, stop>>
    BY <1>1, <2>1, <2>4, AppMoves
  <2>5. QED
    BY <1>7, <2>2, <2>3, <2>4 DEF ReadDescriptor, CheckIdentity
<1>8. ASSUME NEW a \in Apps, Ready(a) \/ ResumeEngine(a) PROVE EngineOfItsApp' /\ OwnersStopTheirEngines'
  <2>1. at[a] = "dropped" => child[a] = 0
    BY DEF SIInv, EngineOfItsApp
  <2>2. QED
    BY <1>1, <1>8, <2>1, AppMoves DEF Ready, ResumeEngine
<1>9. ASSUME NEW a \in Apps, Close(a) PROVE EngineOfItsApp' /\ OwnersStopTheirEngines'
  <2>1. at[a] \in {"new", "reading", "checking", "dropped"} => child[a] = 0
    BY DEF SIInv, EngineOfItsApp
  <2>2. QED
    BY <1>1, <1>9, <2>1, AppMoves DEF Close
<1>10. ASSUME NEW a \in Apps, ChildFails(a) \/ ChildExits(a) PROVE EngineOfItsApp' /\ OwnersStopTheirEngines'
  <2>1. at[a] = "waiting" /\ child[a] # 0 => found[a] = child[a]
    BY DEF SIInv, EngineOfItsApp
  <2>2. /\ child' = [child EXCEPT ![a] = 0] /\ UNCHANGED <<process, spawner, found, stop>>
        /\ \A b \in Apps \ {a} : at'[b] = at[b]
        /\ child[a] # 0 => process[child[a]] = "gone"
    BY <1>1, <1>10, <2>1 DEF ChildFails, ChildExits
  <2>3. QED
    BY <2>2, AppLosesItsEngine
<1>11. ASSUME NEW a \in Apps, StartTimesOut(a) \/ StopEnds(a) PROVE EngineOfItsApp' /\ OwnersStopTheirEngines'
  <2>1. at[a] = "waiting" /\ child[a] # 0 => found[a] = child[a]
    BY DEF SIInv, EngineOfItsApp
  <2>2. child[a] # 0 => child[a] \in Engines /\ process[child[a]] # "none"
    BY <1>1 DEF SIInv, EngineOfItsApp, Engines
  <2>3. /\ child' = [child EXCEPT ![a] = 0] /\ UNCHANGED <<spawner, found>>
        /\ \A b \in Apps \ {a} : at'[b] = at[b] /\ stop'[b] = stop[b]
    BY <1>1, <1>11 DEF StartTimesOut, StopEnds, Vanish
  <2>4. CASE StopEnds(a)
    <3>1. /\ child[a] # 0 => process'[child[a]] = "gone"
          /\ \A e \in Engines : process'[e] \in {process[e], "gone"}
      BY <1>1, <2>2, <2>4 DEF StopEnds, EngineRuns, Vanish
    <3>2. QED
      BY <2>3, <3>1, AppLosesItsEngine
  <2>5. CASE StartTimesOut(a)
    <3>1. process' = [process EXCEPT ![found[a]] = "gone"] /\ (child[a] # 0 => found[a] = child[a])
      BY <2>1, <2>5 DEF StartTimesOut, Vanish
    <3>2. /\ child[a] # 0 => process'[child[a]] = "gone"
          /\ \A e \in Engines : process'[e] \in {process[e], "gone"}
      BY <1>1, <2>2, <3>1
    <3>3. QED
      BY <2>3, <3>2, AppLosesItsEngine
  <2>6. QED
    BY <1>11, <2>4, <2>5
<1>12. ASSUME NEW a \in Apps, ShutDown(a) PROVE EngineOfItsApp' /\ OwnersStopTheirEngines'
  <2>1. /\ stop[a] = "asked" /\ child[a] \in Engines /\ spawner[child[a]] = a /\ process[child[a]] = "serving"
        /\ process' = [process EXCEPT ![child[a]] = "draining"] /\ UNCHANGED <<spawner, appVars>>
    BY <1>1, <1>12 DEF SIInv, EngineOfItsApp, ShutDown, Engines
  <2>2. \A e \in Engines : EngineRuns(e)' = EngineRuns(e)
    BY <1>1, <2>1 DEF EngineRuns
  <2>3. EngineOfItsApp'
    BY <1>1, <2>1, <2>2 DEF SIInv, EngineOfItsApp
  <2>4. OwnersStopTheirEngines'
    BY <1>1, <2>1, <2>2 DEF SIInv, OwnersStopTheirEngines
  <2>5. QED
    BY <2>3, <2>4
<1>13. ASSUME NEW a \in Editors, NEW m \in Managers, OpenShared(a, m)
       PROVE  EngineOfItsApp' /\ OwnersStopTheirEngines'
  BY <1>1, <1>13, AppMoves DEF OpenShared, Apps
<1>14. QED
  BY <1>2, <1>3, <1>4, <1>6, <1>7, <1>8, <1>9, <1>10, <1>11, <1>12, <1>13
     DEF SharingNext, EngineStep, AppStep, ClearStaleDescriptor, sharingVars

LEMMA SharingStep == SIInv /\ [SharingNext]_sharingVars => SIInv'
  BY SharingTypeStep, OneHolderStep, OwnersStep DEF SIInv

(* The inductive invariant of apps and engines, their types among it.       *)
THEOREM SharingInvariant == SharingSpec => []SIInv
  BY SharingInitially, SharingStep, PTL DEF SharingSpec

(* An engine that answers is the one in the descriptor, however the engines *)
(* start, fail, stop and die around it, and however many there are.        *)
THEOREM AnAnsweringEngineIsFound == SharingSpec => []EngineIsDiscoverable
<1>1. SIInv => EngineIsDiscoverable
  BY DEF SIInv, OneHolder, Published, EngineIsDiscoverable, Answers
<1>2. QED
  BY <1>1, SharingInvariant, PTL

(* No app stops an engine that another one has started, and none drops the  *)
(* handle of its own while that runs (Sidecar, EngineConnection).           *)
THEOREM EnginesAreStoppedByTheirOwners == SharingSpec => []OwnersStopTheirEngines
<1>1. SIInv => OwnersStopTheirEngines
  BY DEF SIInv
<1>2. QED
  BY <1>1, SharingInvariant, PTL
=============================================================================
