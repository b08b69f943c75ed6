---------------------------- MODULE JobLifecycle ----------------------------
(***************************************************************************)
(* The jobs of the workbench server (workbench.py): a request handler      *)
(* starts a job, its thread runs the coordinator and closes it, while other *)
(* handlers cancel it, shut the engine down or undo a finished task, and   *)
(* the process may be killed and started again at any time.                *)
(*                                                                         *)
(* Abstractions.  The coordinator's run edits the workspace and ends in    *)
(* one of the ways _job_thread tells apart.  The workspace is the set of   *)
(* the runs (and OPERATOR) whose edits it holds.  self.lock is held over   *)
(* two steps only by the handlers that signal a job; `signal` is that      *)
(* critical section.  Undo and rollback of the Git checkpoint, and writing *)
(* a session record, are atomic.  A killed server is restarted at once.    *)
(***************************************************************************)
EXTENDS Naturals, Sequences, FiniteSets

CONSTANTS
    Jobs,         \* the tasks submitted to the server, one session each
    OPERATOR,     \* the user, who edits the workspace beside the server
    NONE,         \* no job
    MaxCancels,   \* bound: how many Stop requests are accepted
    MaxRestarts   \* bound: how often the server process is killed

ASSUME JobAssumption ==
    /\ OPERATOR \notin Jobs /\ NONE \notin Jobs \cup {"undo", "cancel", "drain"}
    /\ "undo" \notin Jobs
    /\ MaxCancels \in Nat /\ MaxRestarts \in Nat

VARIABLES
    stopping,     \* _stopping
    jobLock,      \* the holder of _job_lock: a job, "undo", or NONE
    jobs,         \* _jobs, the registered jobs
    cancel,       \* the jobs whose cancel event is set
    signal,       \* the handler inside self.lock, between event and callback
    drain,        \* where drain_jobs is
    waits,        \* the jobs drain_jobs joins
    undo,         \* the session whose undo passed its checks
    point,           \* where the handler, then the thread, of a job is
    unthrown,      \* the tasks with a cancellation not yet thrown into them
    outcome,      \* status in _job_thread
    closing,      \* the coordinator's cleanup
    record,       \* the saved status of each session
    finger,       \* the saved workspace fingerprint of each session
    work,         \* the workspace
    gitCheckpoints,  \* the Git checkpoints, oldest first
    cancels, restarts

engine == <<stopping, jobLock, jobs, cancel, signal, drain, waits, undo>>
thread == <<point, unthrown, outcome, closing>>
onDisk == <<record, finger, work, gitCheckpoints>>
jobVars == <<engine, thread, onDisk, cancels, restarts>>
-----------------------------------------------------------------------------
Unsettled == {"queued", "running", "cancelling"}

(* "blocked" stands for quota_exhausted too: both only end the run.         *)
Endings == {"completed", "failed", "requires_continuation", "blocked"}

Settled == Endings \cup {"cancelled", "interrupted"}

(* The handler, then the thread, of a job in the order of their steps.      *)
Starting == {"locked", "registered", "queued"}

Publishing == {"started", "published"}

Closing == {"closing", "reclosing"}

ThreadAlive(j) == point[j] \in Publishing \cup Closing \cup {"running", "finishing", "settled", "popped"}

(* loop and task are set, and asyncio.run has not closed the loop.          *)
Reachable(j) == point[j] \in {"published", "running", "finishing"} \cup Closing

CheckpointsOf(j) == {i \in DOMAIN gitCheckpoints : gitCheckpoints[i].job = j}

IsNewest(j) == gitCheckpoints # <<>> /\ gitCheckpoints[Len(gitCheckpoints)].job = j

NoSignal == [by |-> NONE, of |-> {}]

Idle == signal = NoSignal

JobsInit ==
    /\ stopping = FALSE /\ jobLock = NONE /\ jobs = {} /\ cancel = {}
    /\ signal = NoSignal /\ drain = "idle" /\ waits = {} /\ undo = NONE
    /\ point = [j \in Jobs |-> "new"]
    /\ unthrown = {}
    /\ outcome = [j \in Jobs |-> "failed"]
    /\ closing = [j \in Jobs |-> "none"]
    /\ record = [j \in Jobs |-> "none"]
    /\ finger = [j \in Jobs |-> {NONE}]
    /\ work = {} /\ gitCheckpoints = <<>>
    /\ cancels = 0 /\ restarts = 0
-----------------------------------------------------------------------------
(* _start_job, in the thread of the request.                               *)

Step(j, from, to) == point[j] = from /\ point' = [point EXCEPT ![j] = to]

(* The first look at _stopping, then the validation of the request.         *)
Submit(j) ==
    /\ ~stopping
    /\ Step(j, "new", "prepared")
    /\ UNCHANGED <<engine, unthrown, outcome, closing, onDisk, cancels, restarts>>

AcquireJobLock(j) ==
    /\ IF jobLock = NONE
       THEN Step(j, "prepared", "locked") /\ jobLock' = j
       ELSE Step(j, "prepared", "refused") /\ UNCHANGED jobLock
    /\ UNCHANGED <<stopping, jobs, cancel, signal, drain, waits, undo,
                   unthrown, outcome, closing, onDisk, cancels, restarts>>
\* Mutant: the request goes on after it released the lock.
Register_FallsThrough(j) ==
    /\ Idle
    /\ Step(j, "locked", "registered") /\ jobs' = jobs \cup {j}
    /\ jobLock' = IF stopping THEN NONE ELSE jobLock
    /\ UNCHANGED <<stopping, cancel, signal, drain, waits, undo,
                   unthrown, outcome, closing, onDisk, cancels, restarts>>

Register(j) ==
    /\ Idle
    /\ IF stopping
       THEN Step(j, "locked", "refused") /\ jobLock' = NONE /\ UNCHANGED jobs
       ELSE Step(j, "locked", "registered") /\ jobs' = jobs \cup {j} /\ UNCHANGED jobLock
    /\ UNCHANGED <<stopping, cancel, signal, drain, waits, undo,
                   unthrown, outcome, closing, onDisk, cancels, restarts>>

SaveQueued(j) ==
    /\ Step(j, "registered", "queued")
    /\ record' = [record EXCEPT ![j] = "queued"]
    /\ UNCHANGED <<engine, unthrown, outcome, closing, finger, work, gitCheckpoints, cancels, restarts>>

\* Mutant: _stopping is not looked at again before the thread starts.
StartThread_Unchecked(j) ==
    /\ Idle
    /\ Step(j, "queued", "started")
    /\ UNCHANGED <<engine, unthrown, outcome, closing, onDisk, cancels, restarts>>

(* The thread starts under self.lock, or the request fails and is undone.   *)
StartThread(j) ==
    /\ Idle
    /\ IF stopping
       THEN /\ Step(j, "queued", "refused")
            /\ jobs' = jobs \ {j} /\ cancel' = cancel \ {j} /\ jobLock' = NONE
       ELSE Step(j, "queued", "started") /\ UNCHANGED <<jobs, cancel, jobLock>>
    /\ UNCHANGED <<stopping, signal, drain, waits, undo,
                   unthrown, outcome, closing, onDisk, cancels, restarts>>

StartJob(j) ==
    \/ Submit(j) \/ AcquireJobLock(j) \/ Register(j) \/ SaveQueued(j) \/ StartThread(j)
-----------------------------------------------------------------------------
(* _job_thread, up to the end of the coordinator's run.                    *)

Publish(j) ==
    /\ Step(j, "started", "published")
    /\ UNCHANGED <<engine, unthrown, outcome, closing, onDisk, cancels, restarts>>

(* The cancel event is read once, after loop and task are visible.  The     *)
(* coordinator may fail to be built; then there is nothing to close.        *)
BeginRun(j) ==
    \/ /\ j \in cancel
       /\ Step(j, "published", "finishing")
       /\ outcome' = [outcome EXCEPT ![j] = "cancelled"]
       /\ UNCHANGED record
    \/ /\ j \notin cancel
       /\ Step(j, "published", "finishing")
       /\ outcome' = [outcome EXCEPT ![j] = "failed"]
       /\ record' = [record EXCEPT ![j] = "running"]
    \/ /\ j \notin cancel
       /\ Step(j, "published", "running")
       /\ record' = [record EXCEPT ![j] = "running"]
       /\ UNCHANGED outcome
\* Mutant: the run begins without looking at the cancel event.
CheckCancel_Dropped(j) ==
    /\ Step(j, "published", "running")
    /\ record' = [record EXCEPT ![j] = "running"]
    /\ UNCHANGED <<engine, unthrown, outcome, closing, finger, work, gitCheckpoints, cancels, restarts>>

CheckCancel(j) ==
    /\ BeginRun(j)
    /\ UNCHANGED <<engine, unthrown, closing, finger, work, gitCheckpoints, cancels, restarts>>

(* A run takes its checkpoint, if it takes one, before its first edit.      *)
TakeCheckpoint(j) ==
    /\ point[j] = "running" /\ j \notin work /\ CheckpointsOf(j) = {}
    /\ gitCheckpoints' = Append(gitCheckpoints, [job |-> j, content |-> work])
    /\ UNCHANGED <<engine, thread, record, finger, work, cancels, restarts>>

Edit(j) ==
    /\ point[j] = "running" /\ j \notin work
    /\ work' = work \cup {j}
    /\ UNCHANGED <<engine, thread, record, finger, gitCheckpoints, cancels, restarts>>

(* _auto_rollback_failed_run, when it is configured: to the run's own       *)
(* checkpoint, unless a newer one exists or HEAD moved.                     *)
AutoRollback(j) ==
    \/ UNCHANGED work
    \/ IsNewest(j) /\ work' = gitCheckpoints[Len(gitCheckpoints)].content

BodyEnds(j) ==
    /\ j \notin unthrown
    /\ Step(j, "running", "closing")
    /\ \E end \in Endings : outcome' = [outcome EXCEPT ![j] = end]
    /\ IF outcome'[j] = "failed" THEN AutoRollback(j) ELSE UNCHANGED work
    /\ closing' = [closing EXCEPT ![j] = "open"]
    /\ UNCHANGED <<engine, unthrown, record, finger, gitCheckpoints, cancels, restarts>>

BodyCancelled(j) ==
    /\ j \in unthrown
    /\ Step(j, "running", "closing")
    /\ unthrown' = unthrown \ {j}
    /\ outcome' = [outcome EXCEPT ![j] = "cancelled"]
    /\ closing' = [closing EXCEPT ![j] = "open"]
    /\ UNCHANGED <<engine, onDisk, cancels, restarts>>
-----------------------------------------------------------------------------
(* The finally clause of _job_thread.execute, then that of the thread.     *)

(* The cleanup task ends by itself or at its 15 second limit.               *)
CleanupEnds(j) ==
    /\ point[j] \in Closing /\ closing[j] = "open"
    /\ \E end \in {"closed", "failed"} : closing' = [closing EXCEPT ![j] = end]
    /\ UNCHANGED <<engine, point, unthrown, outcome, onDisk, cancels, restarts>>

(* A failed cleanup turns success into failure, and nothing else.           *)
AfterCleanup(j, status) ==
    IF closing[j] = "failed" /\ status \in {"completed", "requires_continuation"}
    THEN "failed" ELSE status

CleanupAwaited(j) ==
    /\ point[j] \in Closing /\ j \notin unthrown /\ closing[j] # "open"
    /\ point' = [point EXCEPT ![j] = "finishing"]
    /\ outcome' = [outcome EXCEPT ![j] = AfterCleanup(j, outcome[j])]
    /\ UNCHANGED <<engine, unthrown, closing, onDisk, cancels, restarts>>

(* Cancelled in the first shield: the second does not wait if the cleanup   *)
(* has ended meanwhile.                                                     *)
CleanupInterrupted(j) ==
    /\ j \in unthrown
    /\ IF closing[j] = "open" THEN Step(j, "closing", "reclosing") ELSE Step(j, "closing", "finishing")
    /\ unthrown' = unthrown \ {j}
    /\ outcome' = [outcome EXCEPT ![j] = "cancelled"]
    /\ UNCHANGED <<engine, closing, onDisk, cancels, restarts>>

(* Cancelled in the second shield: the error leaves the finally clause past *)
(* the final save, and asyncio.run cancels the cleanup.                     *)
CleanupAbandoned(j) ==
    /\ j \in unthrown
    /\ Step(j, "reclosing", "settled")
    /\ unthrown' = unthrown \ {j}
    /\ closing' = [closing EXCEPT ![j] = IF @ = "open" THEN "cancelled" ELSE @]
    /\ outcome' = [outcome EXCEPT ![j] = "failed"]
    /\ UNCHANGED <<engine, onDisk, cancels, restarts>>

(* Only a run with a checkpoint saves a fingerprint to compare on undo.     *)
(* The locals of execute go with it.                                        *)
FinalSave(j) ==
    /\ Step(j, "finishing", "settled")
    /\ unthrown' = unthrown \ {j}
    /\ record' = [record EXCEPT ![j] = outcome[j]]
    /\ finger' = [finger EXCEPT ![j] = IF CheckpointsOf(j) = {} THEN {NONE} ELSE work]
    /\ outcome' = [outcome EXCEPT ![j] = "failed"]
    /\ closing' = [closing EXCEPT ![j] = "none"]
    /\ UNCHANGED <<engine, work, gitCheckpoints, cancels, restarts>>

Unregister(j) ==
    /\ Idle
    /\ Step(j, "settled", "popped")
    /\ jobs' = jobs \ {j} /\ cancel' = cancel \ {j}
    /\ UNCHANGED <<stopping, jobLock, signal, drain, waits, undo,
                   unthrown, outcome, closing, onDisk, cancels, restarts>>

ReleaseJobLock(j) ==
    /\ Step(j, "popped", "over")
    /\ jobLock' = NONE
    /\ UNCHANGED <<stopping, jobs, cancel, signal, drain, waits, undo,
                   unthrown, outcome, closing, onDisk, cancels, restarts>>

WorkOn(j) == TakeCheckpoint(j) \/ Edit(j)

FinishJob(j) ==
    \/ CleanupEnds(j) \/ CleanupAwaited(j) \/ CleanupInterrupted(j) \/ CleanupAbandoned(j)
    \/ FinalSave(j) \/ Unregister(j) \/ ReleaseJobLock(j)
-----------------------------------------------------------------------------
(* Stop requests and shutdown: both set the event, then call task.cancel   *)
(* in the loop of a job that has published it, under self.lock.            *)

RequestCancel(j) ==
    /\ Idle /\ j \in jobs /\ cancels < MaxCancels
    /\ cancel' = cancel \cup {j}
    /\ signal' = [by |-> "cancel", of |-> {j}]
    /\ cancels' = cancels + 1
    /\ UNCHANGED <<stopping, jobLock, jobs, drain, waits, undo, thread, onDisk, restarts>>

BeginDrain ==
    /\ drain = "idle"
    /\ stopping' = TRUE /\ drain' = "stopping"
    /\ UNCHANGED <<jobLock, jobs, cancel, signal, waits, undo, thread, onDisk, cancels, restarts>>
\* Mutant: shutdown signals only the jobs that have a task to cancel.
DrainSignal_TasksOnly ==
    /\ drain = "stopping" /\ Idle
    /\ waits' = jobs /\ cancel' = cancel \cup {j \in jobs : Reachable(j)}
    /\ signal' = [by |-> "drain", of |-> jobs]
    /\ drain' = "signalling"
    /\ UNCHANGED <<stopping, jobLock, jobs, undo, thread, onDisk, cancels, restarts>>

DrainSignal ==
    /\ drain = "stopping" /\ Idle
    /\ waits' = jobs /\ cancel' = cancel \cup jobs
    /\ signal' = [by |-> "drain", of |-> jobs]
    /\ drain' = "signalling"
    /\ UNCHANGED <<stopping, jobLock, jobs, undo, thread, onDisk, cancels, restarts>>

Deliver ==
    /\ ~Idle
    /\ unthrown' = unthrown \cup {j \in signal.of : Reachable(j)}
    /\ drain' = IF signal.by = "drain" THEN "joining" ELSE drain
    /\ signal' = NoSignal
    /\ UNCHANGED <<stopping, jobLock, jobs, cancel, waits, undo,
                   point, outcome, closing, onDisk, cancels, restarts>>

(* The joins end when every thread has, or at the deadline.                 *)
DrainReturns ==
    /\ drain = "joining"
    /\ drain' = IF \E j \in waits : ThreadAlive(j) THEN "late" ELSE "stopped"
    /\ UNCHANGED <<stopping, jobLock, jobs, cancel, signal, waits, undo, thread, onDisk, cancels, restarts>>
-----------------------------------------------------------------------------
(* POST /undo, the user's own edits, and the death of the process.         *)

\* Mutant: the fingerprint is not compared with the workspace.
MayUndo_AnyWorkspace(j) ==
    /\ record[j] \in {"completed", "cancelled", "failed"}
    /\ finger[j] # {NONE}
    /\ IsNewest(j)

(* The refusals release the lock and change nothing.                        *)
MayUndo(j) ==
    /\ record[j] \in {"completed", "cancelled", "failed"}
    /\ finger[j] = work
    /\ IsNewest(j)

CheckUndo(j) ==
    /\ jobLock = NONE /\ MayUndo(j)
    /\ jobLock' = "undo" /\ undo' = j
    /\ UNCHANGED <<stopping, jobs, cancel, signal, drain, waits, thread, onDisk, cancels, restarts>>

Undo ==
    /\ undo # NONE
    /\ \E i \in CheckpointsOf(undo) : work' = gitCheckpoints[i].content
    /\ undo' = NONE /\ jobLock' = NONE
    /\ UNCHANGED <<stopping, jobs, cancel, signal, drain, waits, thread,
                   record, finger, gitCheckpoints, cancels, restarts>>

OperatorEdits ==
    /\ OPERATOR \notin work
    /\ work' = work \cup {OPERATOR}
    /\ UNCHANGED <<engine, thread, record, finger, gitCheckpoints, cancels, restarts>>

\* Mutant: statuses a task may be continued from count as unfinished.
Reconcile_Resumable ==
    [j \in Jobs |-> IF record[j] \in Unsettled \cup {"blocked", "requires_continuation"}
                    THEN "interrupted" ELSE record[j]]

(* reconcile_sessions, when the next process has taken the engine's lease.  *)
Reconcile == [j \in Jobs |-> IF record[j] \in Unsettled THEN "interrupted" ELSE record[j]]

RestartServer ==
    /\ restarts < MaxRestarts
    /\ restarts' = restarts + 1
    /\ stopping' = FALSE /\ jobLock' = NONE /\ jobs' = {} /\ cancel' = {}
    /\ signal' = NoSignal /\ drain' = "idle" /\ waits' = {} /\ undo' = NONE
    /\ point' = [j \in Jobs |-> IF point[j] = "new" THEN "new" ELSE "over"]
    /\ unthrown' = {}
    /\ closing' = [j \in Jobs |-> "none"]
    /\ outcome' = [j \in Jobs |-> "failed"]
    /\ record' = Reconcile
    /\ UNCHANGED <<finger, work, gitCheckpoints, cancels>>
-----------------------------------------------------------------------------
Thread(j) == Publish(j) \/ CheckCancel(j) \/ BodyCancelled(j) \/ FinishJob(j)

(* One life of the server.                                                  *)
Life ==
    \/ \E j \in Jobs : StartJob(j) \/ Thread(j) \/ WorkOn(j) \/ BodyEnds(j) \/ RequestCancel(j) \/ CheckUndo(j)
    \/ BeginDrain \/ DrainSignal \/ Deliver \/ DrainReturns
    \/ Undo \/ OperatorEdits

JobsNext == Life \/ RestartServer

JobsSpec == JobsInit /\ [][JobsNext]_jobVars

(* The threads of the server run, a cancellation is thrown at the next      *)
(* await and a cleanup ends by its limit.  A run may last for ever unless   *)
(* it is cancelled; nobody has to send a request, or to kill the server.    *)
JobsFairness ==
    /\ \A j \in Jobs : WF_jobVars(Thread(j))
    /\ \A j \in Jobs : WF_jobVars(Register(j) \/ SaveQueued(j) \/ StartThread(j))
    /\ WF_jobVars(DrainSignal \/ DrainReturns) /\ WF_jobVars(Deliver) /\ WF_jobVars(Undo)

JobsFairSpec == JobsInit /\ [][Life]_jobVars /\ JobsFairness
-----------------------------------------------------------------------------
JobsTypeOK ==
    /\ stopping \in BOOLEAN /\ jobLock \in Jobs \cup {NONE, "undo"}
    /\ jobs \subseteq Jobs /\ cancel \subseteq Jobs /\ waits \subseteq Jobs
    /\ signal \in [by : {NONE, "cancel", "drain"}, of : SUBSET Jobs]
    /\ drain \in {"idle", "stopping", "signalling", "joining", "late", "stopped"}
    /\ undo \in Jobs \cup {NONE}
    /\ point \in [Jobs -> {"new", "prepared", "refused", "over", "running", "finishing", "settled", "popped"}
                       \cup Starting \cup Publishing \cup Closing]
    /\ unthrown \subseteq Jobs
    /\ outcome \in [Jobs -> Endings \cup {"cancelled"}]
    /\ closing \in [Jobs -> {"none", "open", "closed", "failed", "cancelled"}]
    /\ record \in [Jobs -> Unsettled \cup Settled \cup {"none"}]
    /\ finger \in [Jobs -> SUBSET (Jobs \cup {OPERATOR, NONE})]
    /\ work \subseteq Jobs \cup {OPERATOR}
    /\ gitCheckpoints \in Seq([job : Jobs, content : SUBSET (Jobs \cup {OPERATOR})])
    /\ cancels \in 0 .. MaxCancels /\ restarts \in 0 .. MaxRestarts

(* One task or undo owns the workspace: from the registration of a job to   *)
(* the end of its thread, and from the checks of an undo to its rollback,   *)
(* _job_lock is held by it, whichever refusals and failures come between.   *)
RunsHoldTheLock ==
    /\ \A j \in Jobs : point[j] \in Starting \/ ThreadAlive(j) => jobLock = j
    /\ undo # NONE => jobLock = "undo"

(* When /shutdown answers "stopped", no job is at work, and none starts     *)
(* afterwards out of a request that was already past its first checks.      *)
(* (A thread that left _jobs may still have to release _job_lock.)          *)
ShutdownDrains ==
    drain = "stopped" => \A j \in Jobs : ThreadAlive(j) => point[j] = "popped"

(* A status that ends a task is final: neither the starting handler, nor    *)
(* the job's thread, nor the reconciliation of a restarted server that      *)
(* finds the record overwrites it.                                          *)
SettledStatusIsFinal ==
    [][\A j \in Jobs : record[j] \in Settled => record'[j] = record[j]]_jobVars

(* Undoing a task never discards the edits of another task, and a failed    *)
(* run rolled back automatically discards none but its own.                 *)
UndoDiscardsOnlyItsOwnRun ==
    [][\A j \in Jobs : j \in work /\ j \notin work' => undo = j \/ point[j] = "running"]_jobVars

(* A Stop request that was accepted stops the run, at whatever point of its *)
(* start it arrives, even if the run would never end by itself.             *)
CancelIsNeverLost ==
    \A j \in Jobs : j \in cancel ~> point[j] \notin Starting \cup Publishing \cup {"running"}

(* Once the engine is shutting down, every run ends and the workspace is    *)
(* released, whether its job was registered, starting or running.           *)
ShutdownReleasesTheWorkspace == stopping ~> jobLock \in {NONE, "undo"} /\ jobs = {}

(* The comment before the final save: "Keep the task active until all owned *)
(* resources have closed."  A task whose thread is over has closed its      *)
(* coordinator, or failed to, and has a status that says so.                *)
ActiveUntilClosed ==
    \A j \in Jobs : point[j] = "over" => closing[j] # "cancelled" /\ record[j] \notin Unsettled
=============================================================================
