-------------------------- MODULE InferenceTuning --------------------------
(* Who calls the manager of the local llama-server: the trials of the tuner *)
(* (inference_tuning.py), which put other settings in the place of the      *)
(* user's and put them back; the application of a measured candidate; the   *)
(* inference routes of the workbench; the repair of the doctor; and the     *)
(* drain that ends the engine.  The first three hold the workspace's        *)
(* _job_lock, the other two do not; starts and the last stop of the drain   *)
(* are made under a gate, _lifecycle_lock.                                  *)
EXTENDS InferenceServer

CONSTANT MaxVariants    \* a trial compares at most this many candidates

ASSUME MaxVariantsAssumption == MaxVariants \in Nat

VARIABLES
    holder,     \* who holds _job_lock, what for, and how far it has come
    settings,   \* the manager's, and its file's: the user's "chosen" or a "trial"
    unrestored, \* history: why "trial" settings stayed behind; "no" when they did not
    matching,   \* history: a worker was started since the settings were saved
    trusted,    \* the baselines of this session's completed, restored trials
    cancelled,  \* job["cancel"] of the trial
    shutdown,   \* _stopping
    gate,       \* _lifecycle_lock: "free", or taken by the "holder" or the "drain"
    draining,   \* the progress of drain_jobs
    resetting   \* the doctor saw the state "error" and is about to stop

tuningVars == <<holder, settings, unrestored, matching, trusted, cancelled, shutdown,
                gate, draining, resetting>>

\* What the holder is doing.  A trial measures the baseline and candidates,
\* then restores: "complete" when all were measured, "abandon" otherwise.  An
\* application that fails is undone.
Goals == {"none", "baseline", "candidate", "complete", "abandon", "apply", "undo", "route"}

Measuring == holder.goal \in {"baseline", "candidate"}

Places == {"idle", "check", "begin", "stop", "stopping", "configure", "gate",
           "start", "ready", "measure", "install", "installing"}

TuningTypeOK ==
    /\ InferenceTypeOK
    /\ holder \in [lock : {"free", "trial", "apply", "route"}, goal : Goals,
                   at : Places, tried : 0 .. MaxVariants, was : BOOLEAN,
                   base : {"chosen", "trial"}]
    /\ settings \in {"chosen", "trial"}
    /\ unrestored \in {"no", "reported", "ended"}
    /\ trusted \subseteq {"chosen", "trial"}
    /\ {matching, cancelled, shutdown, resetting} \subseteq BOOLEAN
    /\ gate \in {"free", "holder", "drain"}
    /\ draining \in {"no", "signal", "joining", "final", "stop", "stopping",
                  "stopped", "pending", "raised"}

Nobody == [lock |-> "free", goal |-> "none", at |-> "idle", tried |-> 0, was |-> FALSE,
           base |-> "chosen"]

TuningInit ==
    /\ InferenceInit
    /\ holder = Nobody
    /\ settings = "chosen"
    /\ unrestored = "no"
    /\ matching = FALSE
    /\ trusted = {}
    /\ cancelled = FALSE
    /\ shutdown = FALSE
    /\ gate = "free"
    /\ draining = "no"
    /\ resetting = FALSE

----------------------------------------------------------------------------
(* How a call of the holder goes on.                                        *)

HolderKeeps == UNCHANGED <<cancelled, shutdown, draining, resetting>>

At(place) ==
    /\ holder' = [holder EXCEPT !.at = place]
    /\ UNCHANGED <<settings, unrestored, trusted>>

Turn(goal, place) ==
    /\ holder' = [holder EXCEPT !.goal = goal, !.at = place]
    /\ UNCHANGED <<settings, unrestored, trusted>>

Set(s, why) == settings' = s /\ unrestored' = IF s = "chosen" THEN "no" ELSE why

\* The work is done and the lock is released; settings that were applied are
\* the user's from here on.
Done(left) ==
    /\ holder' = Nobody
    /\ Set(IF holder.goal = "apply" THEN "chosen" ELSE left, unrestored)
    /\ trusted' = IF holder.goal = "complete" THEN trusted \union {holder.base} ELSE trusted

\* A cancelled trial that ends where it is.
Withdrawn_LeftAsIs == Done(settings)

\* TuningCancelled, or a start that was not allowed: a trial turns to the
\* restoration; a restoration that may not start for the shutdown is done.
Withdrawn == IF Measuring THEN Turn("abandon", "stop") ELSE Done(settings)

\* Any other exception, with the settings it left: a candidate's row says
\* "failed", a baseline ends the trial, an application is undone.  After a
\* failed restoration the manager keeps what it has, as the record of the trial
\* or the answer to the application says: nobody tries again.
CallFailed(left) ==
    /\ holder' = CASE holder.goal = "candidate" -> [holder EXCEPT !.at = "begin"]
                   [] holder.goal = "baseline" -> [holder EXCEPT !.goal = "abandon", !.at = "stop"]
                   [] holder.goal = "apply" -> [holder EXCEPT !.goal = "undo", !.at = "stop"]
                   [] OTHER -> Nobody
    /\ Set(left, IF holder' = Nobody /\ holder.lock # "route" THEN "reported" ELSE unrestored)
    /\ UNCHANGED trusted

----------------------------------------------------------------------------
(* The beginning of the calls.                                              *)

\* Every trial has an event of its own.
BeginKeeps ==
    /\ cancelled' = FALSE
    /\ UNCHANGED <<settings, unrestored, matching, trusted, shutdown, gate, draining, resetting, inferenceVars>>

\* POST /inference/tuning/start.
StartTrial ==
    /\ holder = Nobody
    /\ ~shutdown
    /\ holder' = [Nobody EXCEPT !.lock = "trial", !.goal = "baseline", !.at = "check"]
    /\ BeginKeeps

\* POST /inference/tuning/apply: only what this session has measured.
StartApply ==
    /\ holder = Nobody
    /\ ~shutdown
    /\ trusted # {}
    /\ holder' = [Nobody EXCEPT !.lock = "apply", !.goal = "apply", !.at = "check"]
    /\ BeginKeeps

\* The routes /inference/configure, start, stop and install-runtime.
StartRoute ==
    /\ holder = Nobody
    /\ ~shutdown
    /\ \E place \in {"configure", "gate", "stop", "install"} :
          holder' = [Nobody EXCEPT !.lock = "route", !.goal = "route", !.at = place]
    /\ BeginKeeps

\* The settings and the state are read once, and whether the server must run
\* again afterwards; a candidate is applied to the baseline of its trial only.
CheckState ==
    /\ holder.at = "check"
    /\ status \in {"stopped", "running", "error"}
    /\ ~(status = "running" /\ proc = "exited")      \* else Notice comes first
    /\ holder.goal = "apply" => settings \in trusted
    /\ holder' = [holder EXCEPT !.was = (status = "running"), !.base = settings,
                                !.at = IF holder.goal = "apply" THEN "stop" ELSE "begin"]
    /\ UNCHANGED <<settings, unrestored, matching, trusted, gate, inferenceVars>>
    /\ HolderKeeps

\* Another state, a file that cannot be fingerprinted, or settings that are
\* not those of the record: nothing has been touched.
CheckFails ==
    /\ holder.at = "check"
    /\ holder' = Nobody
    /\ UNCHANGED <<settings, unrestored, matching, trusted, gate, inferenceVars>>
    /\ HolderKeeps

\* The head of a measurement; candidates that are not available are passed
\* over, and files that changed meanwhile spoil the trial.
BeginMeasurement ==
    /\ holder.at = "begin"
    /\ \/ cancelled /\ Turn("abandon", "stop")
       \/ ~cancelled /\ holder.goal = "baseline" /\ At("stop")
       \/ /\ ~cancelled
          /\ holder.goal = "candidate"
          /\ holder.tried < MaxVariants
          /\ holder' = [holder EXCEPT !.tried = @ + 1, !.at = "stop"]
          /\ UNCHANGED <<settings, unrestored, trusted>>
       \/ holder.goal = "candidate" /\ \E goal \in {"complete", "abandon"} : Turn(goal, "stop")
    /\ UNCHANGED <<matching, gate, inferenceVars>>
    /\ HolderKeeps

----------------------------------------------------------------------------
(* manager.stop(), configure() and start() of the holder.                   *)

CallStop ==
    /\ holder.at = "stop"
    /\ StopBegin
    /\ At("stopping")
    /\ UNCHANGED <<matching, gate>>
    /\ HolderKeeps

\* A stop that is still pending when it returns is not told from one that is
\* done: the caller configures next.
StopReturns ==
    /\ holder.at = "stopping"
    /\ JoinWorker \/ JoinTimesOut
    /\ IF holder.goal = "route" THEN Done(settings) ELSE At("configure")
    /\ UNCHANGED <<matching, gate>>
    /\ HolderKeeps

StopFails ==
    /\ holder.at = "stopping"
    /\ StopRaises
    /\ CallFailed(settings)
    /\ UNCHANGED <<matching, gate>>
    /\ HolderKeeps

Wanted ==
    CASE holder.goal \in {"candidate", "apply"} -> "trial"
      [] holder.goal = "route" -> "chosen"
      [] OTHER -> holder.base

\* The call also raises after it has saved, when the prefetch does not end.
CallConfigure ==
    /\ holder.at = "configure"
    /\ Configure
    /\ \/ IF Measuring \/ holder.was
          THEN holder' = [holder EXCEPT !.at = "gate"] /\ Set(Wanted, unrestored) /\ UNCHANGED trusted
          ELSE Done(Wanted)
       \/ warming /\ warming' /\ CallFailed(Wanted)
    /\ matching' = FALSE
    /\ UNCHANGED gate
    /\ HolderKeeps

\* Refused by the manager, or not written.
ConfigureFails ==
    /\ holder.at = "configure"
    /\ op = "free"
    /\ CallFailed(settings)
    /\ UNCHANGED <<matching, gate, inferenceVars>>
    /\ HolderKeeps

\* Looking at the flags without the gate.
EnterGate_Unlocked ==
    /\ holder.at = "gate"
    /\ IF shutdown \/ (Measuring /\ cancelled) THEN Withdrawn ELSE At("start")
    /\ UNCHANGED <<gate, matching, inferenceVars>>
    /\ HolderKeeps

\* _start_if_allowed, and the start route: the gate is not entered while the
\* drain is inside, and inside it the shutdown and the cancellation are seen.
EnterGate ==
    /\ holder.at = "gate"
    /\ gate = "free"
    /\ IF shutdown \/ (Measuring /\ cancelled)
       THEN Withdrawn /\ UNCHANGED gate
       ELSE At("start") /\ gate' = "holder"
    /\ UNCHANGED <<matching, inferenceVars>>
    /\ HolderKeeps

Started == IF holder.goal = "route" THEN Done(settings) ELSE At("ready")

\* A worker that still lives is left alone, and the call reports no error.
CallStart ==
    /\ holder.at = "start"
    /\ \/ StartServer /\ matching' = TRUE /\ Started
       \/ /\ op = "free"
          /\ IF worker # "none" \/ status = "running" THEN Started ELSE CallFailed(settings)
          /\ UNCHANGED <<matching, inferenceVars>>
    /\ gate' = "free"
    /\ HolderKeeps

\* _wait_ready, one round of it.
AwaitReady ==
    /\ holder.at = "ready"
    /\ \/ (shutdown \/ (Measuring /\ cancelled)) /\ Withdrawn
       \/ /\ status = "running" /\ proc # "exited"
          /\ IF Measuring THEN At("measure") ELSE Done(settings)
       \/ CallFailed(settings)
    /\ UNCHANGED <<matching, gate, inferenceVars>>
    /\ HolderKeeps

\* measure_stream: cut short by the cancellation, or by any fault of the
\* answer, and finished only by a server whose address the manager gives.
Stream ==
    \/ cancelled /\ Withdrawn
    \/ served /\ Turn("candidate", "begin")
    \/ CallFailed(settings)

\* _samples looks at the shutdown once, before its first request.
Measure ==
    /\ holder.at = "measure"
    /\ (shutdown /\ Withdrawn) \/ Stream
    /\ UNCHANGED <<matching, gate, inferenceVars>>
    /\ HolderKeeps

CallInstall ==
    /\ holder.at = "install"
    /\ \/ InstallBegin /\ At("installing")
       \/ op = "free" /\ Done(settings) /\ UNCHANGED inferenceVars    \* refused
    /\ UNCHANGED <<matching, gate>>
    /\ HolderKeeps

InstallReturns ==
    /\ holder.at = "installing"
    /\ InstallSpawn
    /\ Done(settings)
    /\ UNCHANGED <<matching, gate>>
    /\ HolderKeeps

----------------------------------------------------------------------------
(* The callers without the lock.                                            *)

CancelTrial ==
    /\ holder.lock = "trial"
    /\ cancelled' = TRUE
    /\ UNCHANGED <<holder, settings, unrestored, matching, trusted, shutdown, gate, draining,
                   resetting, inferenceVars>>

DoctorKeeps ==
    UNCHANGED <<holder, settings, unrestored, matching, trusted, cancelled, shutdown, gate, draining>>

\* reset_failed_runtime: the state is read before the stop is called.
DoctorChecks ==
    /\ status = "error"
    /\ resetting' = TRUE
    /\ UNCHANGED inferenceVars
    /\ DoctorKeeps

DoctorStops ==
    /\ resetting
    /\ StopBegin
    /\ resetting' = FALSE
    /\ DoctorKeeps

DoctorReturns ==
    /\ holder.at # "stopping"
    /\ draining # "stopping"
    /\ StopRaises \/ JoinWorker \/ JoinTimesOut
    /\ UNCHANGED resetting
    /\ DoctorKeeps

DrainKeeps == UNCHANGED <<holder, settings, unrestored, matching, trusted, resetting>>

\* drain_jobs: for the first signal, for another one, and from the main thread
\* when serve_forever has ended.
StartDraining ==
    /\ draining \in {"no", "stopped", "pending", "raised"}
    /\ gate = "free"
    /\ shutdown' = TRUE
    /\ draining' = "signal"
    /\ UNCHANGED <<cancelled, gate, inferenceVars>>
    /\ DrainKeeps

Signal ==
    /\ draining = "signal"
    /\ cancelled' = (cancelled \/ holder.lock = "trial")
    /\ draining' = "joining"
    /\ UNCHANGED <<shutdown, gate, inferenceVars>>
    /\ DrainKeeps

\* The thread of the trial has ended, or twelve seconds have passed.
Joined ==
    /\ draining = "joining"
    /\ draining' = "final"
    /\ UNCHANGED <<cancelled, shutdown, gate, inferenceVars>>
    /\ DrainKeeps

LastStop ==
    /\ draining = "final"
    /\ gate = "free"
    /\ gate' = "drain"
    /\ draining' = "stop"
    /\ UNCHANGED <<cancelled, shutdown, inferenceVars>>
    /\ DrainKeeps

DrainStops ==
    /\ draining = "stop"
    /\ StopBegin
    /\ draining' = "stopping"
    /\ UNCHANGED <<cancelled, shutdown, gate>>
    /\ DrainKeeps

\* After an exception server.shutdown() is not reached.
LastStopReturns ==
    /\ draining = "stopping"
    /\ \/ JoinWorker /\ draining' = "stopped"
       \/ JoinTimesOut /\ draining' = "pending"
       \/ StopRaises /\ draining' = "raised"
    /\ gate' = "free"
    /\ UNCHANGED <<cancelled, shutdown>>
    /\ DrainKeeps

\* The process ends, after the drain, which waits for a trial no longer than
\* for a task, or killed before it.  The threads end where they are; the next
\* engine reads the settings from the file.
EngineEnds ==
    /\ NewManager
    /\ holder' = Nobody
    /\ unrestored' = IF settings = "trial" /\ unrestored = "no" THEN "ended" ELSE unrestored
    /\ trusted' = {}
    /\ matching' = FALSE /\ cancelled' = FALSE
    /\ shutdown' = FALSE /\ resetting' = FALSE
    /\ gate' = "free"
    /\ draining' = "no"
    /\ UNCHANGED settings

----------------------------------------------------------------------------

\* What the manager's own threads do, inside calls of stop() as well.
ManagerAlone ==
    /\ \/ StopAnnounces \/ JoinInstaller \/ Notice \/ WorkerStep \/ ServerExits
       \/ Downloaded \/ Installed \/ InstallFails \/ Warmed
    /\ UNCHANGED tuningVars

TuningNext ==
    \/ StartTrial \/ StartApply \/ StartRoute
    \/ CheckState \/ CheckFails \/ BeginMeasurement
    \/ CallStop \/ StopReturns \/ StopFails \/ CallConfigure \/ ConfigureFails
    \/ EnterGate \/ CallStart \/ AwaitReady \/ Measure
    \/ CallInstall \/ InstallReturns
    \/ CancelTrial \/ DoctorChecks \/ DoctorStops \/ DoctorReturns
    \/ StartDraining \/ Signal \/ Joined \/ LastStop \/ DrainStops \/ LastStopReturns
    \/ EngineEnds \/ ManagerAlone

TuningSpec == TuningInit /\ [][TuningNext]_<<tuningVars, inferenceVars>>

----------------------------------------------------------------------------

(* While a stop() is under way no address is given, and none after it has   *)
(* answered "stopped".  When that answer was given to drain_jobs, nothing   *)
(* starts a server again: not a trial that was about to start its candidate *)
(* or to restart the baseline when the shutdown began, nor an application   *)
(* or a start route that had already looked at _stopping.                   *)
ShutdownStopsTheServer == StoppedMeansGone /\ (draining = "stopped" => confirmed)

(* Settings that the user has not chosen are the manager's while a trial or *)
(* an application holds the lock.  Whatever fails, is cancelled or drained  *)
(* in between, they are taken back before the lock is released, except when *)
(* the restoration itself failed and said so, or the process ended first;   *)
(* what a trial then finds as its baseline is what it leaves.  And a        *)
(* measurement is answered by a server that was launched with the very      *)
(* settings that its row names.                                             *)
CandidatesAreTemporary ==
    /\ settings = "trial" => holder.lock \in {"trial", "apply"} \/ unrestored # "no"
    /\ holder.base = "trial" => settings = "trial" /\ unrestored # "no"
    /\ holder.at = "measure" /\ served => matching

(* As it is documented, the baseline is restored on success, on error and   *)
(* on cancellation: when the lock is free again the settings are the        *)
(* user's, if the process has not ended in between.                         *)
BaselineIsRestored == holder = Nobody /\ settings = "trial" => unrestored = "ended"
============================================================================
