-------------------------- MODULE InferenceServer --------------------------
(* The manager of the local llama-server process (inference.py).  One       *)
(* object, four kinds of threads: the callers, serialised by the lock       *)
(* _operation; the worker that probes the runtime, launches the server and  *)
(* watches it; the installer that downloads a runtime; the prefetch thread. *)
(* The worker and the installer share ONE cancellation event, _cancel: what *)
(* stop() sets, start() and install_runtime() clear again.                  *)
EXTENDS Naturals

VARIABLES
    op,         \* who holds _operation, and where: "free" or a point of a call
    halt,       \* the event _cancel
    status,     \* _state
    served,     \* _endpoint # None: the address a client may be given
    proc,       \* the server process: "none", "up" or "exited"
    worker,     \* the point the worker thread has reached
    installer,  \* the same for the installer
    warming,    \* the prefetch thread is alive
    confirmed   \* history: a stop() answered "stopped" and nothing started since

inferenceVars == <<op, halt, status, served, proc, worker, installer, warming, confirmed>>

Points == {"free", "install", "stop", "join_installer", "join_worker"}

ServerStates == {"stopped", "starting", "running", "stopping", "installing", "error"}

WorkerPoints == {"none", "probe", "launch", "wait", "healthy", "serve", "cleanup"}

InferenceTypeOK ==
    /\ op \in Points
    /\ status \in ServerStates
    /\ proc \in {"none", "up", "exited"}
    /\ worker \in WorkerPoints
    /\ installer \in {"none", "working", "publishing"}
    /\ {halt, served, warming, confirmed} \subseteq BOOLEAN

InferenceInit ==
    /\ op = "free"
    /\ halt = FALSE
    /\ status = "stopped"
    /\ served = FALSE
    /\ proc = "none"
    /\ worker = "none"
    /\ installer = "none"
    /\ warming = FALSE
    /\ confirmed = FALSE

----------------------------------------------------------------------------
(* The callers.                                                             *)

\* start(): a no-op while a worker lives, refused while an installer does.
\* Both are dead past the guards, so nothing runs beside the rest of the call.
\* The prefetch is restarted unless it is reading or complete; a configure()
\* in the call may find the old prefetch thread stuck and give up, after
\* which nothing has been started.
StartServer ==
    /\ op = "free"
    /\ worker = "none"
    /\ status # "running"
    /\ installer = "none"
    /\ halt' = FALSE
    /\ status' = "starting"
    /\ worker' = "probe"
    /\ warming' \in {warming, TRUE}
    /\ confirmed' = FALSE
    /\ UNCHANGED <<op, served, proc, installer>>

\* configure(): refused while the state says that something runs; the
\* settings are saved and the prefetch starts again.
Configure ==
    /\ op = "free"
    /\ status \in {"stopped", "error"}
    /\ warming' \in BOOLEAN
    /\ UNCHANGED <<op, halt, status, served, proc, worker, installer, confirmed>>

\* install_runtime() looks at the state and not at the worker ...
InstallBegin ==
    /\ op = "free"
    /\ status \notin {"starting", "running", "stopping"}
    /\ installer = "none"
    /\ op' = "install"
    /\ halt' = FALSE
    /\ UNCHANGED <<status, served, proc, worker, installer, warming, confirmed>>

\* ... and publishes "installing" after it cleared the event.
InstallSpawn ==
    /\ op = "install"
    /\ op' = "free"
    /\ status' = "installing"
    /\ installer' = "working"
    /\ UNCHANGED <<halt, served, proc, worker, warming, confirmed>>

\* stop(), first line.
StopBegin ==
    /\ op = "free"
    /\ op' = "stop"
    /\ halt' = TRUE
    /\ UNCHANGED <<status, served, proc, worker, installer, warming, confirmed>>

\* The prefetch thread is joined for five seconds; the call raises when it is
\* still alive, and leaves the state and the address as they are.
StopRaises ==
    /\ op = "stop"
    /\ warming
    /\ op' = "free"
    /\ UNCHANGED <<halt, status, served, proc, worker, installer, warming, confirmed>>

StopAnnounces ==
    /\ op = "stop"
    /\ ~warming
    /\ op' = "join_installer"
    /\ status' = IF status = "error" THEN "error" ELSE "stopping"
    /\ served' = FALSE
    /\ UNCHANGED <<halt, proc, worker, installer, warming, confirmed>>

\* Twenty seconds each for the installer and for the worker.
JoinInstaller ==
    /\ op = "join_installer"
    /\ installer = "none"
    /\ op' = "join_worker"
    /\ UNCHANGED <<halt, status, served, proc, worker, installer, warming, confirmed>>

JoinWorker ==
    /\ op = "join_worker"
    /\ worker = "none"
    /\ op' = "free"
    /\ status' = "stopped"
    /\ confirmed' = TRUE
    /\ UNCHANGED <<halt, served, proc, worker, installer, warming>>

JoinTimesOut ==
    /\ \/ op = "join_installer" /\ installer # "none"
       \/ op = "join_worker" /\ worker # "none"
    /\ op' = "free"
    /\ status' = "error"
    /\ UNCHANGED <<halt, served, proc, worker, installer, warming, confirmed>>

\* status(), the part that changes something: a dead server is noticed.
Notice ==
    /\ status = "running"
    /\ proc = "exited"
    /\ status' = "error"
    /\ served' = FALSE
    /\ UNCHANGED <<op, halt, proc, worker, installer, warming, confirmed>>

----------------------------------------------------------------------------
(* The worker thread, _run.                                                 *)

WorkerKeeps == UNCHANGED <<op, halt, installer, warming, confirmed>>

\* The handler of every exception: the error is kept unless a stop is wanted.
WorkerFails ==
    /\ \/ worker \in {"probe", "launch"}
       \/ worker \in {"wait", "healthy"}
       \/ worker = "serve" /\ proc = "exited"
    /\ worker' = "cleanup"
    /\ status' = IF halt THEN status ELSE "error"
    /\ UNCHANGED <<served, proc>>
    /\ WorkerKeeps

\* The probe of the runtime's flags, and the last look at the event before
\* the launch.
Probe ==
    /\ worker = "probe"
    /\ worker' = IF halt THEN "cleanup" ELSE "launch"
    /\ UNCHANGED <<status, served, proc>>
    /\ WorkerKeeps

\* A stop may have come since: the server is launched all the same.
Launch ==
    /\ worker = "launch"
    /\ worker' = "wait"
    /\ proc' = "up"
    /\ UNCHANGED <<status, served>>
    /\ WorkerKeeps

\* One round of the start-up loop: with the event set it falls through to the
\* loop that watches the server; a healthy server is published next.
AwaitHealth ==
    /\ worker = "wait"
    /\ \/ halt /\ worker' = "serve"
       \/ ~halt /\ proc = "up" /\ worker' = "healthy"
    /\ UNCHANGED <<status, served, proc>>
    /\ WorkerKeeps

\* Publishing without a second look at the event.
PublishEndpoint_Late ==
    /\ worker = "healthy"
    /\ worker' = "serve"
    /\ status' = "running"
    /\ served' = TRUE
    /\ UNCHANGED proc
    /\ WorkerKeeps

PublishEndpoint ==
    /\ worker = "healthy"
    /\ IF halt
       THEN worker' = "cleanup" /\ UNCHANGED <<status, served>>
       ELSE worker' = "serve" /\ status' = "running" /\ served' = TRUE
    /\ UNCHANGED proc
    /\ WorkerKeeps

StopServing ==
    /\ worker = "serve"
    /\ halt
    /\ worker' = "cleanup"
    /\ UNCHANGED <<status, served, proc>>
    /\ WorkerKeeps

\* The finally block.  _terminate may give up on a process that does not die;
\* the handle is dropped then too.
Cleanup ==
    /\ worker = "cleanup"
    /\ \E killed \in BOOLEAN :
          LET told == IF killed THEN status ELSE "error" IN
          status' = IF halt /\ told # "error" THEN "stopped" ELSE told
    /\ worker' = "none"
    /\ served' = FALSE
    /\ proc' = "none"
    /\ WorkerKeeps

ServerExits ==
    /\ proc = "up"
    /\ proc' = "exited"
    /\ UNCHANGED <<op, halt, status, served, worker, installer, warming, confirmed>>

----------------------------------------------------------------------------
(* The installer and the prefetch thread.                                   *)

InstallerKeeps == UNCHANGED <<op, halt, served, proc, worker, warming, confirmed>>

\* The last look at the event comes after the probe of the new runtime.
Downloaded ==
    /\ installer = "working"
    /\ ~halt
    /\ installer' = "publishing"
    /\ UNCHANGED status
    /\ InstallerKeeps

Installed ==
    /\ installer = "publishing"
    /\ installer' = "none"
    /\ status' = "stopped"
    /\ InstallerKeeps

InstallFails ==
    /\ installer # "none"
    /\ installer' = "none"
    /\ status' = IF halt THEN "stopped" ELSE "error"
    /\ InstallerKeeps

Warmed ==
    /\ warming
    /\ warming' = FALSE
    /\ UNCHANGED <<op, halt, status, served, proc, worker, installer, confirmed>>

----------------------------------------------------------------------------

\* The process of the engine ends, killed or after its shutdown; the next one
\* makes a manager of its own.
NewManager ==
    /\ op' = "free"
    /\ status' = "stopped"
    /\ proc' = "none"
    /\ worker' = "none"
    /\ installer' = "none"
    /\ halt' = FALSE /\ served' = FALSE
    /\ warming' = FALSE /\ confirmed' = FALSE

CallerStep ==
    \/ StartServer \/ Configure \/ InstallBegin \/ InstallSpawn
    \/ StopBegin \/ StopRaises \/ StopAnnounces
    \/ JoinInstaller \/ JoinWorker \/ JoinTimesOut \/ Notice

WorkerStep ==
    \/ WorkerFails \/ Probe \/ Launch \/ AwaitHealth \/ PublishEndpoint
    \/ StopServing \/ Cleanup

InferenceNext ==
    \/ CallerStep \/ WorkerStep \/ ServerExits
    \/ Downloaded \/ Installed \/ InstallFails \/ Warmed \/ NewManager

InferenceSpec == InferenceInit /\ [][InferenceNext]_inferenceVars

----------------------------------------------------------------------------

(* From the moment stop() has withdrawn the address until the call returns, *)
(* no worker may publish one again; and once stop() has answered "stopped"  *)
(* there is no address, and no server process that the manager still holds, *)
(* until the next start().  The worker publishes from its own thread, after *)
(* a health check that a stop may overtake.                                 *)
StoppedMeansGone ==
    /\ op \in {"join_installer", "join_worker"} => ~served
    /\ confirmed => ~served /\ proc = "none"
============================================================================
