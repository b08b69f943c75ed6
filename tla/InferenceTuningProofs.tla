----------------------- MODULE InferenceTuningProofs -----------------------
(* Proofs about the manager of the local inference server and its callers,  *)
(* for any number of candidates.                                            *)
EXTENDS InferenceTuning, TLAPS

(* What the manager maintains, whoever calls it: without a worker there is  *)
(* neither an address nor a process, a stop on its way has the event set,   *)
(* and after a confirmed stop there is no worker.                           *)
Managed ==
    /\ worker = "none" => ~served /\ proc = "none"
    /\ op = "stop" => halt
    /\ op \in {"join_installer", "join_worker"} => halt /\ ~served
    /\ confirmed => worker = "none"

LEMMA ManagedStep == Managed /\ [InferenceNext]_inferenceVars => Managed'
<1> SUFFICES ASSUME Managed, [InferenceNext]_inferenceVars PROVE Managed'
  OBVIOUS
<1> USE DEF Managed
<1>1. CASE StartServer
  BY <1>1 DEF StartServer
<1>9. CASE Configure \/ InstallBegin \/ InstallSpawn
  BY <1>9 DEF Configure, InstallBegin, InstallSpawn
<1>2. CASE StopBegin \/ StopRaises \/ StopAnnounces
  BY <1>2 DEF StopBegin, StopRaises, StopAnnounces
<1>3. CASE JoinInstaller \/ JoinWorker \/ JoinTimesOut \/ Notice
  BY <1>3 DEF JoinInstaller, JoinWorker, JoinTimesOut, Notice
<1>4. CASE WorkerFails \/ Probe \/ Launch \/ AwaitHealth
  BY <1>4 DEF WorkerFails, Probe, Launch, AwaitHealth, WorkerKeeps
<1>5. CASE PublishEndpoint \/ StopServing \/ Cleanup
  BY <1>5 DEF PublishEndpoint, StopServing, Cleanup, WorkerKeeps
<1>6. CASE ServerExits \/ Warmed
  BY <1>6 DEF ServerExits, Warmed
<1>7. CASE Downloaded \/ Installed \/ InstallFails
  BY <1>7 DEF Downloaded, Installed, InstallFails, InstallerKeeps
<1>8. CASE UNCHANGED inferenceVars
  BY <1>8 DEF inferenceVars
<1>10. CASE NewManager
  BY <1>10 DEF NewManager
<1> QED
  BY <1>1, <1>2, <1>3, <1>4, <1>5, <1>6, <1>7, <1>8, <1>9, <1>10 DEF InferenceNext, CallerStep, WorkerStep

(* No call of stop() leaves an address behind, and no server after it has   *)
(* answered "stopped" (inference.py), whatever the callers do.              *)
THEOREM StoppedServerIsGone == InferenceSpec => []StoppedMeansGone
<1>1. InferenceInit => Managed
  BY DEF InferenceInit, Managed
<1>2. Managed /\ [InferenceNext]_inferenceVars => Managed'
  BY ManagedStep
<1>3. Managed => StoppedMeansGone
  BY DEF Managed, StoppedMeansGone
<1> QED
  BY <1>1, <1>2, <1>3, PTL DEF InferenceSpec

----------------------------------------------------------------------------
(* The callers.                                                             *)

allVars == <<tuningVars, inferenceVars>>

LEMMA StepsAreManaged == [TuningNext]_allVars => [InferenceNext]_inferenceVars
<1> SUFFICES ASSUME [TuningNext]_allVars PROVE [InferenceNext]_inferenceVars
  OBVIOUS
<1> USE DEF InferenceNext, CallerStep
<1>1. CASE StartTrial \/ StartApply \/ StartRoute
  BY <1>1 DEF StartTrial, StartApply, StartRoute, BeginKeeps
<1>2. CASE CheckState \/ CheckFails \/ BeginMeasurement
  BY <1>2 DEF CheckState, CheckFails, BeginMeasurement
<1>3. CASE CallStop \/ StopReturns \/ StopFails
  BY <1>3 DEF CallStop, StopReturns, StopFails
<1>4. CASE CallConfigure \/ ConfigureFails \/ EnterGate \/ CallStart
  BY <1>4 DEF CallConfigure, ConfigureFails, EnterGate, CallStart
<1>5. CASE AwaitReady \/ Measure \/ CallInstall \/ InstallReturns
  BY <1>5 DEF AwaitReady, Measure, CallInstall, InstallReturns
<1>6. CASE CancelTrial \/ DoctorChecks \/ DoctorStops \/ DoctorReturns
  BY <1>6 DEF CancelTrial, DoctorChecks, DoctorStops, DoctorReturns
<1>7. CASE StartDraining \/ Signal \/ Joined \/ LastStop \/ DrainStops \/ LastStopReturns
  BY <1>7 DEF StartDraining, Signal, Joined, LastStop, DrainStops, LastStopReturns
<1>8. CASE EngineEnds \/ ManagerAlone
  BY <1>8 DEF EngineEnds, ManagerAlone
<1>9. CASE UNCHANGED allVars
  BY <1>9 DEF allVars
<1> QED
  BY <1>1, <1>2, <1>3, <1>4, <1>5, <1>6, <1>7, <1>8, <1>9 DEF TuningNext

(* The callers of the workbench do with the manager only what its own       *)
(* specification allows to any caller.                                      *)
THEOREM CallersAreAllowed == TuningSpec => InferenceSpec
<1>1. TuningInit => InferenceInit
  BY DEF TuningInit
<1>2. [TuningNext]_allVars => [InferenceNext]_inferenceVars
  BY StepsAreManaged
<1> QED
  BY <1>1, <1>2, PTL DEF TuningSpec, InferenceSpec, allVars

----------------------------------------------------------------------------
(* Types.                                                                   *)

LEMMA InferenceTypeStep == InferenceTypeOK /\ [InferenceNext]_inferenceVars => InferenceTypeOK'
<1> SUFFICES ASSUME InferenceTypeOK, [InferenceNext]_inferenceVars PROVE InferenceTypeOK'
  OBVIOUS
<1> USE DEF InferenceTypeOK, Points, ServerStates, WorkerPoints
<1>1. CASE StartServer \/ Configure
  BY <1>1 DEF StartServer, Configure
<1>2. CASE InstallBegin \/ InstallSpawn
  BY <1>2 DEF InstallBegin, InstallSpawn
<1>3. CASE StopBegin \/ StopRaises \/ StopAnnounces
  BY <1>3 DEF StopBegin, StopRaises, StopAnnounces
<1>4. CASE JoinInstaller \/ JoinWorker \/ JoinTimesOut \/ Notice
  BY <1>4 DEF JoinInstaller, JoinWorker, JoinTimesOut, Notice
<1>5. CASE WorkerFails \/ Probe \/ Launch \/ AwaitHealth
  BY <1>5 DEF WorkerFails, Probe, Launch, AwaitHealth, WorkerKeeps
<1>6. CASE PublishEndpoint \/ StopServing \/ Cleanup
  BY <1>6 DEF PublishEndpoint, StopServing, Cleanup, WorkerKeeps
<1>7. CASE ServerExits \/ Warmed
  BY <1>7 DEF ServerExits, Warmed
<1>8. CASE Downloaded \/ Installed \/ InstallFails
  BY <1>8 DEF Downloaded, Installed, InstallFails, InstallerKeeps
<1>9. CASE UNCHANGED inferenceVars
  BY <1>9 DEF inferenceVars
<1>10. CASE NewManager
  BY <1>10 DEF NewManager
<1> QED
  BY <1>1, <1>2, <1>3, <1>4, <1>5, <1>6, <1>7, <1>8, <1>9, <1>10 DEF InferenceNext, CallerStep, WorkerStep

(* The types of the callers' variables alone.                               *)
Holders == [lock : {"free", "trial", "apply", "route"}, goal : Goals,
            at : Places, tried : 0 .. MaxVariants, was : BOOLEAN,
            base : {"chosen", "trial"}]

TuningTypes ==
    /\ holder \in Holders
    /\ settings \in {"chosen", "trial"}
    /\ unrestored \in {"no", "reported", "ended"}
    /\ trusted \subseteq {"chosen", "trial"}
    /\ {matching, cancelled, shutdown, resetting} \subseteq BOOLEAN
    /\ gate \in {"free", "holder", "drain"}
    /\ draining \in {"no", "signal", "joining", "final", "stop", "stopping",
                     "stopped", "pending", "raised"}

LEMMA NobodyIsAHolder == Nobody \in Holders
  BY MaxVariantsAssumption DEF Nobody, Holders, Goals, Places

(* How a call of the holder goes on keeps the types.                        *)
Kept ==
    /\ holder' \in Holders
    /\ settings' \in {"chosen", "trial"}
    /\ unrestored' \in {"no", "reported", "ended"}
    /\ trusted' \subseteq {"chosen", "trial"}

LEMMA SetKeeps ==
    ASSUME TuningTypes, NEW s \in {"chosen", "trial"}, NEW why \in {"no", "reported", "ended"}, Set(s, why)
    PROVE  settings' \in {"chosen", "trial"} /\ unrestored' \in {"no", "reported", "ended"}
  BY DEF Set, TuningTypes

LEMMA AtKeeps == ASSUME TuningTypes, NEW place \in Places, At(place) PROVE Kept
  BY DEF At, Kept, TuningTypes, Holders

LEMMA TurnKeeps ==
    ASSUME TuningTypes, NEW goal \in Goals, NEW place \in Places, Turn(goal, place)
    PROVE  Kept
  BY DEF Turn, Kept, TuningTypes, Holders

LEMMA DoneKeeps == ASSUME TuningTypes, NEW left \in {"chosen", "trial"}, Done(left) PROVE Kept
<1>1. settings' \in {"chosen", "trial"} /\ unrestored' \in {"no", "reported", "ended"}
  BY SetKeeps DEF Done, TuningTypes
<1>2. trusted' \subseteq {"chosen", "trial"}
  BY DEF Done, TuningTypes, Holders
<1> QED
  BY <1>1, <1>2, NobodyIsAHolder DEF Done, Kept

LEMMA WithdrawnKeeps == ASSUME TuningTypes, Withdrawn PROVE Kept
<1>1. "abandon" \in Goals /\ "stop" \in Places /\ settings \in {"chosen", "trial"}
  BY DEF Goals, Places, TuningTypes
<1>2. Turn("abandon", "stop") \/ Done(settings)
  BY DEF Withdrawn
<1> QED
  BY <1>1, <1>2, TurnKeeps, DoneKeeps

LEMMA FailedKeeps == ASSUME TuningTypes, NEW left \in {"chosen", "trial"}, CallFailed(left) PROVE Kept
<1>1. /\ settings' \in {"chosen", "trial"} /\ unrestored' \in {"no", "reported", "ended"}
      /\ trusted' \subseteq {"chosen", "trial"}
  BY SetKeeps DEF CallFailed, TuningTypes
<1>2. \/ holder' = [holder EXCEPT !.at = "begin"]
      \/ holder' = [holder EXCEPT !.goal = "abandon", !.at = "stop"]
      \/ holder' = [holder EXCEPT !.goal = "undo", !.at = "stop"]
      \/ holder' = Nobody
  BY DEF CallFailed
<1>3. holder' \in Holders
  BY <1>2, NobodyIsAHolder DEF TuningTypes, Holders, Goals, Places
<1> QED
  BY <1>1, <1>3 DEF Kept

LEMMA InitIsTyped ==
    TuningInit => TuningTypes /\ holder.at = "idle" /\ holder.goal = "none" /\ holder.lock = "free"
<1> SUFFICES ASSUME TuningInit PROVE TuningTypes /\ holder.at = "idle" /\ holder.goal = "none" /\ holder.lock = "free"
  OBVIOUS
<1>1. TuningTypes
  BY NobodyIsAHolder DEF TuningInit, TuningTypes
<1>2. holder.at = "idle" /\ holder.goal = "none" /\ holder.lock = "free"
  BY DEF TuningInit, Nobody
<1> QED
  BY <1>1, <1>2

LEMMA TuningTypesStep ==
    ASSUME TuningTypes, [TuningNext]_allVars
    PROVE  TuningTypes'
<1>a. /\ settings \in {"chosen", "trial"}
      /\ Wanted \in {"chosen", "trial"}
      /\ {"complete", "abandon", "candidate"} \subseteq Goals
      /\ {"begin", "stop", "stopping", "configure", "gate", "start", "ready", "measure", "installing"} \subseteq Places
  BY DEF TuningTypes, Holders, Wanted, Goals, Places
<1> USE DEF TuningTypes, Kept
<1>1. CASE StartTrial \/ StartApply \/ StartRoute
  <2>1. PICK lock \in {"trial", "apply", "route"}, goal \in {"baseline", "apply", "route"},
             place \in {"check", "configure", "gate", "stop", "install"} :
                holder' = [Nobody EXCEPT !.lock = lock, !.goal = goal, !.at = place]
    BY <1>1 DEF StartTrial, StartApply, StartRoute
  <2>2. holder' \in Holders
    <3>1. goal \in Goals /\ place \in Places
      BY DEF Goals, Places
    <3> QED
      BY <2>1, <3>1, NobodyIsAHolder DEF Holders
  <2> QED
    BY <1>1, <2>2 DEF StartTrial, StartApply, StartRoute, BeginKeeps
<1>2. CASE CheckState
  <2>1. holder' \in Holders
    BY <1>2 DEF CheckState, Holders, Places
  <2> QED
    BY <1>2, <2>1 DEF CheckState, HolderKeeps
<1>3. CASE CheckFails
  BY <1>3, NobodyIsAHolder DEF CheckFails, HolderKeeps
<1>4. CASE BeginMeasurement
  <2>1. ASSUME holder.tried < MaxVariants, holder' = [holder EXCEPT !.tried = @ + 1, !.at = "stop"]
        PROVE  holder' \in Holders
    <3>1. holder.tried + 1 \in 0 .. MaxVariants
      BY <2>1, MaxVariantsAssumption DEF Holders
    <3> DEFINE next == holder.tried + 1
    <3>2. next \in 0 .. MaxVariants
      BY <3>1
    <3>3. holder' = [holder EXCEPT !.tried = next, !.at = "stop"]
      BY <2>1
    <3> HIDE DEF next
    <3> QED
      BY <3>2, <3>3, <1>a DEF Holders
  <2>2. Kept
    BY <1>4, <1>a, <2>1, AtKeeps, TurnKeeps DEF BeginMeasurement
  <2> QED
    BY <1>4, <2>2 DEF BeginMeasurement, HolderKeeps
<1>5. CASE CallStop
  <2>1. Kept
    BY <1>5, <1>a, AtKeeps DEF CallStop
  <2> QED
    BY <1>5, <2>1 DEF CallStop, HolderKeeps
<1>6. CASE StopReturns
  <2>1. Kept
    BY <1>6, <1>a, AtKeeps, DoneKeeps DEF StopReturns
  <2> QED
    BY <1>6, <2>1 DEF StopReturns, HolderKeeps
<1>7. CASE StopFails
  <2>1. Kept
    BY <1>7, <1>a, FailedKeeps DEF StopFails
  <2> QED
    BY <1>7, <2>1 DEF StopFails, HolderKeeps
<1>8. CASE CallConfigure
  <2>1. ASSUME holder' = [holder EXCEPT !.at = "gate"] PROVE holder' \in Holders
    BY <2>1, <1>a DEF Holders
  <2>2. Kept
    <3>1. CASE Set(Wanted, unrestored) /\ UNCHANGED trusted /\ holder' = [holder EXCEPT !.at = "gate"]
      BY <1>a, <2>1, <3>1, SetKeeps
    <3> QED
      BY <1>8, <1>a, <3>1, DoneKeeps, FailedKeeps DEF CallConfigure
  <2> QED
    BY <1>8, <2>2 DEF CallConfigure, HolderKeeps
<1>9. CASE ConfigureFails
  <2>1. Kept
    BY <1>9, <1>a, FailedKeeps DEF ConfigureFails
  <2> QED
    BY <1>9, <2>1 DEF ConfigureFails, HolderKeeps
<1>10. CASE EnterGate
  <2>1. Kept
    BY <1>10, <1>a, AtKeeps, WithdrawnKeeps DEF EnterGate
  <2> QED
    BY <1>10, <2>1 DEF EnterGate, HolderKeeps
<1>11. CASE CallStart
  <2>1. Kept
    BY <1>11, <1>a, AtKeeps, DoneKeeps, FailedKeeps DEF CallStart, Started
  <2> QED
    BY <1>11, <2>1 DEF CallStart, HolderKeeps
<1>12. CASE AwaitReady
  <2>1. Kept
    BY <1>12, <1>a, WithdrawnKeeps, AtKeeps, DoneKeeps, FailedKeeps DEF AwaitReady
  <2> QED
    BY <1>12, <2>1 DEF AwaitReady, HolderKeeps
<1>13. CASE Measure
  <2>1. Kept
    BY <1>13, <1>a, WithdrawnKeeps, TurnKeeps, FailedKeeps DEF Measure, Stream
  <2> QED
    BY <1>13, <2>1 DEF Measure, HolderKeeps
<1>14. CASE CallInstall
  <2>1. Kept
    BY <1>14, <1>a, AtKeeps, DoneKeeps DEF CallInstall
  <2> QED
    BY <1>14, <2>1 DEF CallInstall, HolderKeeps
<1>15. CASE InstallReturns
  <2>1. Kept
    BY <1>15, <1>a, DoneKeeps DEF InstallReturns
  <2> QED
    BY <1>15, <2>1 DEF InstallReturns, HolderKeeps
<1>16. CASE CancelTrial \/ DoctorChecks \/ DoctorStops \/ DoctorReturns
  BY <1>16 DEF CancelTrial, DoctorChecks, DoctorStops, DoctorReturns, DoctorKeeps
<1>17. CASE StartDraining \/ Signal \/ Joined
  BY <1>17 DEF StartDraining, Signal, Joined, DrainKeeps
<1>18. CASE LastStop \/ DrainStops \/ LastStopReturns
  BY <1>18 DEF LastStop, DrainStops, LastStopReturns, DrainKeeps
<1>19. CASE ManagerAlone
  BY <1>19 DEF ManagerAlone, tuningVars
<1>20. CASE UNCHANGED allVars
  BY <1>20 DEF allVars, tuningVars
<1>21. CASE EngineEnds
  BY <1>21, NobodyIsAHolder DEF EngineEnds
<1> QED
  BY <1>21, <1>1, <1>2, <1>3, <1>4, <1>5, <1>6, <1>7, <1>8, <1>9, <1>10, <1>11, <1>12, <1>13, <1>14, <1>15, <1>16, <1>17, <1>18, <1>19, <1>20 DEF TuningNext

(* Every variable of the manager and of its callers stays within its type,  *)
(* and a trial never measures more than MaxVariants candidates.             *)
THEOREM TuningTypeCorrect == TuningSpec => []TuningTypeOK
<1>1. TuningInit => InferenceTypeOK /\ TuningTypes
  BY NobodyIsAHolder DEF TuningInit, InferenceInit, InferenceTypeOK, Points, ServerStates, WorkerPoints, TuningTypes
<1>2. InferenceTypeOK /\ TuningTypes /\ [TuningNext]_allVars => (InferenceTypeOK /\ TuningTypes)'
  BY StepsAreManaged, InferenceTypeStep, TuningTypesStep
<1>3. InferenceTypeOK /\ TuningTypes => TuningTypeOK
  BY DEF TuningTypes, TuningTypeOK, Holders
<1> QED
  BY <1>1, <1>2, <1>3, PTL DEF TuningSpec, allVars

----------------------------------------------------------------------------
(* The gate.                                                                *)

(* A holder that is about to start has the gate, the drain has it for its   *)
(* last stop and had it when the stop was answered, and whoever asks for it *)
(* afterwards sees the shutdown.                                            *)
Gated ==
    /\ holder.at = "start" => gate = "holder"
    /\ gate = "drain" <=> draining \in {"stop", "stopping"}
    /\ draining # "no" => shutdown
    /\ holder.at = "start" => draining \notin {"stop", "stopping", "stopped"}
    /\ draining = "stopped" => confirmed

(* A step that has nothing to do with the gate.                             *)
Elsewhere ==
    /\ holder'.at = "start" => holder.at = "start"
    /\ UNCHANGED <<gate, draining, shutdown>>
    /\ confirmed => confirmed'

LEMMA ElsewhereKeeps == Gated /\ Elsewhere => Gated'
  BY DEF Gated, Elsewhere

(* The manager's own threads leave the answer of the last stop alone.       *)
LEMMA AloneKeepsTheAnswer == ManagerAlone => UNCHANGED confirmed
<1> SUFFICES ASSUME ManagerAlone PROVE UNCHANGED confirmed
  OBVIOUS
<1>1. CASE StopAnnounces \/ JoinInstaller \/ Notice \/ ServerExits \/ Warmed
  BY <1>1 DEF StopAnnounces, JoinInstaller, Notice, ServerExits, Warmed
<1>2. CASE WorkerStep
  BY <1>2 DEF WorkerStep, WorkerFails, Probe, Launch, AwaitHealth, PublishEndpoint, StopServing, Cleanup, WorkerKeeps
<1>3. CASE Downloaded \/ Installed \/ InstallFails
  BY <1>3 DEF Downloaded, Installed, InstallFails, InstallerKeeps
<1> QED
  BY <1>1, <1>2, <1>3 DEF ManagerAlone

(* The fields of the holder after a change.                                 *)
LEMMA PlacedFields ==
    ASSUME holder \in Holders, NEW place \in Places, holder' = [holder EXCEPT !.at = place]
    PROVE  /\ holder'.at = place /\ holder'.goal = holder.goal
           /\ holder'.lock = holder.lock /\ holder'.base = holder.base
  BY DEF Holders

LEMMA TurnedFields ==
    ASSUME holder \in Holders, NEW goal \in Goals, NEW place \in Places,
           holder' = [holder EXCEPT !.goal = goal, !.at = place]
    PROVE  /\ holder'.at = place /\ holder'.goal = goal
           /\ holder'.lock = holder.lock /\ holder'.base = holder.base
  BY DEF Holders

LEMMA ReleasedFields ==
    ASSUME holder' = Nobody
    PROVE  /\ holder'.at = "idle" /\ holder'.goal = "none"
           /\ holder'.lock = "free" /\ holder'.base = "chosen"
  BY DEF Nobody

LEMMA BegunFields ==
    ASSUME NEW lock \in {"trial", "apply", "route"}, NEW goal \in Goals, NEW place \in Places,
           holder' = [Nobody EXCEPT !.lock = lock, !.goal = goal, !.at = place]
    PROVE  /\ holder'.at = place /\ holder'.goal = goal
           /\ holder'.lock = lock /\ holder'.base = "chosen"
  BY NobodyIsAHolder DEF Holders, Nobody

LEMMA Names ==
    /\ {"idle", "check", "begin", "stop", "stopping", "configure", "gate", "start",
        "ready", "measure", "install", "installing"} \subseteq Places
    /\ {"none", "baseline", "candidate", "complete", "abandon", "apply", "undo", "route"} \subseteq Goals
  BY DEF Places, Goals

LEMMA AtFields ==
    ASSUME holder \in Holders, NEW place \in Places, At(place)
    PROVE  /\ holder'.at = place /\ holder'.goal = holder.goal
           /\ holder'.lock = holder.lock /\ holder'.base = holder.base
  BY PlacedFields DEF At

LEMMA TurnFields ==
    ASSUME holder \in Holders, NEW goal \in Goals, NEW place \in Places, Turn(goal, place)
    PROVE  /\ holder'.at = place /\ holder'.goal = goal
           /\ holder'.lock = holder.lock /\ holder'.base = holder.base
  BY TurnedFields DEF Turn

LEMMA CountedFields ==
    ASSUME holder \in Holders, NEW count,
           holder' = [holder EXCEPT !.tried = count, !.at = "stop"]
    PROVE  /\ holder'.at = "stop" /\ holder'.goal = holder.goal
           /\ holder'.lock = holder.lock /\ holder'.base = holder.base
  BY DEF Holders

(* What the beginning of a call makes of the holder.                        *)
LEMMA BegunCases ==
    ASSUME StartTrial \/ StartApply \/ StartRoute
    PROVE  /\ holder'.base = "chosen"
           /\ \/ holder'.lock = "trial" /\ holder'.goal = "baseline" /\ holder'.at = "check"
              \/ holder'.lock = "apply" /\ holder'.goal = "apply" /\ holder'.at = "check"
              \/ /\ holder'.lock = "route" /\ holder'.goal = "route"
                 /\ holder'.at \in {"configure", "gate", "stop", "install"}
<1>1. CASE StartTrial
  BY <1>1, Names, BegunFields DEF StartTrial
<1>2. CASE StartApply
  BY <1>2, Names, BegunFields DEF StartApply
<1>3. CASE StartRoute
  <2>1. PICK place \in {"configure", "gate", "stop", "install"} :
             holder' = [Nobody EXCEPT !.lock = "route", !.goal = "route", !.at = place]
    BY <1>3 DEF StartRoute
  <2>2. place \in Places /\ "route" \in Goals
    BY Names
  <2> QED
    BY <2>1, <2>2, BegunFields
<1> QED
  BY <1>1, <1>2, <1>3

(* What an exception makes of the holder.                                   *)
LEMMA FailedCases ==
    ASSUME holder \in Holders, NEW left, CallFailed(left)
    PROVE  \/ /\ holder.goal = "candidate" /\ holder'.goal = "candidate"
              /\ holder'.at = "begin" /\ holder'.lock = holder.lock
           \/ /\ holder.goal = "baseline" /\ holder'.goal = "abandon"
              /\ holder'.at = "stop" /\ holder'.lock = holder.lock
           \/ /\ holder.goal = "apply" /\ holder'.goal = "undo"
              /\ holder'.at = "stop" /\ holder'.lock = holder.lock
           \/ holder' = Nobody
<1>1. \/ holder.goal = "candidate" /\ holder' = [holder EXCEPT !.at = "begin"]
      \/ holder.goal = "baseline" /\ holder' = [holder EXCEPT !.goal = "abandon", !.at = "stop"]
      \/ holder.goal = "apply" /\ holder' = [holder EXCEPT !.goal = "undo", !.at = "stop"]
      \/ holder' = Nobody
  BY DEF CallFailed
<1> QED
  BY <1>1, Names, PlacedFields, TurnedFields

LEMMA FailedBase ==
    ASSUME holder \in Holders, NEW left, CallFailed(left), holder' # Nobody
    PROVE  holder'.base = holder.base
<1>1. \/ holder' = [holder EXCEPT !.at = "begin"]
      \/ holder' = [holder EXCEPT !.goal = "abandon", !.at = "stop"]
      \/ holder' = [holder EXCEPT !.goal = "undo", !.at = "stop"]
  BY DEF CallFailed
<1> QED
  BY <1>1 DEF Holders

LEMMA OutcomesAreElsewhere ==
    ASSUME TuningTypes, NEW left, Withdrawn \/ Done(left) \/ CallFailed(left)
    PROVE  holder'.at # "start"
<1>1. CASE Withdrawn
  <2>1. Turn("abandon", "stop") \/ Done(left) \/ holder' = Nobody
    BY <1>1 DEF Withdrawn, Done
  <2> QED
    BY <2>1, Names, TurnFields, ReleasedFields DEF Done, TuningTypes
<1>2. CASE Done(left)
  BY <1>2, ReleasedFields DEF Done
<1>3. CASE CallFailed(left)
  BY <1>3, FailedCases, ReleasedFields DEF TuningTypes
<1> QED
  BY <1>1, <1>2, <1>3

LEMMA GatedStep ==
    ASSUME TuningTypes, Gated, [TuningNext]_allVars
    PROVE  Gated'
<1>a. settings \in {"chosen", "trial"} /\ Wanted \in {"chosen", "trial"} /\ holder \in Holders
  BY DEF TuningTypes, Holders, Wanted
<1> USE DEF HolderKeeps
<1>1. CASE StartTrial \/ StartApply \/ StartRoute
  <2>1. holder'.at # "start"
    BY <1>1, BegunCases
  <2>2. Elsewhere
    BY <1>1, <2>1 DEF StartTrial, StartApply, StartRoute, BeginKeeps, Elsewhere, inferenceVars
  <2> QED
    BY <2>2, ElsewhereKeeps
<1>2. CASE CheckState \/ CheckFails \/ BeginMeasurement
  <2>1. holder'.at # "start"
    <3>1. CASE CheckState
      BY <1>a, <3>1 DEF CheckState, Holders, Places
    <3>2. CASE CheckFails
      BY <3>2, ReleasedFields DEF CheckFails
    <3>3. CASE BeginMeasurement
      <4>1. CASE holder' = [holder EXCEPT !.tried = @ + 1, !.at = "stop"]
        BY <4>1, <1>a, CountedFields
      <4>2. CASE At("stop") \/ \E goal \in {"complete", "abandon"} : Turn(goal, "stop")
        BY <4>2, <1>a, Names, AtFields, TurnFields
      <4> QED
        BY <3>3, <4>1, <4>2 DEF BeginMeasurement
    <3> QED
      BY <1>2, <3>1, <3>2, <3>3
  <2>2. Elsewhere
    BY <1>2, <2>1 DEF CheckState, CheckFails, BeginMeasurement, Elsewhere, inferenceVars
  <2> QED
    BY <2>2, ElsewhereKeeps
<1>3. CASE CallStop \/ StopReturns \/ StopFails
  <2>1. holder'.at # "start"
    BY <1>3, <1>a, Names, PlacedFields, OutcomesAreElsewhere DEF CallStop, StopReturns, StopFails, At
  <2>2. Elsewhere
    BY <1>3, <2>1 DEF CallStop, StopReturns, StopFails, StopBegin, JoinWorker, JoinTimesOut, StopRaises, Elsewhere
  <2> QED
    BY <2>2, ElsewhereKeeps
<1>4. CASE CallConfigure \/ ConfigureFails
  <2>1. holder' = [holder EXCEPT !.at = "gate"] \/ Done(Wanted) \/ CallFailed(Wanted) \/ CallFailed(settings)
    BY <1>4 DEF CallConfigure, ConfigureFails
  <2>2. holder'.at # "start"
    BY <2>1, <1>a, Names, PlacedFields, TurnedFields, OutcomesAreElsewhere
  <2>3. Elsewhere
    BY <1>4, <2>2 DEF CallConfigure, ConfigureFails, Configure, Elsewhere, inferenceVars
  <2> QED
    BY <2>3, ElsewhereKeeps
<1>5. CASE EnterGate
  <2>1. CASE shutdown \/ (Measuring /\ cancelled)
    <3>1. Elsewhere
      BY <1>5, <2>1, <1>a, Names, PlacedFields, TurnedFields, OutcomesAreElsewhere DEF EnterGate, Elsewhere, inferenceVars
    <3> QED
      BY <3>1, ElsewhereKeeps
  <2>2. CASE ~(shutdown \/ (Measuring /\ cancelled))
    BY <1>5, <2>2 DEF EnterGate, Gated, At, inferenceVars
  <2> QED
    BY <2>1, <2>2
<1>6. CASE CallStart
  <2>1. holder'.at # "start"
    BY <1>6, <1>a, Names, PlacedFields, TurnedFields, OutcomesAreElsewhere DEF CallStart, Started, At
  <2>2. holder.at = "start" /\ gate' = "free" /\ UNCHANGED <<draining, shutdown>>
    BY <1>6 DEF CallStart
  <2> QED
    BY <2>1, <2>2 DEF Gated
<1>7. CASE AwaitReady \/ Measure
  <2>1. holder'.at # "start"
    BY <1>7, <1>a, Names, AtFields, TurnFields, OutcomesAreElsewhere DEF AwaitReady, Measure, Stream
  <2>2. Elsewhere
    BY <1>7, <2>1 DEF AwaitReady, Measure, Elsewhere, inferenceVars
  <2> QED
    BY <2>2, ElsewhereKeeps
<1>8. CASE CallInstall \/ InstallReturns
  <2>1. holder'.at # "start"
    BY <1>8, <1>a, Names, PlacedFields, TurnedFields, OutcomesAreElsewhere DEF CallInstall, InstallReturns, At
  <2>2. Elsewhere
    BY <1>8, <2>1 DEF CallInstall, InstallReturns, InstallBegin, InstallSpawn, Elsewhere, inferenceVars
  <2> QED
    BY <2>2, ElsewhereKeeps
<1>9. CASE CancelTrial \/ DoctorChecks \/ DoctorStops \/ DoctorReturns
  <2>1. Elsewhere
    BY <1>9 DEF CancelTrial, DoctorChecks, DoctorStops, DoctorReturns, DoctorKeeps, StopBegin, StopRaises,
                JoinWorker, JoinTimesOut, Elsewhere, inferenceVars
  <2> QED
    BY <2>1, ElsewhereKeeps
<1>10. CASE StartDraining \/ Signal \/ Joined
  BY <1>10 DEF StartDraining, Signal, Joined, DrainKeeps, Gated, inferenceVars
<1>11. CASE LastStop \/ DrainStops
  BY <1>11 DEF LastStop, DrainStops, StopBegin, DrainKeeps, Gated, inferenceVars
<1>12. CASE LastStopReturns
  BY <1>12 DEF LastStopReturns, JoinWorker, JoinTimesOut, StopRaises, DrainKeeps, Gated
<1>13. CASE ManagerAlone
  <2>1. Elsewhere
    BY <1>13, AloneKeepsTheAnswer DEF ManagerAlone, tuningVars, Elsewhere
  <2> QED
    BY <2>1, ElsewhereKeeps
<1>14. CASE UNCHANGED allVars
  BY <1>14, ElsewhereKeeps DEF allVars, tuningVars, inferenceVars, Elsewhere
<1>15. CASE EngineEnds
  BY <1>15, ReleasedFields DEF EngineEnds, Gated
<1> QED
  BY <1>15, <1>1, <1>2, <1>3, <1>4, <1>5, <1>6, <1>7, <1>8, <1>9, <1>10, <1>11, <1>12, <1>13, <1>14 DEF TuningNext

(* No address and no server survive the last stop of the drain, and nobody  *)
(* starts a server after it: the gate orders every start before the stop,   *)
(* or after the shutdown was seen (_start_if_allowed, drain_jobs).          *)
THEOREM NothingStartsAfterTheDrain == TuningSpec => []ShutdownStopsTheServer
<1>1. TuningInit => TuningTypes /\ Managed /\ Gated
  BY InitIsTyped DEF TuningInit, InferenceInit, Managed, Gated
<1>2. TuningTypes /\ Managed /\ Gated /\ [TuningNext]_allVars => (TuningTypes /\ Managed /\ Gated)'
  BY StepsAreManaged, ManagedStep, TuningTypesStep, GatedStep
<1>3. Managed /\ Gated => ShutdownStopsTheServer
  BY DEF Managed, Gated, ShutdownStopsTheServer, StoppedMeansGone
<1> QED
  BY <1>1, <1>2, <1>3, PTL DEF TuningSpec, allVars

----------------------------------------------------------------------------
(* The settings.                                                            *)

(* The settings are the user's, or it is known why they are not.            *)
Settled == settings = "chosen" \/ unrestored # "no"

(* What a goal has to do with the lock, and where the settings are already  *)
(* those that the holder has found.                                         *)
Borrowed ==
    /\ holder.goal \in {"baseline", "candidate", "complete", "abandon"} => holder.lock = "trial"
    /\ holder.goal \in {"apply", "undo"} => holder.lock = "apply"
    /\ holder.goal \in {"none", "route"} => Settled /\ holder.base = "chosen"
    /\ holder.at = "check" => holder.goal \in {"baseline", "apply"} /\ Settled
    /\ holder.at \in {"begin", "measure"} => Measuring
    /\ holder.at \in {"install", "installing"} => holder.goal = "route"
    /\ holder.goal \in {"complete", "abandon", "undo"} /\ holder.at \in {"gate", "start", "ready"}
          => Settled
    /\ holder.base = "trial" => settings = "trial" /\ unrestored # "no"
    /\ Settled \/ holder.lock \in {"trial", "apply"}

(* The same holder at another place, with the settings as they are.         *)
LEMMA MovedBorrows ==
    ASSUME Borrowed, holder'.goal = holder.goal, holder'.lock = holder.lock, holder'.base = holder.base,
           UNCHANGED <<settings, unrestored>>,
           holder'.at \in {"stop", "stopping", "configure", "gate", "start", "ready", "measure"},
           holder'.at = "gate" => holder.goal \notin {"complete", "abandon", "undo"} \/ Settled,
           holder'.at \in {"start", "ready"} => holder.at \in {"gate", "start", "ready"},
           holder'.at = "measure" => Measuring
    PROVE  Borrowed'
  BY DEF Borrowed, Measuring, Settled

(* The lock is free again, and the settings are accounted for.              *)
LEMMA FreedBorrows == ASSUME holder' = Nobody, Settled' PROVE Borrowed'
  BY ReleasedFields DEF Borrowed, Measuring

(* An exception leaves a candidate in place when the lock is kept, or with  *)
(* a report.                                                                *)
LEMMA FailedBorrows ==
    ASSUME TuningTypes, Borrowed, CallFailed(settings) \/ (holder.at = "configure" /\ CallFailed(Wanted))
    PROVE  Borrowed'
<1>a. /\ holder \in Holders /\ settings \in {"chosen", "trial"}
      /\ holder.base \in {"chosen", "trial"}
      /\ holder.goal \in Goals /\ holder.lock \in {"free", "trial", "apply", "route"}
  BY DEF TuningTypes, Holders
<1>1. PICK left \in {settings, Wanted} : CallFailed(left)
  OBVIOUS
<1>2. holder.base = "trial" => left = "trial"
  BY <1>1 DEF Borrowed, Wanted
<1>3. CASE holder' = Nobody
  <2>1. holder.lock # "route" => Settled'
    BY <1>1, <1>3 DEF CallFailed, Set, Settled
  <2>2. holder.lock = "route" => left = "chosen" \/ (left = "trial" /\ unrestored # "no")
    <3>1. holder.lock = "route" => holder.goal \in {"none", "route"}
      BY <1>a DEF Borrowed, Goals
    <3> QED
      BY <3>1, <1>1, <1>a DEF Borrowed, Settled, Wanted
  <2>3. holder.lock = "route" => Settled'
    BY <1>1, <1>3, <2>2 DEF CallFailed, Set, Settled
  <2> QED
    BY <1>3, <2>1, <2>3, FreedBorrows
<1>4. CASE holder' # Nobody
  <2>1. \/ holder.goal = "candidate" /\ holder'.goal = "candidate" /\ holder'.at = "begin" /\ holder'.lock = holder.lock
        \/ holder.goal = "baseline" /\ holder'.goal = "abandon" /\ holder'.at = "stop" /\ holder'.lock = holder.lock
        \/ holder.goal = "apply" /\ holder'.goal = "undo" /\ holder'.at = "stop" /\ holder'.lock = holder.lock
    BY <1>1, <1>4, <1>a, FailedCases
  <2>2. holder'.base = holder.base
    BY <1>1, <1>4, <1>a, FailedBase
  <2>3. settings' = left /\ (left = "trial" => unrestored' = unrestored)
    BY <1>1, <1>4 DEF CallFailed, Set
  <2> QED
    BY <2>1, <2>2, <2>3, <1>2 DEF Borrowed, Measuring
<1> QED
  BY <1>3, <1>4

(* What is done leaves settings that are accounted for.                     *)
LEMMA DoneBorrows ==
    ASSUME NEW left \in {"chosen", "trial"}, Done(left),
           left = "chosen" \/ unrestored # "no" \/ holder.goal = "apply"
    PROVE  Borrowed'
<1>1. Settled'
  BY DEF Done, Set, Settled
<1> QED
  BY <1>1, FreedBorrows DEF Done

LEMMA WithdrawnBorrows ==
    ASSUME TuningTypes, Borrowed, Withdrawn, holder.at \in {"gate", "ready", "measure"}
    PROVE  Borrowed'
<1>1. CASE Measuring
  <2>1. /\ holder'.goal = "abandon" /\ holder'.at = "stop" /\ holder'.lock = holder.lock
        /\ holder'.base = holder.base /\ UNCHANGED <<settings, unrestored>>
    BY <1>1, Names, TurnFields DEF Withdrawn, Turn, TuningTypes
  <2> QED
    BY <1>1, <2>1 DEF Borrowed, Measuring, Settled
<1>2. CASE ~Measuring
  <2>1. Settled \/ holder.goal = "apply"
    BY <1>2 DEF Borrowed, Measuring, TuningTypes, Holders, Goals
  <2>2. settings \in {"chosen", "trial"}
    BY DEF TuningTypes
  <2> QED
    BY <1>2, <2>1, <2>2, DoneBorrows DEF Withdrawn, Settled
<1> QED
  BY <1>1, <1>2

LEMMA BorrowedStep ==
    ASSUME TuningTypes, Borrowed, [TuningNext]_allVars
    PROVE  Borrowed'
<1>a. /\ settings \in {"chosen", "trial"} /\ holder \in Holders
      /\ holder.base \in {"chosen", "trial"}
      /\ holder.goal \in {"none", "baseline", "candidate", "complete", "abandon", "apply", "undo", "route"}
  BY DEF TuningTypes, Holders, Goals
<1>1. CASE StartTrial \/ StartApply \/ StartRoute
  <2>1. holder = Nobody /\ UNCHANGED <<settings, unrestored>>
    BY <1>1 DEF StartTrial, StartApply, StartRoute, BeginKeeps
  <2>2. Settled
    BY <2>1 DEF Borrowed, Nobody
  <2> QED
    BY <1>1, <2>1, <2>2, BegunCases DEF Borrowed, Measuring, Settled
<1>2. CASE CheckState
  <2>1. /\ holder'.goal = holder.goal /\ holder'.lock = holder.lock /\ holder'.base = settings
        /\ UNCHANGED <<settings, unrestored>>
        /\ holder'.at = IF holder.goal = "apply" THEN "stop" ELSE "begin"
    BY <1>2, <1>a DEF CheckState, Holders, Places
  <2>2. Settled /\ holder.goal \in {"baseline", "apply"}
    BY <1>2 DEF CheckState, Borrowed
  <2> QED
    BY <2>1, <2>2, <1>a DEF Borrowed, Measuring, Settled
<1>3. CASE CheckFails
  <2>1. Settled'
    BY <1>3 DEF CheckFails, Borrowed, Settled
  <2> QED
    BY <1>3, <2>1, FreedBorrows DEF CheckFails
<1>4. CASE BeginMeasurement
  <2>1. CASE holder' = [holder EXCEPT !.tried = @ + 1, !.at = "stop"] /\ UNCHANGED <<settings, unrestored>>
    <3>1. holder'.at = "stop" /\ holder'.goal = holder.goal /\ holder'.lock = holder.lock /\ holder'.base = holder.base
      BY <2>1, <1>a, CountedFields
    <3> QED
      BY <2>1, <3>1, MovedBorrows
  <2>2. CASE At("stop")
    <3>1. holder'.at = "stop" /\ holder'.goal = holder.goal /\ holder'.lock = holder.lock /\ holder'.base = holder.base
      BY <2>2, <1>a, Names, AtFields
    <3> QED
      BY <2>2, <3>1, MovedBorrows DEF At
  <2>3. ASSUME NEW goal \in {"complete", "abandon"}, Turn(goal, "stop")
        PROVE  Borrowed'
    <3>1. holder'.at = "stop" /\ holder'.goal = goal /\ holder'.lock = holder.lock /\ holder'.base = holder.base
      BY <2>3, <1>a, Names, TurnFields
    <3>2. Measuring
      BY <1>4 DEF BeginMeasurement, Borrowed
    <3> QED
      BY <2>3, <3>1, <3>2 DEF Turn, Borrowed, Measuring, Settled
  <2> QED
    BY <1>4, <2>1, <2>2, <2>3 DEF BeginMeasurement
<1>5. CASE CallStop
  <2>1. holder'.at = "stopping" /\ holder'.goal = holder.goal /\ holder'.lock = holder.lock /\ holder'.base = holder.base
    BY <1>5, <1>a, Names, AtFields DEF CallStop
  <2> QED
    BY <1>5, <2>1, MovedBorrows DEF CallStop, At
<1>6. CASE StopReturns
  <2>1. CASE holder.goal = "route"
    BY <1>6, <2>1, <1>a, DoneBorrows DEF StopReturns, Borrowed, Settled
  <2>2. CASE holder.goal # "route"
    <3>1. holder'.at = "configure" /\ holder'.goal = holder.goal /\ holder'.lock = holder.lock /\ holder'.base = holder.base
      BY <1>6, <2>2, <1>a, Names, AtFields DEF StopReturns
    <3> QED
      BY <1>6, <2>2, <3>1, MovedBorrows DEF StopReturns, At
  <2> QED
    BY <2>1, <2>2
<1>7. CASE StopFails \/ ConfigureFails
  BY <1>7, FailedBorrows DEF StopFails, ConfigureFails
<1>8. CASE CallConfigure
  <2>1. CASE (Measuring \/ holder.was) /\ holder' = [holder EXCEPT !.at = "gate"] /\ Set(Wanted, unrestored)
    <3>1. holder'.at = "gate" /\ holder'.goal = holder.goal /\ holder'.lock = holder.lock /\ holder'.base = holder.base
      BY <2>1, <1>a, Names, PlacedFields
    <3>2. settings' = Wanted /\ (Wanted = "trial" => unrestored' = unrestored)
      BY <2>1 DEF Set
    <3>3. CASE holder.goal \in {"candidate", "apply"}
      BY <3>1, <3>2, <3>3 DEF Borrowed, Measuring, Wanted, Settled
    <3>4. CASE holder.goal \in {"none", "route"}
      BY <3>1, <3>2, <3>4 DEF Borrowed, Measuring, Wanted, Settled
    <3>5. CASE holder.goal \in {"baseline", "complete", "abandon", "undo"}
      BY <1>a, <3>1, <3>2, <3>5 DEF Borrowed, Measuring, Wanted, Settled
    <3> QED
      BY <1>a, <3>3, <3>4, <3>5
  <2>2. CASE ~Measuring /\ Done(Wanted)
    <3>1. Wanted \in {"chosen", "trial"} /\ (Wanted = "chosen" \/ unrestored # "no" \/ holder.goal = "apply")
      BY <2>2, <1>a DEF Wanted, Measuring, Borrowed
    <3> QED
      BY <2>2, <3>1, DoneBorrows
  <2>3. CASE CallFailed(Wanted)
    BY <1>8, <2>3, FailedBorrows DEF CallConfigure
  <2> QED
    BY <1>8, <2>1, <2>2, <2>3 DEF CallConfigure
<1>9. CASE EnterGate
  <2>1. CASE Withdrawn
    BY <1>9, <2>1, WithdrawnBorrows DEF EnterGate
  <2>2. CASE At("start")
    <3>1. holder'.at = "start" /\ holder'.goal = holder.goal /\ holder'.lock = holder.lock /\ holder'.base = holder.base
      BY <2>2, <1>a, Names, AtFields
    <3> QED
      BY <1>9, <2>2, <3>1, MovedBorrows DEF EnterGate, At
  <2> QED
    BY <1>9, <2>1, <2>2 DEF EnterGate
<1>10. CASE CallStart
  <2>1. CASE Started
    <3>1. CASE holder.goal = "route"
      BY <2>1, <3>1, <1>a, DoneBorrows DEF Started, Borrowed, Settled
    <3>2. CASE holder.goal # "route"
      <4>1. holder'.at = "ready" /\ holder'.goal = holder.goal /\ holder'.lock = holder.lock /\ holder'.base = holder.base
        BY <2>1, <3>2, <1>a, Names, AtFields DEF Started
      <4> QED
        BY <1>10, <2>1, <3>2, <4>1, MovedBorrows DEF CallStart, Started, At
    <3> QED
      BY <3>1, <3>2
  <2>2. CASE CallFailed(settings)
    BY <2>2, FailedBorrows
  <2> QED
    BY <1>10, <2>1, <2>2 DEF CallStart
<1>11. CASE AwaitReady
  <2>1. CASE Withdrawn
    BY <1>11, <2>1, WithdrawnBorrows DEF AwaitReady
  <2>2. CASE Measuring /\ At("measure")
    <3>1. holder'.at = "measure" /\ holder'.goal = holder.goal /\ holder'.lock = holder.lock /\ holder'.base = holder.base
      BY <2>2, <1>a, Names, AtFields
    <3> QED
      BY <2>2, <3>1, MovedBorrows DEF At
  <2>3. CASE ~Measuring /\ Done(settings)
    <3>1. Settled \/ holder.goal = "apply"
      BY <1>11, <2>3, <1>a DEF AwaitReady, Borrowed, Measuring
    <3> QED
      BY <2>3, <3>1, <1>a, DoneBorrows DEF Settled
  <2>4. CASE CallFailed(settings)
    BY <2>4, FailedBorrows
  <2> QED
    BY <1>11, <2>1, <2>2, <2>3, <2>4 DEF AwaitReady
<1>12. CASE Measure
  <2>1. CASE Withdrawn
    BY <1>12, <2>1, WithdrawnBorrows DEF Measure
  <2>2. CASE Turn("candidate", "begin")
    <3>1. holder'.at = "begin" /\ holder'.goal = "candidate" /\ holder'.lock = holder.lock /\ holder'.base = holder.base
      BY <2>2, <1>a, Names, TurnFields
    <3> QED
      BY <1>12, <2>2, <3>1 DEF Measure, Turn, Borrowed, Measuring, Settled
  <2>3. CASE CallFailed(settings)
    BY <2>3, FailedBorrows
  <2> QED
    BY <1>12, <2>1, <2>2, <2>3 DEF Measure, Stream
<1>13. CASE CallInstall
  <2>1. CASE At("installing")
    <3>1. holder'.at = "installing" /\ holder'.goal = holder.goal /\ holder'.lock = holder.lock /\ holder'.base = holder.base
      BY <2>1, <1>a, Names, AtFields
    <3> QED
      BY <1>13, <2>1, <3>1 DEF CallInstall, At, Borrowed, Measuring, Settled
  <2>2. CASE Done(settings)
    BY <1>13, <2>2, <1>a, DoneBorrows DEF CallInstall, Borrowed, Settled
  <2> QED
    BY <1>13, <2>1, <2>2 DEF CallInstall
<1>14. CASE InstallReturns
  BY <1>14, <1>a, DoneBorrows DEF InstallReturns, Borrowed, Settled
<1>15. CASE UNCHANGED <<holder, settings, unrestored>>
  BY <1>15 DEF Borrowed, Measuring, Settled
<1>16. CASE CancelTrial \/ DoctorChecks \/ DoctorStops \/ DoctorReturns
  BY <1>15, <1>16 DEF CancelTrial, DoctorChecks, DoctorStops, DoctorReturns, DoctorKeeps
<1>17. CASE StartDraining \/ Signal \/ Joined \/ LastStop \/ DrainStops \/ LastStopReturns
  BY <1>15, <1>17 DEF StartDraining, Signal, Joined, LastStop, DrainStops, LastStopReturns, DrainKeeps
<1>18. CASE ManagerAlone \/ UNCHANGED allVars
  BY <1>15, <1>18 DEF ManagerAlone, allVars, tuningVars
<1>19. CASE EngineEnds
  <2>1. Settled'
    BY <1>19, <1>a DEF EngineEnds, Settled
  <2> QED
    BY <1>19, <2>1, FreedBorrows DEF EngineEnds
<1> QED
  BY <1>1, <1>2, <1>3, <1>4, <1>5, <1>6, <1>7, <1>8, <1>9, <1>10, <1>11, <1>12, <1>13, <1>14, <1>16, <1>17, <1>18, <1>19 DEF TuningNext

----------------------------------------------------------------------------
(* Who answers a measurement.                                               *)

(* No address, and no worker that could still publish one.                  *)
Quiet == ~served /\ (worker = "none" \/ halt)

(* Between its own stop and its own start a trial finds nothing that could  *)
(* answer in the place of its candidate; afterwards the server that answers *)
(* is the one it has started.                                               *)
Honest ==
    /\ holder.at \in {"configure", "gate", "start"} /\ holder.goal # "route" => Quiet
    /\ holder.at \in {"ready", "measure"} => matching \/ Quiet

(* Only start() and install_runtime() clear the event.                      *)
LEMMA OthersAreQuiet ==
    ASSUME Quiet,
           \/ ManagerAlone \/ Configure \/ StopBegin \/ StopRaises \/ JoinWorker \/ JoinTimesOut
           \/ UNCHANGED inferenceVars
    PROVE  Quiet'
<1> USE DEF Quiet
<1>1. CASE Configure \/ StopBegin \/ StopRaises \/ JoinWorker \/ JoinTimesOut
  BY <1>1 DEF Configure, StopBegin, StopRaises, JoinWorker, JoinTimesOut
<1>2. CASE StopAnnounces \/ JoinInstaller \/ Notice \/ ServerExits \/ Warmed
  BY <1>2 DEF StopAnnounces, JoinInstaller, Notice, ServerExits, Warmed
<1>3. CASE WorkerStep
  BY <1>3 DEF WorkerStep, WorkerFails, Probe, Launch, AwaitHealth, PublishEndpoint, StopServing, Cleanup, WorkerKeeps
<1>4. CASE Downloaded \/ Installed \/ InstallFails
  BY <1>4 DEF Downloaded, Installed, InstallFails, InstallerKeeps
<1>5. CASE UNCHANGED inferenceVars
  BY <1>5 DEF inferenceVars
<1> QED
  BY <1>1, <1>2, <1>3, <1>4, <1>5 DEF ManagerAlone

(* A step of somebody else than the holder.                                 *)
LEMMA OthersAreHonest ==
    ASSUME Honest, UNCHANGED <<holder, matching>>, Quiet => Quiet'
    PROVE  Honest'
  BY DEF Honest

(* A place where neither clause says anything.                              *)
LEMMA AwayIsHonest ==
    ASSUME holder'.at \notin {"configure", "gate", "start", "ready", "measure"}
    PROVE  Honest'
  BY DEF Honest

LEMMA FailedIsHonest ==
    ASSUME holder \in Holders, NEW left, CallFailed(left)
    PROVE  Honest'
  BY FailedCases, ReleasedFields, AwayIsHonest

LEMMA DoneIsHonest == ASSUME NEW left, Done(left) PROVE Honest'
  BY ReleasedFields, AwayIsHonest DEF Done

LEMMA WithdrawnIsHonest == ASSUME holder \in Holders, Withdrawn PROVE Honest'
<1>1. Turn("abandon", "stop") \/ Done(settings)
  BY DEF Withdrawn
<1> QED
  BY <1>1, Names, TurnFields, DoneIsHonest, AwayIsHonest

LEMMA HonestStep ==
    ASSUME TuningTypes, Managed, Honest, [TuningNext]_allVars
    PROVE  Honest'
<1>a. holder \in Holders
  BY DEF TuningTypes
<1>1. CASE StartTrial \/ StartApply \/ StartRoute
  BY <1>1, BegunCases DEF Honest
<1>2. CASE CheckState
  <2>1. holder'.at \in {"stop", "begin"}
    BY <1>2, <1>a DEF CheckState, Holders, Places
  <2> QED
    BY <2>1, AwayIsHonest
<1>3. CASE CheckFails
  BY <1>3, ReleasedFields, AwayIsHonest DEF CheckFails
<1>4. CASE BeginMeasurement
  <2>1. CASE holder' = [holder EXCEPT !.tried = @ + 1, !.at = "stop"]
    BY <2>1, <1>a, CountedFields, AwayIsHonest
  <2>2. CASE At("stop")
    BY <2>2, <1>a, Names, AtFields, AwayIsHonest
  <2>3. ASSUME NEW goal \in {"complete", "abandon"}, Turn(goal, "stop")
        PROVE  Honest'
    BY <2>3, <1>a, Names, TurnFields, AwayIsHonest
  <2> QED
    BY <1>4, <2>1, <2>2, <2>3 DEF BeginMeasurement
<1>5. CASE CallStop
  BY <1>5, <1>a, Names, AtFields, AwayIsHonest DEF CallStop
<1>6. CASE StopReturns
  <2>1. CASE holder.goal = "route"
    BY <1>6, <2>1, DoneIsHonest DEF StopReturns
  <2>2. CASE holder.goal # "route"
    <3>1. holder'.at = "configure"
      BY <1>6, <2>2, <1>a, Names, AtFields DEF StopReturns
    <3>2. Quiet'
      BY <1>6 DEF StopReturns, JoinWorker, JoinTimesOut, Managed, Quiet
    <3> QED
      BY <3>1, <3>2 DEF Honest
  <2> QED
    BY <2>1, <2>2
<1>7. CASE StopFails \/ ConfigureFails
  BY <1>7, <1>a, FailedIsHonest DEF StopFails, ConfigureFails
<1>8. CASE CallConfigure
  <2>1. CASE holder' = [holder EXCEPT !.at = "gate"]
    <3>1. holder'.at = "gate" /\ holder'.goal = holder.goal
      BY <2>1, <1>a, Names, PlacedFields
    <3> QED
      BY <1>8, <3>1, OthersAreQuiet DEF CallConfigure, Honest
  <2> QED
    BY <1>8, <2>1, <1>a, DoneIsHonest, FailedIsHonest DEF CallConfigure
<1>9. CASE EnterGate
  <2>1. CASE At("start")
    <3>1. holder'.at = "start" /\ holder'.goal = holder.goal
      BY <2>1, <1>a, Names, AtFields
    <3> QED
      BY <1>9, <3>1, OthersAreQuiet DEF EnterGate, Honest
  <2> QED
    BY <1>9, <2>1, <1>a, WithdrawnIsHonest DEF EnterGate
<1>10. CASE CallStart
  <2>1. CASE holder.goal # "route" /\ At("ready")
    <3>1. holder'.at = "ready"
      BY <2>1, <1>a, Names, AtFields
    <3>2. matching' \/ Quiet'
      BY <1>10, <2>1, OthersAreQuiet DEF CallStart, Honest
    <3> QED
      BY <3>1, <3>2 DEF Honest
  <2> QED
    BY <1>10, <2>1, <1>a, DoneIsHonest, FailedIsHonest DEF CallStart, Started
<1>11. CASE AwaitReady
  <2>1. CASE At("measure")
    <3>1. holder'.at = "measure"
      BY <2>1, <1>a, Names, AtFields
    <3> QED
      BY <1>11, <3>1, OthersAreQuiet DEF AwaitReady, Honest
  <2> QED
    BY <1>11, <2>1, <1>a, WithdrawnIsHonest, DoneIsHonest, FailedIsHonest DEF AwaitReady
<1>12. CASE Measure
  <2>1. CASE Turn("candidate", "begin")
    BY <2>1, <1>a, Names, TurnFields, AwayIsHonest
  <2> QED
    BY <1>12, <2>1, <1>a, WithdrawnIsHonest, FailedIsHonest DEF Measure, Stream
<1>13. CASE CallInstall \/ InstallReturns
  <2>1. CASE At("installing")
    BY <2>1, <1>a, Names, AtFields, AwayIsHonest
  <2> QED
    BY <1>13, <2>1, DoneIsHonest DEF CallInstall, InstallReturns
<1>14. CASE CancelTrial \/ DoctorChecks \/ DoctorStops \/ DoctorReturns
  BY <1>14, OthersAreQuiet, OthersAreHonest DEF CancelTrial, DoctorChecks, DoctorStops, DoctorReturns, DoctorKeeps
<1>15. CASE StartDraining \/ Signal \/ Joined \/ LastStop \/ DrainStops \/ LastStopReturns
  BY <1>15, OthersAreQuiet, OthersAreHonest
  DEF StartDraining, Signal, Joined, LastStop, DrainStops, LastStopReturns, DrainKeeps
<1>16. CASE ManagerAlone \/ UNCHANGED allVars
  BY <1>16, OthersAreQuiet, OthersAreHonest DEF ManagerAlone, allVars, tuningVars
<1>17. CASE EngineEnds
  BY <1>17, ReleasedFields, AwayIsHonest DEF EngineEnds
<1> QED
  BY <1>17, <1>1, <1>2, <1>3, <1>4, <1>5, <1>6, <1>7, <1>8, <1>9, <1>10, <1>11, <1>12, <1>13, <1>14, <1>15, <1>16 DEF TuningNext

(* Settings that the user has not chosen are in place only while a trial or *)
(* an application holds the lock, or after its restoration has failed and   *)
(* said so, or after the end of the process; and a measurement is answered  *)
(* by the server that was started for it (inference_tuning.py).             *)
THEOREM TrialsAreTemporaryAndHonest == TuningSpec => []CandidatesAreTemporary
<1> DEFINE IInv == TuningTypes /\ Managed /\ Borrowed /\ Honest
<1>1. TuningInit => IInv
  BY InitIsTyped DEF TuningInit, InferenceInit, Managed, Borrowed, Honest, Measuring, Settled, Nobody
<1>2. IInv /\ [TuningNext]_allVars => IInv'
  BY StepsAreManaged, ManagedStep, TuningTypesStep, BorrowedStep, HonestStep
<1>3. IInv => CandidatesAreTemporary
  BY DEF TuningTypes, Borrowed, Settled, Honest, Quiet, CandidatesAreTemporary
<1> QED
  BY <1>1, <1>2, <1>3, PTL DEF TuningSpec, allVars
============================================================================
