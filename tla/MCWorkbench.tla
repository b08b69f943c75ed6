---------------------------- MODULE MCWorkbench ----------------------------
(* The workbench server and what its tasks share: a behaviour is one of    *)
(* the run of an agent, with its resumptions, of the tasks of the server,  *)
(* with stop requests and kills, of the engine processes and the apps that *)
(* share them, or of the index of the sources; the other parts rest.       *)
EXTENDS AgentRun, JobLifecycle, EngineSharing, CodeIndex, TLC

VARIABLE part

WorkbenchInit ==
    /\ part \in {"run", "jobs", "engines", "index"}
    /\ Init /\ JobsInit /\ SharingInit
    /\ IndexInit /\ (part # "index" => source = Nothing)

RunStep == part = "run" /\ Next /\ UNCHANGED <<jobVars, sharingVars, indexVars, part>>
JobStep == part = "jobs" /\ JobsNext /\ UNCHANGED <<vars, sharingVars, indexVars, part>>
SharingStep == part = "engines" /\ SharingNext /\ UNCHANGED <<vars, jobVars, indexVars, part>>
IndexStep == part = "index" /\ IndexNext /\ UNCHANGED <<vars, jobVars, sharingVars, part>>

WorkbenchSpec ==
    /\ WorkbenchInit
    /\ [][RunStep \/ JobStep \/ SharingStep \/ IndexStep]_
            <<vars, jobVars, sharingVars, indexVars, part>>

(* Tasks are interchangeable, windows of the editor and files too; they    *)
(* are named by the same values.                                           *)
Symmetry == Permutations(Jobs)
=============================================================================
