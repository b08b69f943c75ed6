----------------------------- MODULE MCStorage -----------------------------
(* What is kept of the work: a behaviour is one of the session store, of   *)
(* the snapshots of files, of a git checkpoint, of the goal ledger, of the *)
(* memories of code, or of the ledger of requests; the others rest.        *)
EXTENDS SessionStore, FileEdits, GitCheckpoints, GoalLedger, ContextMemory, RequestAdmission, TLC

VARIABLE part

\* The goals: "next" waits for "child", which is a part of "parent".
MCParent == [g \in Goals |-> IF g = "child" THEN "parent" ELSE NOGOAL]
MCDeps == [g \in Goals |-> IF g = "next" THEN {"child"} ELSE {}]

StorageInit ==
    /\ part \in {"sessions", "files", "git", "goals", "memories", "requests"}
    /\ Init /\ FileInit /\ AdmissionInit
    /\ GitInit /\ (part # "git" => head = [f \in WorkFiles |-> ABSENT])
    /\ GoalInit /\ (part # "goals" => revision = CHOOSE r \in Revisions : TRUE)
    /\ MemoryInit /\ (part # "memories" => file = [s \in Sources |-> GONE])

SessionStep == part = "sessions" /\ Next /\ UNCHANGED <<fileVars, gitVars, goalVars, memoryVars, admissionVars, part>>
FileStep == part = "files" /\ FileNext /\ UNCHANGED <<vars, gitVars, goalVars, memoryVars, admissionVars, part>>
GitStep == part = "git" /\ GitNext /\ UNCHANGED <<vars, fileVars, goalVars, memoryVars, admissionVars, part>>
GoalStep == part = "goals" /\ GoalNext /\ UNCHANGED <<vars, fileVars, gitVars, memoryVars, admissionVars, part>>
MemoryStep == part = "memories" /\ MemoryNext /\ UNCHANGED <<vars, fileVars, gitVars, goalVars, admissionVars, part>>

RequestStep ==
    part = "requests" /\ AdmissionNext /\ UNCHANGED <<vars, fileVars, gitVars, goalVars, memoryVars, part>>

storageVars == <<vars, fileVars, gitVars, goalVars, memoryVars, admissionVars, part>>

\* Only the terminals of the session store, and indexers, always have something left to do.
Bounded == part \in {"files", "git", "goals", "requests"} /\ UNCHANGED storageVars

StorageSpec ==
    /\ StorageInit
    /\ [][SessionStep \/ FileStep \/ GitStep \/ GoalStep \/ MemoryStep \/ RequestStep \/ Bounded]_storageVars

(* Processes are also the agents, the writers of goals, the indexers and the *)
(* free requests; Files those of the repository and the other requests.      *)
Symmetry == Permutations(Processes) \union Permutations(Files)
=============================================================================
