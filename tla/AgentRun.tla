------------------------------ MODULE AgentRun ------------------------------
(***************************************************************************)
(* One durable agent run: the tool-calling loop of agents/base.py, the     *)
(* checkpoint, pending-batch journal and final-result files of             *)
(* core/runtime.py, the batch scheduler of tools/scheduling.py, and the    *)
(* resume path of orchestrator/coordinator.py.                             *)
(*                                                                         *)
(* The process may stop between any two steps (ProcessDies), or the run    *)
(* may be cancelled (a stop request, a task deadline, an I/O error:        *)
(* CancelRun). What survives is the three files and the workspace, and     *)
(* after a cancellation the thread in which a tool was writing, which goes *)
(* on (LateWrite). A user may edit the workspace file at any time.         *)
(*                                                                         *)
(* Abstractions.  The workspace is one source file, identified by the      *)
(* version of its content.  A conversation is what the properties tell     *)
(* apart: the counters that AgentState and the notes carry, the version of *)
(* the file the model was shown, the digest recorded for it, and the       *)
(* effects whose tool results it contains.  A temporary file followed by   *)
(* os.replace is one step, since the replacement is atomic.                *)
(***************************************************************************)
EXTENDS Integers, Sequences, FiniteSets

CONSTANTS
    MaxIterations,    \* AgentState.max_iterations
    MaxToolCalls,     \* AgentState.max_tool_calls
    MaxTestRuns,      \* AgentState.max_test_runs
    StrategyLimit,    \* strategy_attempt_limit
    AbortThreshold,   \* stagnation_abort_threshold
    ToolConcurrency,  \* the concurrency argument of scheduled_calls
    Tools,            \* the tools the model calls
    MaxBatch,         \* bound: tool calls in one response
    MaxSummaries,     \* bound: summaries made while compacting
    MaxInterrupts,    \* bound: interruptions of the process
    MaxVersion        \* bound: a user stops editing at this version

AllTools == {"read_file", "grep", "write_file", "run_tests"}

ASSUME ConstantsAssumption ==
    /\ {MaxIterations, MaxToolCalls, MaxBatch, AbortThreshold, ToolConcurrency} \subseteq Nat \ {0}
    /\ {MaxTestRuns, StrategyLimit, MaxSummaries, MaxInterrupts, MaxVersion} \subseteq Nat
    /\ Tools \subseteq AllTools

(* tools/scheduling.py: only the built-in reads are declared concurrent;   *)
(* every other tool is treated as mutating.                                *)
Concurrent(tool) == tool \in {"read_file", "grep"}
Mutating(tool) == ~Concurrent(tool)

(* The loop records result digests for these tools only (agents/base.py);  *)
(* the digests that grep returns are not recorded.                         *)
Hashed(tool) == tool \in {"read_file", "write_file"}
-----------------------------------------------------------------------------
VARIABLES
    checkpoints,   \* checkpoint_<run>_<n>.json: a set of saved states, one per iteration
    pending,       \* run_<run>_pending.json: the journal of the open tool batch
    final,         \* run_<run>_final.json: the status of the finished run, or "none"
    version,       \* content version of the workspace file
    pc,            \* where the process is; "off" when no process holds the run
    state,         \* AgentState and the loop's own counters, in memory
    batch,         \* the calls of the current response with their progress
    next,          \* the first call whose result the loop has not consumed
    first,         \* the first call of the group in flight
    response,      \* how the loop leaves its next boundary
    runs,          \* history: how often each call slot of a round was invoked
    effects,       \* history: the call slots whose mutation was applied
    lastTest,      \* history: result of the last test run that finished
    interrupts,    \* history: interruptions so far
    threads        \* the call slots whose write goes on although the call was cancelled

disk == <<checkpoints, pending, final>>
memory == <<state, batch, next, first, response>>
history == <<runs, effects, lastTest>>
vars == <<disk, version, pc, memory, history, interrupts, threads>>

Slots == (1..MaxIterations) \X (1..MaxBatch)
NoBatch == <<>>
NoJournal == [iteration |-> 0, calls |-> NoBatch]

InitialState ==
    [iteration |-> 0, model_calls |-> 0, summary_calls |-> 0,
     tool_calls_used |-> 0, test_runs |-> 0, strategy_attempts |-> 0,
     repeated_failures |-> 0, phase |-> "executing", tests_passed |-> TRUE,
     shown |-> 0, hash |-> 0, known |-> {}]

Running == {"model", "journal", "batch", "save", "clear", "finish", "recovered", "checked"}

Init ==
    /\ checkpoints = {} /\ pending = NoJournal /\ final = "none"
    /\ version = 1
    /\ pc = "new" /\ state = InitialState
    /\ batch = NoBatch /\ next = 1 /\ first = 1 /\ response = "none"
    /\ runs = [s \in Slots |-> 0] /\ effects = {} /\ lastTest = "none"
    /\ interrupts = 0 /\ threads = {}
-----------------------------------------------------------------------------
(* The process lets go of the run: everything in memory is lost.           *)
Detach(place) ==
    /\ pc' = place
    /\ state' = InitialState
    /\ batch' = NoBatch /\ next' = 1 /\ first' = 1 /\ response' = "none"

(* The loop returns a response, which _finish_run makes durable.           *)
Finish(s, status) ==
    /\ pc' = "finish" /\ state' = s /\ response' = status
    /\ UNCHANGED <<batch, next, first>>

(* The loop reaches a complete boundary and saves it.                      *)
Boundary(s, status) ==
    /\ pc' = "save" /\ state' = s /\ response' = status
    /\ batch' = NoBatch /\ next' = 1 /\ first' = 1

Failed(s) == [s EXCEPT !.phase = "failed"]

(* A round that got a complete model response.                             *)
Responded == [state EXCEPT !.iteration = @ + 1, !.model_calls = @ + 1]

AtModel == pc = "model" /\ state.iteration < MaxIterations
OnlyMemory == UNCHANGED <<disk, version, history, interrupts, threads>>

(* execute: a fresh run starts and saves its iteration-0 boundary.         *)
Start ==
    /\ pc = "new"
    /\ Boundary(InitialState, "none")
    /\ OnlyMemory

(* _compact asks the model for a summary of the older rounds.              *)
Compact ==
    /\ AtModel
    /\ state.summary_calls < MaxSummaries
    /\ state' = [state EXCEPT !.summary_calls = @ + 1, !.model_calls = @ + 1]
    /\ UNCHANGED <<pc, batch, next, first, response>>
    /\ OnlyMemory

(* Compaction makes no progress (blocked), or the context does not fit.    *)
ContextStop ==
    /\ AtModel
    /\ \/ Finish(state, "blocked")
       \/ Finish(Failed(state), "failed")
    /\ OnlyMemory

(* Every generation attempt failed.                                        *)
GenerationFails ==
    /\ AtModel
    /\ Finish(Failed([state EXCEPT !.iteration = @ + 1]), "failed")
    /\ OnlyMemory

\* Mutant: the interrupted round stays counted.
QuotaPause_RoundKept ==
    /\ AtModel
    /\ Boundary([state EXCEPT !.iteration = @ + 1], "paused")
    /\ OnlyMemory

(* The provider's quota ran out while generating or compacting: the round  *)
(* did not happen, and the boundary is saved again before the run stops.   *)
QuotaPause ==
    /\ AtModel
    /\ Boundary(state, "paused")
    /\ OnlyMemory

(* A refusal or a truncated response: nothing of it is executed.           *)
TerminalResponse ==
    /\ AtModel
    /\ \E status \in {"blocked", "failed"} : Boundary(Failed(Responded), status)
    /\ OnlyMemory

\* Mutant: recovery asks again without counting the round or the strategy.
FinalAnswer_Uncounted(incomplete, protected) ==
    /\ AtModel
    /\ \/ incomplete /\ ~protected /\ Boundary(state, "none")
       \/ ~incomplete /\ Finish(Responded, "completed")
    /\ OnlyMemory

(* The response has no tool calls: recover with another strategy, or end.  *)
FinalAnswer(incomplete, protected) ==
    /\ AtModel
    /\ LET mustRecover == (incomplete \/ ~state.tests_passed) /\ ~protected
           canRecover  == /\ state.strategy_attempts < StrategyLimit
                          /\ Responded.iteration < MaxIterations
       IN  \/ /\ mustRecover /\ canRecover
              /\ Boundary([Responded EXCEPT !.strategy_attempts = @ + 1], "none")
           \/ /\ ~(mustRecover /\ canRecover)
              /\ Finish(Responded, IF incomplete \/ ~state.tests_passed THEN "failed" ELSE "completed")
    /\ OnlyMemory

(* Duplicate call IDs, or a batch over the tool or test limit.             *)
RejectBatch ==
    /\ AtModel
    /\ Finish(Responded, "failed")
    /\ OnlyMemory

IterationLimit ==
    /\ pc = "model" /\ state.iteration >= MaxIterations
    /\ Finish(Failed(state), "failed")
    /\ OnlyMemory
-----------------------------------------------------------------------------
(* The tool batch.                                                         *)
Batches == UNION {[1..n -> Tools] : n \in 1..MaxBatch}

Admitted(tools) ==
    /\ state.tool_calls_used + Len(tools) <= MaxToolCalls
    /\ state.test_runs + Cardinality({k \in DOMAIN tools : tools[k] = "run_tests"}) <= MaxTestRuns

BeginBatch(tools) ==
    /\ AtModel
    /\ Admitted(tools)
    /\ state' = Responded
    /\ batch' = [k \in DOMAIN tools |-> [tool |-> tools[k], status |-> "pending", seen |-> 0]]
    /\ pc' = "journal"
    /\ UNCHANGED <<next, first, response>>
    /\ OnlyMemory

(* Adjacent concurrent reads run together; any other call runs alone.      *)
InGroup(k) ==
    /\ k \in DOMAIN batch /\ k >= first
    /\ k > first => /\ k - first < ToolConcurrency
                    /\ \A j \in first..k : Concurrent(batch[j].tool)

(* begin_tool_batch: the journal is on disk before any call is invoked.    *)
WriteJournal ==
    /\ pc = "journal"
    /\ pending' = [iteration |-> state.iteration, calls |-> [k \in DOMAIN batch |-> "pending"]]
    /\ pc' = "batch"
    /\ UNCHANGED <<checkpoints, final, version, memory, history, interrupts, threads>>

InFlight(k) == pc = "batch" /\ k >= next /\ InGroup(k)

\* Mutant: only the end of a call is journaled.
Mark_EndOnly(k, status) ==
    pending' = IF status = "started" THEN pending ELSE [pending EXCEPT !.calls[k] = status]

(* journal.mark: the row of the call is rewritten on disk.                 *)
Mark(k, status) == pending' = [pending EXCEPT !.calls[k] = status]

(* The host refuses the call: it is recorded as completed, unsuccessful.   *)
BlockCall(k) ==
    /\ InFlight(k) /\ batch[k].status = "pending"
    /\ batch' = [batch EXCEPT ![k].status = "failed"]
    /\ Mark(k, "completed")
    /\ UNCHANGED <<checkpoints, final, version, pc, state, next, first, response, history, interrupts, threads>>

StartCall(k) ==
    /\ InFlight(k) /\ batch[k].status = "pending"
    /\ batch' = [batch EXCEPT ![k].status = "started"]
    /\ Mark(k, "started")
    /\ runs' = [runs EXCEPT ![<<state.iteration, k>>] = @ + 1]
    /\ UNCHANGED <<checkpoints, final, version, pc, state, next, first, response, effects, lastTest, interrupts, threads>>

(* The tool does its work: a read captures the file, a write replaces it.  *)
ApplyCall(k) ==
    /\ InFlight(k) /\ batch[k].status = "started"
    /\ LET writes == batch[k].tool = "write_file"
           seen   == IF writes THEN version + 1 ELSE version
       IN  /\ version' = seen
           /\ effects' = IF writes THEN effects \union {<<state.iteration, k>>} ELSE effects
           /\ batch' = [batch EXCEPT ![k].status = "applied", ![k].seen = seen]
    /\ UNCHANGED <<disk, pc, state, next, first, response, runs, lastTest, interrupts, threads>>

(* The tool returns.  It may report failure with or without having worked. *)
ReturnCall(k, ok) ==
    /\ InFlight(k)
    /\ batch[k].status = "applied" \/ (batch[k].status = "started" /\ ~ok)
    /\ batch' = [batch EXCEPT ![k].status = IF ok THEN "ok" ELSE "failed"]
    /\ Mark(k, "completed")
    /\ lastTest' = IF batch[k].tool # "run_tests" THEN lastTest
                   ELSE IF ok THEN "passed" ELSE "failed"
    /\ UNCHANGED <<checkpoints, final, version, pc, state, next, first, response, runs, effects, interrupts, threads>>

\* Mutant: the run pauses on a boundary in the middle of a batch.
UnknownOutcome_SavesBoundary(k) ==
    /\ InFlight(k) /\ batch[k].status \in {"started", "applied"} /\ Mutating(batch[k].tool)
    /\ Mark(k, "unknown")
    /\ Boundary(state, "paused")
    /\ UNCHANGED <<checkpoints, final, version, history, interrupts, threads>>

(* A mutating call whose outcome is unknown ends the run without a replay. *)
UnknownOutcome(k) ==
    /\ InFlight(k) /\ batch[k].status \in {"started", "applied"} /\ Mutating(batch[k].tool)
    /\ Mark(k, "unknown")
    /\ Detach("off")
    /\ UNCHANGED <<checkpoints, final, version, history, interrupts, threads>>

(* A nested model call ran out of quota: no boundary is saved.             *)
QuotaInTool(k) ==
    /\ InFlight(k) /\ batch[k].status \in {"started", "applied"}
    /\ Mark(k, IF Mutating(batch[k].tool) THEN "unknown" ELSE "interrupted")
    /\ Detach("off")
    /\ UNCHANGED <<checkpoints, final, version, history, interrupts, threads>>

(* What the loop records of a returned call.                               *)
Recorded(call, slot, identical) ==
    LET ok     == call.status = "ok"
        fails  == IF ok THEN 0
                  ELSE IF identical THEN state.repeated_failures + 1 ELSE 1
        isTest == call.tool = "run_tests"
        sees   == ok /\ ~isTest
    IN  [state EXCEPT
            !.tool_calls_used   = @ + 1,
            !.test_runs         = IF isTest THEN @ + 1 ELSE @,
            !.tests_passed      = IF isTest THEN ok ELSE @,
            !.repeated_failures = fails,
            !.shown = IF sees THEN call.seen ELSE @,
            !.hash  = IF sees /\ Hashed(call.tool) THEN call.seen ELSE @,
            !.known = IF slot \in effects THEN @ \union {slot} ELSE @]

(* scheduled_calls yields results in call order once their group is done.  *)
(* The last one closes the batch; "blocked" is the no-progress stop.       *)
Consume(identical, status) ==
    /\ pc = "batch"
    /\ \A k \in DOMAIN batch : InFlight(k) => batch[k].status \in {"ok", "failed"}
    /\ identical => state.repeated_failures > 0 /\ batch[next].status = "failed"
    /\ LET s == Recorded(batch[next], <<state.iteration, next>>, identical)
       IN  \/ /\ s.repeated_failures >= AbortThreshold
              /\ Finish(Failed(s), "failed")
           \/ /\ s.repeated_failures < AbortThreshold
              /\ next + 1 \notin DOMAIN batch
              /\ Boundary(s, status)
           \/ /\ s.repeated_failures < AbortThreshold
              /\ next + 1 \in DOMAIN batch
              /\ state' = s
              /\ next' = next + 1
              /\ first' = IF InGroup(next + 1) THEN first ELSE next + 1
              /\ UNCHANGED <<pc, batch, response>>
    /\ OnlyMemory
-----------------------------------------------------------------------------
\* Mutant: the file is always hashed when the boundary is saved.
Fingerprint_Rehash(s) == IF s.shown # 0 THEN version ELSE 0

(* Files read without a recorded digest are hashed when the boundary is    *)
(* saved; a recorded digest takes precedence.                              *)
Fingerprint(s) ==
    IF s.hash # 0 THEN s.hash ELSE IF s.shown # 0 THEN version ELSE 0

SaveCheckpoint ==
    /\ pc = "save"
    /\ checkpoints' = {c \in checkpoints : c.iteration # state.iteration}
                        \union {[state EXCEPT !.hash = Fingerprint(state)]}
    /\ pc' = "clear"
    /\ UNCHANGED <<pending, final, version, memory, history, interrupts, threads>>

ClearJournal ==
    /\ pc = "clear"
    /\ pending' = NoJournal
    /\ CASE response = "none"   -> pc' = "model" /\ UNCHANGED memory
         [] response = "paused" -> Detach("off")
         [] OTHER               -> pc' = "finish" /\ UNCHANGED memory
    /\ UNCHANGED <<checkpoints, final, version, history, interrupts, threads>>

(* end_run: the result is durable before any best-effort bookkeeping.      *)
WriteFinal ==
    /\ pc = "finish"
    /\ final' = response
    /\ Detach("done")
    /\ UNCHANGED <<checkpoints, pending, version, history, interrupts, threads>>
-----------------------------------------------------------------------------
\* Mutant: an older checkpoint is recovered when it is the one selected.
Latest_Oldest == CHOOSE c \in checkpoints : \A d \in checkpoints : c.iteration <= d.iteration

(* resume_checkpoint.                                                      *)
Latest == CHOOSE c \in checkpoints : \A d \in checkpoints : d.iteration <= c.iteration

\* Mutant: the verdict of the tests is not restored.
Recover_TestsForgotten ==
    /\ pc \in {"off", "done"} /\ checkpoints # {}
    /\ state' = [Latest EXCEPT !.tests_passed = TRUE]
    /\ pc' = "recovered"
    /\ UNCHANGED <<batch, next, first, response>>
    /\ OnlyMemory

\* Mutant: the counters of the run start again.
Recover_CountersReset ==
    /\ pc \in {"off", "done"} /\ checkpoints # {}
    /\ state' = [Latest EXCEPT !.strategy_attempts = 0]
    /\ pc' = "recovered"
    /\ UNCHANGED <<batch, next, first, response>>
    /\ OnlyMemory

(* Whatever checkpoint was selected, the run's latest one is recovered.    *)
Recover ==
    /\ pc \in {"off", "done"} /\ checkpoints # {}
    /\ state' = Latest
    /\ pc' = "recovered"
    /\ UNCHANGED <<batch, next, first, response>>
    /\ OnlyMemory

(* AgentRun.validate_resume *)
ValidBoundary(s) ==
    /\ s.phase # "failed"
    /\ s.iteration \in 0..MaxIterations
    /\ s.tool_calls_used \in 0..MaxToolCalls
    /\ s.test_runs \in 0..MaxTestRuns
    /\ s.summary_calls \in 0..s.model_calls
    /\ s.model_calls = s.iteration + s.summary_calls

\* Mutant: the comparison with the journaled round is off by one.
Ambiguous_OffByOne(s) == pending.iteration > s.iteration + 1

(* AgentRun.validate_pending_batch *)
Ambiguous(s) == pending.iteration > s.iteration

(* A finished run returns its saved result.                                *)
ReturnSaved ==
    /\ pc = "recovered" /\ final # "none"
    /\ Detach("done")
    /\ OnlyMemory

RefuseBoundary ==
    /\ pc = "recovered" /\ final = "none"
    /\ ~ValidBoundary(state) \/ Ambiguous(state)
    /\ Detach("off")
    /\ OnlyMemory

(* The checkpoint covers the journaled batch: the journal is deleted.      *)
AcceptBoundary ==
    /\ pc = "recovered" /\ final = "none"
    /\ ValidBoundary(state) /\ ~Ambiguous(state)
    /\ pending' = NoJournal
    /\ pc' = "checked"
    /\ UNCHANGED <<checkpoints, final, version, memory, history, interrupts, threads>>

RefuseFiles ==
    /\ pc = "checked" /\ state.hash \notin {0, version}
    /\ Detach("off")
    /\ OnlyMemory

Continue ==
    /\ pc = "checked" /\ state.hash \in {0, version}
    /\ pc' = "model"
    /\ UNCHANGED memory
    /\ OnlyMemory
-----------------------------------------------------------------------------
Interrupt ==
    /\ pc \in Running
    /\ interrupts < MaxInterrupts
    /\ interrupts' = interrupts + 1
    /\ Detach("off")
    /\ UNCHANGED <<disk, version, history>>

(* The process ends, and its threads with it.                              *)
ProcessDies == Interrupt /\ threads' = {}

(* A write is done in a thread that a cancellation does not reach.         *)
OngoingWrites ==
    {<<state.iteration, k>> : k \in
        {j \in 1..MaxBatch : /\ InFlight(j) /\ batch[j].status = "started"
                             /\ batch[j].tool = "write_file"}}

(* The run is cancelled and released; its process lives on.                *)
CancelRun == Interrupt /\ threads' = threads \union OngoingWrites

(* The thread of a cancelled write replaces the file: now, later, or never *)
(* when its process ends first.                                            *)
LateWrite(s) ==
    /\ s \in threads
    /\ threads' = threads \ {s}
    /\ version' = version + 1
    /\ effects' = effects \union {s}
    /\ UNCHANGED <<disk, pc, memory, runs, lastTest, interrupts>>

UserEdit ==
    /\ version < MaxVersion
    /\ version' = version + 1
    /\ UNCHANGED <<disk, pc, memory, history, interrupts, threads>>

Model ==
    \/ Compact
    \/ ContextStop
    \/ GenerationFails
    \/ QuotaPause
    \/ TerminalResponse
    \/ \E incomplete, protected \in BOOLEAN : FinalAnswer(incomplete, protected)
    \/ RejectBatch
    \/ IterationLimit
    \/ \E tools \in Batches : BeginBatch(tools)

Call(k) ==
    \/ BlockCall(k)
    \/ StartCall(k)
    \/ ApplyCall(k)
    \/ \E ok \in BOOLEAN : ReturnCall(k, ok)
    \/ UnknownOutcome(k)
    \/ QuotaInTool(k)

Tool ==
    \/ WriteJournal
    \/ \E k \in 1..MaxBatch : Call(k)
    \/ \E identical \in BOOLEAN, status \in {"none", "blocked"} : Consume(identical, status)

Save == SaveCheckpoint \/ ClearJournal \/ WriteFinal

Resume == ReturnSaved \/ RefuseBoundary \/ AcceptBoundary \/ RefuseFiles \/ Continue

(* What the process does by itself once it runs.                           *)
Process == Model \/ Tool \/ Save \/ Resume

Next ==
    \/ Start \/ Process \/ Recover \/ ProcessDies \/ CancelRun \/ UserEdit
    \/ \E s \in Slots : LateWrite(s)

Spec == Init /\ [][Next]_vars

(* Model requests, tools and file writes all end (they have timeouts), so  *)
(* a running process keeps taking steps; nobody has to start or resume it. *)
FairSpec == Spec /\ WF_vars(Process)
-----------------------------------------------------------------------------
(* Properties.                                                             *)
Phases == {"executing", "failed"}
Statuses == {"pending", "started", "applied", "ok", "failed"}
Rows == {"pending", "started", "completed", "unknown", "interrupted"}

RowLists == UNION {[1..n -> Rows] : n \in 0..MaxBatch}
Calls == [tool : AllTools, status : Statuses, seen : Nat]

States ==
    [iteration : 0..MaxIterations, model_calls : Nat, summary_calls : Nat,
     tool_calls_used : Nat, test_runs : Nat, strategy_attempts : Nat,
     repeated_failures : Nat, phase : Phases, tests_passed : BOOLEAN,
     shown : Nat, hash : Nat, known : SUBSET Slots]

(* Every variable keeps its type; the batch and the journal rows are       *)
(* sequences of at most MaxBatch calls.                                    *)
TypeOK ==
    /\ checkpoints \subseteq States
    /\ pending \in [iteration : 0..MaxIterations, calls : RowLists]
    /\ final \in {"none", "completed", "failed", "blocked"}
    /\ version \in Nat \ {0}
    /\ pc \in Running \union {"new", "off", "done"}
    /\ state \in States
    /\ \E n \in 0..MaxBatch : batch \in [1..n -> Calls]
    /\ next \in 1..MaxBatch /\ first \in 1..next
    /\ response \in {"none", "paused", "completed", "failed", "blocked"}
    /\ runs \in [Slots -> Nat]
    /\ effects \subseteq Slots
    /\ lastTest \in {"none", "passed", "failed"}
    /\ interrupts \in Nat
    /\ threads \subseteq Slots

(* A tool call of a round is invoked at most once, over every process that *)
(* ever runs or resumes the run: a batch whose effects may have happened   *)
(* is never replayed (agents/base.py, core/runtime.py).                    *)
AtMostOnce == \A s \in Slots : runs[s] <= 1

(* Every mutation applied so far is in a saved conversation, or the        *)
(* journal on disk says that its call was more than planned.  A reader of  *)
(* the files after a crash never misses an effect (tools/scheduling.py).   *)
NoSilentEffect ==
    \A s \in effects :
        \/ \E c \in checkpoints : s \in c.known
        \/ /\ pending.iteration = s[1]
           /\ s[2] \in DOMAIN pending.calls
           /\ pending.calls[s[2]] # "pending"

(* When the model is asked for the next round, its conversation contains   *)
(* the result of exactly the mutations that the run has applied.           *)
ConversationMatchesWorkspace == pc = "model" => state.known = effects

(* Every non-terminal boundary the loop saves, whatever interrupted it, is *)
(* one that validate_resume accepts.                                       *)
SavedBoundariesAreResumable ==
    \A c \in checkpoints : c.phase # "failed" => ValidBoundary(c)

(* A run reported as completed did not end on a failing test run, also     *)
(* when the tests ran in an earlier process.                               *)
CompletedMeansTestsPass == final = "completed" => lastTest # "failed"

(* A finished run stays finished: its result is never replaced and its     *)
(* tools are never invoked again (repeated Resume requests are safe).      *)
FinishedRunIsFinal == [][final # "none" => final' = final /\ runs' = runs /\ checkpoints' = checkpoints]_vars

(* The last boundary on disk never goes back, so a resumed run never       *)
(* regains rounds, tool calls, strategies or a clean failure record.       *)
ProgressIsNeverLost ==
    [][ checkpoints # {} =>
          /\ checkpoints' # {}
          /\ \A c \in checkpoints : \E d \in checkpoints' :
                /\ d.iteration >= c.iteration
                /\ d.tool_calls_used >= c.tool_calls_used
                /\ d.strategy_attempts >= c.strategy_attempts
                /\ c.known \subseteq d.known
                /\ d.iteration = c.iteration => d.test_runs = c.test_runs ]_vars

(* A run that is continued was shown the content that the file has now:    *)
(* an edit made after the model read a file is not blessed by rehashing    *)
(* the file when the boundary is saved.                                    *)
ContinuesOnCurrentFiles ==
    [][ pc = "checked" /\ pc' = "model" => state.shown \in {0, version} ]_vars

(* A process that holds the run always lets go of it.                      *)
AlwaysReturns == (pc \in Running) ~> (pc \notin Running)

(* The journal names a batch that no saved boundary covers.                *)
Uncovered == \A c \in checkpoints : pending.iteration > c.iteration

Rounds == INSTANCE AtomicRounds WITH
    Effects  <- Slots,
    applied  <- effects,
    recorded <- UNION {c.known : c \in checkpoints},
    mode     <- IF final # "none" THEN "over"
                ELSE IF ~(pending.iteration > 0 /\ Uncovered) THEN "open"
                ELSE IF pc \in {"batch", "save", "finish"} THEN "round" ELSE "torn",
    late     <- threads

(* A run implements atomic rounds: no round is half recorded and then      *)
(* continued, and once it is torn at most the one write whose thread was   *)
(* running when the run was cancelled still reaches the workspace          *)
(* (agents/base.py, tools/scheduling.py, tools/filesystem.py).             *)
ImplementsAtomicRounds == Rounds!ASpec
=============================================================================
