# Verification of LocalCodingAgent

TLA+ models of the parts of LocalCodingAgent whose correctness depends on
interleavings, crashes and resumption, the TLC configurations that check them,
and TLAPS proofs of the results that matter most. Paths are relative to the
Python package `src/local_coder/`, those of the desktop shell and of the editor
extension (`desktop/`, `ide/`) to the repository.

To run: `tlc -workers 2 -config C.cfg M` for a check (configuration and module are in
the table of runs), `tlapm XProofs.tla` for a proof.

## 1. The system and what is hard about it

A request enters through the command line (`cli/main.py`) or the workbench
server (`workbench.py`, `remote.py`, started by `desktop_engine.py`). It becomes
a *turn* of a persistent *session* (`orchestrator/sessions.py`). The coordinator
(`orchestrator/coordinator.py`) explores, plans, validates the plan as a DAG
(`scheduler/dag.py`), executes its tasks in parallel waves, reviews, tests and
fixes, checkpointing every phase in the turn. Each task is a run of an agent
(`agents/base.py`), a loop of model responses and tool batches
(`tools/scheduling.py`) whose durable record is kept by `core/runtime.py`.

| component | state | operations | interacts with | what is hard | what must hold |
|---|---|---|---|---|---|
| Agent loop and run records (`agents/base.py`, `core/runtime.py`, `tools/scheduling.py`) | counters of `AgentState`, conversation, current batch; on disk one checkpoint per iteration, the journal of the open batch, the final result | start, ask the model, execute a batch, save a boundary, finish, resume | called by the coordinator; edits the workspace through tools | a crash between any two writes; concurrent reads in one batch; a mutating tool whose outcome is unknown; a user who edits files the model has read; limits that must survive a resume | nothing is replayed, no effect is forgotten, limits hold over all processes, a finished run is final, the run always lets go |
| Plan validation (`scheduler/dag.py`) | nodes, `visited`, recursion path | `validate` | coordinator | a search whose answer must not depend on the listed order | exact: no error if and only if the plan can be scheduled |
| Coordinator and scheduler (`orchestrator/coordinator.py`, `scheduler/dag.py`) | DAG statuses, semaphore of the wave, checkpoints of the turn | phases, waves, attempts, escalation, review, tests, fixes, resume | agents, session checkpoints | siblings of a failed task, interruption in every phase, resumption on a half-executed plan | dependencies first, writers are disjoint, completed tasks are kept, completion is verified, every run ends |
| Sessions (`orchestrator/sessions.py`) | `state.json` (turns), record in `sessions.json`, `.lock` | open, acquire, start, reopen, put, finish, save, release, reconcile | terminals, `/run` requests, a starting engine | several processes on one session, a stale read before the lease, a crash between state and index | finished turns are final, nothing saved is lost, the index is never ahead |
| Workbench jobs (`workbench.py`) | `_jobs`, `_job_lock`, `_stopping`, cancel events, session records, Git checkpoints | start, run, cancel, cleanup, shutdown, undo, automatic rollback, reconcile | coordinator, sessions, Git | a stop that arrives while a job is starting; a shutdown racing a start; cancellation during cleanup; an undo racing a new task; a killed server | one owner of the workspace, a stop is never lost, shutdown is complete, statuses are final, undo is precise |
| Budget ledger (`core/budgets.py`) and free-quota guard (`providers/quota.py`) | `entries` with their reservations; `_day`, `_remaining`, `_attempted`, `_blocked` | reserve, admit, settle, release, observe a denial, status | every agent's model, the provider | parallel reservations, cancellation while the guard works in a thread, stale counters, denials heard late, the UTC rollover | the budget is not overdrawn, no retry is free, free requests come out of a granted allowance |
| Plan mailbox (`orchestrator/mailbox.py`) | inboxes, waiting receivers, the plan's quotas | send, read, receive, close | the tasks of one plan | a message that meets a timeout, a full inbox, the end of the plan | accepted messages arrive once and in order, no receiver sleeps beside one |
| File snapshots (`core/snapshots.py`) and Git checkpoints (`git/checkpoints.py`) | the files before and after each call; the diff, the untracked copies and HEAD of a checkpoint | capture, complete, restore; create, rollback | tools, the interface, Git, the user | edits of the user, cancelled calls whose thread still writes, a kill between two files, a rollback that breaks off | a restore takes away nothing of the user's, a rollback that returns has restored the tree |
| Goals (`memory/goals.py`) | a table of goals, each with its evidence | create, update, record evidence, complete | agents, clients, other processes | a workspace that changes while tests run, evidence of dependencies and children that changes, updates read before and written after another's | a goal shown as completed and current was tested on what the workspace contains |
| Memories of code (`memory/context_store.py`) | rows of memories with the hash of their file | index, correct, forget, ingest, search | agents, other processes | files and memories that change during an indexing | a memory called verified is what its file contains |
| Code index (`context/code_index.py`) | `_files`, `_chunks`, the cache on disk, the watcher | refresh, update, watch, search, show snippets | agents, the user's editor | changes during the start of the watcher or a read, a failure in the middle of a refresh | no change is missed, a snippet fits the chunk it was found by |
| Approvals (`core/approvals.py`) and MCP calls (`integrations/mcp.py`) | items with a deadline; the connection of a server, its requests and answers | ask, decide, expire, cancel; call, answer, break off, close | operator, external server | decisions at the deadline, answers that are late or come twice | only approved calls run, an answer belongs to the call it is returned to |
| Local inference server (`inference.py`) and its tuner (`inference_tuning.py`, `inference_tuning_api.py`) | state, address, process, worker, installer, one cancellation event; the holder of `_job_lock`, the gate `_lifecycle_lock`, the settings of the user or of a candidate | start, stop, configure, install; trial, restore, apply, cancel; the repair of the doctor, the drain of a shutdown | the interface, `llama-server`, the jobs | a stop that meets a start, a health check or an installation; a shutdown that meets the start of a candidate; a step of a trial that fails | a stopped server is gone, a shutdown is the end, a candidate is taken back and measured as what it is |
| Engine sharing (`desktop/`, `ide/extension/`, `engine_discovery.py`, the lease of `remote.py`, one repair of `doctor.py`) | `engine.lock`, the descriptor of the workspace; of each app the place of its `start`, the address, the child process | discover, spawn, attach, resume, close; take the lease, publish, serve, leave; clear a stale descriptor | the manager, windows of the editor, engine processes | simultaneous launches, an engine that leaves while its successor comes, a folder closed during a start, an exit under an operation | a serving engine can be discovered, an engine is stopped by its owner and by nobody else |

The remaining components (role agents, the bodies of tools, model backends,
security reports, harness, configuration) are prompts, parsers, pure functions
or clients of external programs.
`PROJECT.json` lists each of them with the reason it has no model, and lists
every hazard at its line with the property that covers it, or why none does.

## 2. The modules

```
AtomicRounds <--refines-- AgentRun <--- AgentRunProofs
TaskGraphs <-- DagValidation <--------- DagValidationProofs
     ^-------- PlanExecution                                    MCPlanExecution
   PlanExecution + PlanMailbox <------- PlanProofs
   AgentRun + MCPlanExecution + DagValidation + PlanMailbox
                + JobLifecycle                                  MCTurn
   JobLifecycle + EngineSharing <------ WorkbenchProofs
   AgentRun + JobLifecycle + EngineSharing + CodeIndex          MCWorkbench
InferenceServer <-- InferenceTuning <-- InferenceTuningProofs
               SessionStore <---------- SessionStoreProofs      MCSessionStore
               GitCheckpoints                                   MCGitCheckpoints
   FileEdits + GitCheckpoints + GoalLedger
                + ContextMemory <------ StorageProofs
   SessionStore + FileEdits + GitCheckpoints + GoalLedger
                + ContextMemory + RequestAdmission              MCStorage
 ApprovalInbox <-- McpClient
   InferenceTuning + McpClient                                  MCServices
               CodeIndex                                        MCCodeIndex
   RequestAdmission + McpClient
                + CodeIndex <---------- ServicesProofs
```

ApprovalInbox and McpClient are one system: a call that may change something
asks the inbox, and its coroutine is the one that polls there. The parts of
MCTurn, MCWorkbench, MCStorage and MCServices share no state in the code, except
that the tuner takes the lock of the jobs, which both model in full; a behaviour of
these modules is one of a part while the others rest: one run then answers a
question about each part, and no property can hold there only because two parts
never interact.

A definition named `Name_Something`, placed right before `Name`, is a mutation of
it (`Mark_EndOnly` of `Mark`): a plausible bug, used to confirm that the
property it is paired with in `PROJECT.json` really depends on that code. No
specification uses it.

**AgentRun** — one durable run. `checkpoints`, `pending` and `final` are the
three kinds of file of `core/runtime.py`; `state` is `AgentState` with the loop's
counters; `batch`, `next`, `first` are the calls of a response, the next result
the loop consumes and the first call of the group in flight (`scheduled_calls`
runs adjacent reads together and every other call alone). A call is journaled,
started, applied, and returned in separate steps, and the boundary, the removal
of the journal and the final result are separate writes. Between any two of them the
process may die (`ProcessDies`), or the run be cancelled and released (`CancelRun`):
then the process lives, and the thread of a write under way goes on (`threads`,
`LateWrite`), whatever happens to the run meanwhile. `Recover`, `ReturnSaved`,
`RefuseBoundary`, `AcceptBoundary`, `RefuseFiles`, `Continue` are the stages of
`resume_checkpoint`. The workspace is one file known by its version, since the
properties compare only digests; `UserEdit` changes it at any time.
**AtomicRounds** says what this amounts to without files and processes: a round
is recorded as a whole or torn for ever, and the only effect that a torn round may
still have is of the writes that were under way when it was. AgentRun is checked and proved to implement it.

**TaskGraphs** defines a valid plan without a search: every dependency exists and
no set of tasks waits for itself (`Knot`). **DagValidation** is the depth-first
search of `TaskDAG.validate`, one call or return of `visit` per step, over all
orders. **PlanExecution** uses TaskGraphs for the guard of execution, and models
the turn: phases with their checkpoints, waves with their semaphore, attempts
with escalation, the four ways an attempt ends badly (failure, deadline, refused
approval, exception), the cancellation of siblings, review, tests, fixes, and
leaving a turn by completion, error, interruption or crash, then `ResumeTurn`.
`touched` says who may have changed the workspace since the last tests: the tasks and
fixes of the turn, a tester agent that wrote after its tests, or the user
(`EditWorkspace`), who may also edit between two processes.

**JobLifecycle** — the server. Before a job has a thread its `point` is the place of
the request handler in `_start_job`; afterwards it is the place of `_job_thread`.
`self.lock` is held across two steps only by handlers that signal a job, which
is the variable `signal`; `unthrown` holds cancellations scheduled on a loop but
not yet thrown at an await. `RestartServer` kills the server anywhere and includes
`reconcile_sessions` of the next one. The workspace is the set of runs whose
edits it contains, so that an undo can be seen to discard the wrong ones.

**SessionStore** — one session shared by processes. `mem` is `Session.state` of
each process, `state` and `index` the two files, `lease` and `storeLock` the two
locks. `save` is three steps (new state in memory, state file, index), so that a
crash can fall between them. `ListSessions` and `ReconcileSession` are the two
halves of `reconcile_sessions` in a starting engine.

**RequestAdmission** — what a request of an agent passes before and after it is
sent: `Reserve` in the shared ledger, the decision of the quota guard (`Decide`,
after `Rolled` and perhaps `Fetched`), `Send`, and its end (`Return`, `Fail`, or
`Deny` and `Observe`). `progress` is the place of each request in `BudgetedModel`. The
guard works in a thread, so a cancelled request is `orphaned` (or, with a denial
to report, `unheard`): it leaves the ledger, and its thread still decides. The
server answers with any counter at any time. `granted` and `denied` are history.

**PlanMailbox** — the channel between the tasks of a plan: `Send` with its three
quotas, `Drain` (a read of several messages), `Receive` with its wait on the
condition (`WakeUp`, `TimeOut`), and `Close`. `receiver` is the place of a call
of `receive`; a notified call is `woken` and looks again. `accepted` and
`delivered` are history.

**FileEdits** — a tool call captures its files, writes them one by one, and
completes its snapshot; a patch that fails is rolled back, a cancelled call leaves
a thread that goes on writing, and the engine may be killed between any two steps.
A restore checks every file and then replaces them one by one, while the user
edits. `exposed` are the edits of the user to a file that a tool or a restore had
in hand at that moment: nothing in the code can protect those.

**GitCheckpoints** — `CreateCheckpoint` saves the diff against HEAD, the copies
and the ignore rules of the moment; `Reset`, `Clean`, `Apply`, `CopyBack` are the
four commands of `rollback`, and `BreakRollback` is the failure of any of them.
HEAD, the index, the tree and ignore rules change in between.

**GoalLedger** — the rows with their evidence, `Current` and `Holds` as
`_evidence_current` computes them over dependencies and children, and the run of
an agent as far as it makes evidence. An update reads (`ClientUpdate`,
`StartRun`, `FinishRun`) and writes (`WriteGoal`) in two steps that other
processes may come between.

**ContextMemory** — `BeginIndex`, `IndexFile`, `CommitIndex` are the three parts
of `index_code`: what is stored is read first, then the files, then one
transaction replaces the rows. `Ingest`, `Correct` and `Forget` may fall between
them, and so may an edit of the file. `Fresh` is `_freshness`.

**ApprovalInbox** and **McpClient** — the items of the inbox, which a coroutine
polls, handlers answer, and a shutdown cancels; and the calls of one MCP server:
they ask, take turns on the lock (`queue`), open a connection if there is none,
list the tools and call one. Answers stay in the `pipe` of their connection and
may come late or twice; a timeout, an error or a cancellation closes it.

**InferenceServer** — the callers that hold `_operation` (`op` is their place),
the worker thread with its points, the installer and the prefetch thread.
`halt` is `_cancel`, the one event that worker and installer share.

**InferenceTuning** — who these callers are. `holder` is the one that has
`_job_lock`, with its goal and its place: a trial (baseline, candidates, then
`complete` or `abandon`, the two ends that restore), an application (undone when
it fails), or one of the four routes. Each of its calls of `stop`, `configure`
and `start` has the outcomes that the manager has: a stop that raises, one that
is still pending when it returns, settings that are saved although the call
raises. `EnterGate` looks at the flags under `_lifecycle_lock`. The doctor and
`drain_jobs` call `stop` without the job lock. Every step of the manager is one of
InferenceServer. `settings` is `"trial"` from the moment a candidate is saved until
it is applied, which makes it the user's, or taken back. What failed leaves it where
it is, in the manager and in its file: the next trial takes it as its baseline
(`holder.base`) and restores *it*, a later process reads it (`EngineEnds`,
`NewManager`). `unrestored` is history and says why it stayed: the failure was
reported, or the process ended.

**EngineSharing** — `process` is the place of each engine between `main` and its
end, `lease` and `descriptor` are the two files of the workspace. `at` is the place
of an app in `start()`, which three programs write alike: `discoverEngine` in two
steps (read the descriptor, then ask the engine who it is), `Spawn`, `Ready` or
`ChildFails`, and discovery again. `stop` is the place in `stop()`, which runs
beside it: `Close` does not end a `start()` that is under way in an editor. `child`
is the process an app has to stop, `found` the one it looks at. `kept` are the apps
that are open (an editor: entries of `services`). `_start` does not look at them when it
spawns.

**CodeIndex** — `_files` and `_chunks` separately, since a refresh replaces the
former file by file and rebuilds the latter at its end (`EndRefresh`); `pass` is
the refresh or update that holds the lock. A file that is being written reads as
its old content or as absent. A file may also become a `LINK` that leads out of the
project: nothing is read of it (`Readable`), and the filter of the watcher, which
resolves a path first, drops its change (`Yield`). `Yield`, `WatcherRefreshes`, `WatcherUpdates` are
the watcher thread, `Search` and `AddSnippet` the two halves of showing a hit.

## 3. What the runs show

| run | module | configuration | shows |
|---|---|---|---|
| `turn` | `MCTurn` | `MCTurn.cfg` | Plans: dependencies first, disjoint writers, no attempt outlives its wave, verified completion, settled tasks are not replayed over resumptions, and every plan ends. Agent runs: a process that holds a run lets go of it. Validation: `validate` is exact for every graph over three ids in every order. Mailbox: accepted messages arrive once and in order, and no receiver sleeps beside a message or beyond the end of the plan. Jobs: a stop or a shutdown ends a job wherever it arrives, although a run may last for ever by itself. |
| `workbench` | `MCWorkbench` | `MCWorkbench.cfg` | Agent runs: at most one invocation of each call over all processes; every effect is in a saved conversation or in the journal; the model continues only from a conversation that holds exactly the applied effects; saved boundaries are accepted by the validation of resume; no completion after a failed test; progress never goes back; a continued run has seen the current file; rounds are atomic but for writes under way when a run is cancelled (refinement). Jobs: one owner of the workspace, complete shutdown, final statuses, precise undo. Engines: whatever an app, a leaving engine and the doctor do, an engine that answers is the one in the descriptor; no app stops an engine it did not start, nor loses the handle of its own. Index: no change is missed, and snippets fit their chunks. |
| `services` | `MCServices` | `MCServices.cfg` | Inference: no address is given during or after a stop, nothing starts after the last stop of a shutdown, settings of a candidate outlive the trial only when their restoration failed or the process ended, and never stand for another's in a measurement. MCP: only approved or read-only calls run, and a call returns its own answer. |
| `storage` | `MCStorage` | `MCStorage.cfg` | Sessions: only the last turn is open, the index is never ahead of the state, finished turns are final, no turn or checkpoint is lost. Snapshots: a restore keeps what the user wrote. Checkpoints: a rollback that returns has restored the tree. Goals: what is shown as completed with current evidence was tested on what the workspace contains. Memories: what is called verified is in its file. Admission: the request and token limits hold except for what a provider reports beyond a reservation, every request that was sent is charged, and free requests are sent only out of the day's first counter and never against a standing denial. |
| `agent_run_grep` | `AgentRun` | `MCAgentRunGrep.cfg` | Findings, each with one violated property: see section 4. |
| `plan_retry` | `MCPlanExecution` | `MCPlanExecutionRetry.cfg` | |
| `jobs_close` | `JobLifecycle` | `MCJobLifecycleClose.cfg` | |
| `tuning_restore` | `InferenceTuning` | `MCInferenceTuningRestore.cfg` | |
| `engines_close` | `EngineSharing` | `MCEngineSharingClose.cfg` | |
| `sessions_reconcile` | `MCSessionStore` | `MCSessionStoreReconcile.cfg` | |
| `checkpoint_names` | `MCGitCheckpoints` | `MCGitCheckpoints.cfg` | |
| `index_hashes` | `MCCodeIndex` | `MCCodeIndex.cfg` | |

### Bounds and why they are enough

* AgentRun: two rounds (one to tear or to record, and one after it or resumed from
  it), batches of two calls (a concurrent pair, or a mutation next to a read), two
  crashes or cancellations (the second hits the recovery of the first), one user
  edit, one summary, one recovery strategy. The limits of rounds and calls are
  reached. In `turn`, where its liveness is checked, there are fewer tools and one
  interruption, because the measure that decreases (rounds, strategies, calls) is the
  same at any size.
* DagValidation: three ids give self loops, cycles of two and three, shared
  dependencies, and ids that name no node. The proofs cover every size.
* PlanExecution: eight shapes of plan: joins with disjoint and overlapping
  scopes, a fork, independent tasks, a cycle, an unknown dependency, and single
  tasks. Two slots for three tasks make the semaphore wait; two fixes reach the
  fix limit; two resumptions reach a resumption of a resumed turn.
* PlanMailbox: two participants, two pending messages, four messages and six
  units of size: each quota is reached while the others are not, and a read may
  take several messages or leave some.
* JobLifecycle: two jobs are enough for every conflict over the one lock; one kill is
  followed by a second life of the server; a second stop request, which is what
  interrupts a cleanup, is in `turn` and in the run of the finding. In `turn`, for
  liveness, there is one job and no kill: the lock lets one job at a time past its
  start, and one that is refused the lock is over.
* SessionStore: two processes, four requests or resumptions (an unfinished turn,
  a resumption, a superseding request and one more), one checkpoint per turn,
  two crashes.
* FileEdits: two files (a patch writes one, fails at the other), two calls (two
  snapshots of one file), one edit of the user, one kill, any number of restores.
* GitCheckpoints: two files, two versions of content beside an absent file, one
  checkpoint, any number of rollbacks, broken ones included. The finding's run has
  a third version.
* GoalLedger: a goal with a child and one that waits for the child; two processes,
  three pieces of evidence (one each, or one replaced), two edits (away from a
  revision and back), two runs or updates at the same time.
* ContextMemory: one file with an anchored and an unanchored part, three texts (the
  indexed one, its successor, and one that a human gives), two indexers, two edits.
* RequestAdmission: two attempts at a free model and two at a paid model against
  three ledger entries, so that the last one is refused or takes a released place;
  an allowance of one for two free attempts; reports from nothing up to one token
  above a reservation of two; three days (an attempt before, a denial on, and a counter
  after a rollover).
* McpClient: a read-only call and two others, two connections (the one that is
  closed by a failure and its successor), two answers in a pipe (a late or double
  one before the right one), a clock that reaches the deadline and passes it.
* InferenceServer has no bound: its state is finite. InferenceTuning tries one
  candidate per trial (a second one starts from where the first leaves off), any
  number of trials, drains and ends of the process.
* EngineSharing: the manager and two connections of editors (two that start
  together and one that attaches, or one that is dropped and its successor), two
  engines (one that leaves or dies, and the next), one crash, two discoveries after
  a failed start. With three engines there are millions of states more and nothing else to see.
* CodeIndex: two files (an event for one during the refresh of the other), two
  contents, one that cannot be cut, and a link, two changes or restarts.

The processes of the stores, the files of FileEdits and GitCheckpoints, the paid and
the free attempts in `storage`, and the jobs, windows and files of CodeIndex in
`workbench` are symmetric; the only temporal properties checked with symmetry are
action properties that treat them alike. MCStorage and MCWorkbench use one set of
model values for sets that belong to different parts (processes are also agents,
writers and indexers; jobs are also windows and files): the parts do not meet.

Deadlock is not checked where the system may stop for good: a finished run, a
finished turn that may not be resumed further, a search that ended, a closed
mailbox, a server that was shut down, and requests that are all over. The
session store can always list, so it is checked in `storage`, where the stores
with nothing left under their bounds stutter (`Bounded`).

### Fairness

* Agent runs (`WF` of `RoundsStep(Process)` in `MCTurn!TurnSpec`): weak fairness of
  what the process does by itself. Model requests, tools and writes have timeouts,
  so a running process keeps taking steps. Nobody has to start or resume a run;
  interruptions need not happen.
* Plans (`WF` of `PlanStep(RunPlan)` there): weak fairness of the process as a
  whole: the event loop schedules some ready coroutine. No fairness per task is
  assumed, and none of a resumption.
* `JobLifecycle!JobsFairness`, in `turn`: threads of the server are scheduled; a handler that
  has started goes on; a cancellation that `call_soon_threadsafe` scheduled is
  thrown at the next await; the cleanup of a coordinator ends within the limit
  that `_job_thread` sets. The body of a run is *not* fair, it may last for ever:
  that is why `CancelIsNeverLost` says something.

## 4. Findings

* `agent_run_grep` — the loop records the digest of what the model was shown for
  `read_file`, `code_search`, `write_file` and `edit_file`, not for `grep`, which
  returns digests too. A file searched and then edited by the user is hashed
  again when the boundary is saved, and the edit is accepted on resume, against
  the comment at `agents/base.py:384`.
* `plan_retry` — the aggregate of an executed plan is checkpointed also when
  tasks failed. If the turn is left afterwards (in review, tests or fixes), a
  resumption reuses the aggregate and the failed tasks get no other attempt,
  against the comment at `orchestrator/coordinator.py:857`.
* `jobs_close` — two stop requests during the cleanup of a task: the second one
  escapes from the second await in `_job_thread`, the final save is skipped, and
  the task leaves the active set with a record that says it is running.
* `tuning_restore` — a trial, or an application that failed, restores once
  (`inference_tuning.py:355`, `inference_tuning.py:427`). When the stop or the
  configure of that restoration fails itself, the candidate stays in the manager and
  in `inference.json`, against `docs/reliability-workflows.md:85` ("The baseline
  configuration and prior running state are restored on success, error or
  cancellation."). In the trace a trial is withdrawn while it measures a candidate, and
  the stop raises because the prefetch thread does not end. The run does not count
  what happens when the process ends in the middle, although that is easier to meet:
  `drain_jobs` waits twelve seconds, a stop inside a trial may take twice that, and the
  thread of a trial ends with the process.
* `engines_close` — a folder is closed while its connection looks for a shared engine:
  `stop()` finds no child and returns, `_start` does not look at `closed` after that
  wait (`ide/extension/engine.cjs:92`) and spawns an engine that no later stop reaches,
  against `ide/README.md:162-169` (the extension stops "those owned children when a
  folder closes or the extension deactivates", and "Closed connections cannot restart
  an engine through an outstanding refresh request."). The same happens when an engine
  exits while an operation holds its connection: the connection leaves `services`, and
  the next `request()` of the operation starts it again
  (`ide/extension/engine.cjs:146`).
* `sessions_reconcile` — a starting engine marks the session of a terminal that
  is at work as interrupted by a server restart, and the error stays in the record
  when that request completes, because records are merged.
* `checkpoint_names` — `create` takes the names of untracked files from the lines
  of `git ls-files`, which quotes a name with special characters; such a file is
  not copied, and `git clean` in the rollback deletes it, against the docstring at
  `git/checkpoints.py:33` ("Save tracked changes and untracked files ...").
* `index_hashes` — the parser's `RecursionError` leaves a refresh after it
  replaced the entries of earlier files and before the chunks were rebuilt. When
  the file that raised is gone, the next refresh sees nothing to do, and searches
  serve old chunks under new hashes, against the docstring at
  `context/code_index.py:687`.

Reading the code for the models showed more that is not a contradiction of what
the repository says, and has no run:

* An approval given after the last poll, before the deadline, is overwritten by
  `expired`: the operation is not run (`core/approvals.py:41`).
* `finish` is called without acceptance checks, so a goal with criteria is never
  completed by an agent run; a goal that depends on its own parent is never current.
* A crash in the middle of a restore leaves the snapshot `completed`; later
  restores of it are refused, since some files are no longer as the call left them.
* A file that a `.gitignore` hides, itself untracked and newer than the checkpoint,
  survives one rollback.
* `docs/context-memory.md` says that a change of HEAD excludes old code at once;
  `_freshness` treats a source with an unchanged hash as fresh. A text given as
  "code" is labelled verified although only the hash of its path was recorded, and
  a correction by a human is dropped when its file is indexed again.
* `update_paths` indexes files that Git ignores and `refresh` leaves out. A file
  that the parser cannot cut makes `start_watching` raise, and the engine does not
  start (`remote.py:525`).
* A prefetch that does not end makes the last stop of `drain_jobs` raise, and
  `desktop_engine.py:21` is not reached.
* A resumed turn reuses saved test results without looking at the workspace
  (`orchestrator/coordinator.py:605`), as `README.md:290-293` of the repository has
  it: what the user edited between the two processes is reported as tested. A tester
  agent (`orchestrator/coordinator.py:1215`) may write files after its tests too.
  `CompletionIsVerified` therefore speaks of what the tasks and fixes of the turn did.
* The filter of the watcher resolves a path before it looks where it is
  (`context/code_index.py:610`), so that it drops the change of a file into a link
  that leads out of the project or to a skipped path. The entry of that file stays
  until a refresh, which drops it; no snippet of it is shown. `NoChangeIsMissed`
  excepts such files.
* A retried discovery reopens a connection that was closed meanwhile
  (`ide/extension/engine.cjs:132`), without an engine of its own. An engine that lost its app
  can be discovered, so that the next app attaches to it.
* An editor that attached to an engine keeps its address when the engine exits, and
  never discovers again, as `desktop/README.md` has it ("must remain open").
* A request to cancel that arrives after a trial or an evaluation published its
  last status and before it left `_jobs` sets the status back to `cancelling`
  for good (`inference_tuning_api.py:77`, `evaluation_api.py:90`).
* Once a revision of the harness that was ever active is validated again and
  rejected, `active_revisions` raises for every reader (`harness/evolution.py:190`).

## 5. What is proved

TLAPS proves the following for all values of the constants that satisfy the
named assumptions: bounds are natural numbers, special values (`NONE`, `ABSENT`)
are no ids, the sets that the code counts are finite, tools are among the tools of
the model. Every safety property that a passing run checks is stated by a theorem;
section 6 names what is not. Each inductive invariant was first checked by TLC under
the constants of the run of its property (`FileTypeOK` with a bound in place of `Nat`). Each kind
of step has a lemma, a lemma
named `...Step`, `...Steps` or `Inductive` joins them, and the last step of a theorem
combines it with `Init` by propositional temporal logic.

**AgentRunProofs** (from `ConstantsAssumption`): `TypeCorrect`,
`CallsRunAtMostOnce`, `EffectsAreNeverSilent`, `ConversationIsComplete`,
`FinishedStaysFinished`, and, on top of their invariant,
`BoundariesAreResumable`, `CompletedRunsPassed`, `ProgressStays`,
`RunsContinueOnCurrentFiles`, `RunsAreAtomicRounds`. None is inductive alone.

* Whether a call can be replayed depends on what the journal says, which depends on
  which boundary covers it. `IInv` therefore relates four places: the boundaries form
  a chain (`Chain`), an effect is in a boundary or in a journal that no boundary
  covers (`Accounted`), an invoked call belongs to a covered or journaled round
  (`Invoked`), and the memory agrees with both, program point by program point
  (`Remembers`, `Journaled`).
* `Tallied`: the counters of a boundary add up, and so they will once the calls of the
  open batch are recorded: what is left of the batch still fits the limits. That is
  what `validate_resume` asks of a boundary that some earlier process wrote.
* `Verdict`: what the loop believes of the last tests is true. A test is alone in its
  group (`TestsAreAlone`), so that no other call of the batch is under way beside it;
  and the boundary that a process would continue from has the verdict, unless the
  journal says that calls after it may have run, in which case no process completes
  the run (`VerdictIsSaved`).
* `Resaved`: a boundary that is saved again for the same iteration (before the first
  request, or after a resumption) repeats its counters. With it `ProgressStays` follows
  step by step.
* `RunsContinueOnCurrentFiles` assumes `"grep" \notin Tools`. Its digests are not
  recorded: with grep the property is violated, which is the finding `agent_run_grep`;
  the theorem says that grep is the only reason.
* `RunsAreAtomicRounds`: under the mapping `recorded <- Known` (what the saved
  conversations know), `mode <- Mode`, an initial state is one of AtomicRounds, and
  `late <- threads`,
  each step of the loop, of a crash, of a cancellation, of a late write and of a
  resumption is a step of AtomicRounds or a stutter. It needs `EffectsAreCalled` (no effect is applied twice in a round) and
  `OpenIsRecorded` (between rounds the saved conversations know every effect).

**DagValidationProofs** (no assumption on `Ids`; the graph may be infinite):
`TypeCorrect`, `ReportsAreCycles`, `ValidationIsExact`. The invariant says what
the stack is (`IsPath`: each frame depends on the next) and what its frames have
consumed (`Consumed`), and that as long as no cycle is reported the finished tasks
depend only on finished tasks and contain no knot (`FinishedIsAcyclic`); a
re-entered task closes a cycle made of the ids on the stack.

**PlanProofs** (from `PlanAssumption` and `MailboxAssumption`): `PlanTypeCorrect`,
`TasksExecuteSafely`, `WaveEndsFirst`, `ReportFollowsTheTests`, `NoReplay`, and
`MessagesArriveOnce` of the mailbox. `PlanIInv` says what the checkpoints
of a turn allow (`PhasesFollow`: the phases follow each other, and only a plan of
several tasks is executed as a DAG), that a task of a wave was ready when the wave
began and that what is saved stays completed in the DAG (`WaveIsReady`), that either
one task executes at a time or the writers of the whole wave, queued ones included,
have disjoint scopes (`WaveIsDisjoint`, by cardinalities), that a fix is between two
test runs (`FixesFollowTests`), and how the last attempt of each task ended against
the checkpoint and the DAG (`EndsAreRecorded`). `NoReplay` follows from it for every
step, crashes and resumptions included. `MailboxIInv` is the types and the property:
that the messages accepted for a task are those delivered to it followed by its inbox
is inductive, and `TakeFromConcat` is the fact about sequences behind it.

**WorkbenchProofs** (from `JobAssumption` and `SharingAssumption`): `TypeCorrect`,
`OneOwner`, `ShutdownIsComplete`, `StatusIsFinal`, `UndoIsExact`, and
`AnAnsweringEngineIsFound`, `EnginesAreStoppedByTheirOwners` of EngineSharing.
`ShutdownIsComplete` needs that a live thread is registered until it has left the
registry, and what `drain_jobs` has already waited for at each of its stages
(`Registered`, `Draining`). `StatusIsLast` says at which places of a task its record
may be settled. `OnlyTheRunEdits` is why an undo discards nothing else: from its
checkpoint to the fingerprint that the undo compares, the workspace differs from the
checkpoint by the run's own edits, and a task that has not begun has neither. In
EngineSharing `OneHolder` says which engines hold the lease and that the descriptor is
theirs, and `EngineOfItsApp` that an engine that runs is the child
of the connection that started it, whatever that connection was doing when it was
closed, timed out or found another engine. That the app is still open is not proved:
it is what `engines_close` refutes.

**InferenceTuningProofs** (from `MaxVariantsAssumption`): `TuningTypeCorrect`,
`CallersAreAllowed` (InferenceTuning implements InferenceServer, step by step),
`StoppedServerIsGone` (of InferenceServer alone, for any callers),
`NothingStartsAfterTheDrain` and `TrialsAreTemporaryAndHonest`. `Managed` ties
address and process to the worker. `Gated` says who is inside the gate, and that
nobody is about to start when the drain stops: each start is either before the last
stop or after the shutdown could be seen. `Borrowed` says which goal holds which
lock, at which places the settings are the baseline again, and that a candidate that
stayed behind has its reason in `unrestored`. `Honest` says that from
its own stop to its own start a trial finds the manager `Quiet` (no address, and no
worker that could publish one, even after a stop that timed out), so that what
answers later is what it started.

**SessionStoreProofs** (from `SessionAssumption`): `TypeCorrect`, `OneOpenTurn`,
`IndexLagsBehind`, `FinishedTurnsStay`, `CheckpointsStay`. The invariant
(`Knows`) says that only the holder of the lease works, that its memory *is* the
saved state except in the middle of a save, and that what it is about to save
grows out of the saved state (`Grows`). The lemmas `WithLastGrows`, `StartGrows`
and `PutGrows` show that each kind of edit only adds; the two action properties
follow from `Inductive`, which carries `Grows(state, state')` over every step.

**StorageProofs** (from `FileAssumption`, `GitAssumption`, `GoalAssumption`,
`MemoryAssumption`):

* `FilesAreTyped`, `UserWorkIsKept`. `HeldFiles` and `RestoreIsChecked` say that a
  file in the hands of a call or checked by a restore is as it was captured, or that
  what the user wrote since was exposed; `CallsAreApart` that two calls at work never
  share a file and none works beside a restore.
* `CheckpointsAreTyped`, `TreesAreRestored`. `CheckpointsAreComplete`: patch, copies and
  commit of a checkpoint together say the whole tree it was taken of, but for quoted
  names. `RollbackIsUnderWay` says what each of the four commands has achieved when the
  next one is due, so that the last one returns with the tree.
* `GoalsAreTyped`, `GoalsRestOnTests`. `Sound` is what a row must satisfy: its evidence
  was tested, or derived from children, and it is younger than everything it was made
  from. Rows about to be written satisfy it as well (`WritesAreSound`), although
  others write between the read and the write, since soundness only grows
  (`SoundStays`). What is shown as current then follows, generation by generation.
* `VerifiedMemoriesAreTrue`. `MemoriesAreHonest`: a memory that indexing made and
  nobody corrected says what the snapshot of its hash says at its anchor, in the store
  and in the hands of an indexer.

**ServicesProofs** (from `AdmissionAssumption`, `ApprovalAssumption`,
`McpAssumption`, `IndexAssumption`):

* `TypeCorrect`, `BudgetIsKept`, `FreeRequestsStayGranted`. `LedgerInv` says what entry
  the place of a request calls for (`Fitting`), and that the ledger holds at most
  `max_requests`. `WithinBudget` bounds the sum of the tokens, what a provider reports
  beyond a reservation left out: only a reservation that fits adds an entry, every
  other step removes one or settles one that was reserved (`LedgerSteps`). The sum is a
  fold, a recursive function over the parts of a set. The induction theorems of the
  library take an operator and cannot be applied here; instead `SmallestSubset` gives,
  for any set of parts that are counterexamples, a smallest one, and each fact about
  sums refutes it: that the recursive function exists (`SumsExist`), that the order of
  the elements does not matter (`AnyFirst`), that a sum changes by what a term changes
  (`SumChanges`) and is monotone (`SumIsMonotone`). `GuardInv` with `Backed` relates the
  guard to what the server said: what is left and what was attempted are together
  within the first counter of the day, a standing denial keeps the guard blocked, and
  on the day of the denial nothing is left, so that only a counter fetched after a
  rollover can open it again. `FetchedIsBacked` shows that no counter breaks this.
* `RunsWereApproved`, `CallsGetTheirAnswer`. `AnswersAreTold`, `RunsAreApproved` and
  `LockIsHeld`: an item that is approved was accepted, who passed the question is
  permitted, and only the first of the queue works. `WireIsInOrder`: what is in the pipe
  of a connection answers a request that the server saw on it, and the last number is
  the one of the call at work, so that a late or double answer has another number.
* `IndexInvariant`, `ChangesAreNoticed`, `SnippetsAreExact`. `PassIsHeld` says who holds
  the lock; `RefreshIsExact` that what a refresh of the subscribed watcher has read of a
  file of which no event is due is still so, and `Settled` what the entry of a file is
  worth once its event was processed, links out of the project left out; `ChunksAreIndexed` that the chunks were
  made with the entries of the index, unless the pass at work changed one or a file
  could not be cut.

## 6. What is only model-checked

Liveness under fairness, which is beyond the proof system used here:
`AlwaysReturns`, `RunsEnd`, `CancelIsNeverLost` and
`ShutdownReleasesTheWorkspace` in `turn`. The properties of the findings are
violated, so there is nothing to prove; what holds of them under an assumption is
`RunsContinueOnCurrentFiles` (without grep), `SnippetsAreExact` (as long as every file
could be cut), `TreesAreRestored` (but for quoted names), `TrialsAreTemporaryAndHonest`
(unless a restoration fails) and `EnginesAreStoppedByTheirOwners` (as long as the app
is asked to stop). Each passing property,
proved or not, is paired with a mutation of the code that breaks it under the same
bounds.

## 7. What is not modelled, and the plan

Abstracted inside the modelled parts: the text of prompts, plans and reports,
stream display, exploration heuristics, redaction, size limits of files, event
logs, archiving and purging of sessions; filters on the content of messages;
costs and telemetry of the ledger; retrieval, ranking and vectors of memories;
scores and the limit on the number of files of the code index; validation of MCP
and inference configurations, the HTTP transport of MCP, the choice and extraction
of a runtime. Of the coordinator only the staged coding request is modelled; the
single-agent modes are runs of AgentRun.

Hazards that no property covers:

* An edit of the user between the comparison of the fingerprint and
  `git reset --hard` is discarded by an undo (`workbench.py:439`). Nothing short of
  a lock that editors respect could prevent it, and the code does not promise it.
* The loop of a job may be closed between `is_closed` and `call_soon_threadsafe`,
  which raises out of the handler (`workbench.py:595`); the job is over by then.
* A new file is skipped while the code index is full, also when another one is
  removed later in the same update (`context/code_index.py:526`): the limit is
  abstracted.
* Two processes that resume one agent run at the same time: AgentRun has one process at
  a time.
* An approval that was accepted and is overwritten by `expired` (section 4) is not
  counted as a fault: the operation does not run.
* The process of an MCP connection that is being opened may appear after `close` has
  looked for it (`integrations/mcp.py:513`, `integrations/mcp.py:740`): a connection
  appears at once in McpClient, and no property depends on it.
* Worker and installer share one cancellation event: after a stop that timed out,
  an installation may clear it (`inference.py:504`). The model lets it happen; the
  stop has then answered "error", and `StoppedMeansGone` promises nothing.

Not modelled at all, with the reason: the event bus (no caller), the sandbox and
the configuration (pure functions over strings), role agents (prompts around the
one loop), model routing, security reports and static analysis, speculative
drafting, resource checks, wrappers of the operating system; the lifecycle of the
harness's own revisions (agents only read the activated ones); the web interface,
the dialogs of the desktop shell and the views and updater of the editor extension.

Next: liveness stays with TLC. What is left to prove are properties that no run
checks yet, of hazards in the parts that are abstracted above; the first would be the
limit on the number of files of the code index, and the dollar cap of the ledger, for
which `SumChanges` is the lemma that is needed.
