------------------------------- MODULE MCTurn -------------------------------
(* What a turn is made of, and what must come to an end: a behaviour is one *)
(* of the rounds of one agent, of a plan that is executed, of one call of   *)
(* validate, of the channel of a plan, or of the tasks of one life of the   *)
(* server; the other parts rest.                                            *)
EXTENDS AgentRun, MCPlanExecution, DagValidation, PlanMailbox, JobLifecycle

VARIABLE part

PlanAtRest ==
    /\ saved = NothingSaved /\ turn = "completed" /\ at = "idle"
    /\ status = [t \in Tasks |-> "pending"] /\ stage = [t \in Tasks |-> "out"]
    /\ slots = 1 /\ raised = "no" /\ report = "none" /\ resumes = 0
    /\ attempts = [t \in Tasks |-> 0] /\ touched = {}
    /\ lastEnd = [t \in Tasks |-> "none"]

GraphAtRest ==
    /\ deps = <<>> /\ missing = {} /\ cycles = {} /\ visited = {} /\ stack = <<>> /\ roots = {}

TurnInit ==
    /\ Init /\ MailboxInit /\ JobsInit
    /\ \/ part = "rounds" /\ PlanAtRest /\ GraphAtRest
       \/ part = "plan" /\ PlanInit /\ GraphAtRest
       \/ part = "graph" /\ PlanAtRest /\ DagInit
       \/ part \in {"messages", "jobs"} /\ PlanAtRest /\ GraphAtRest

RoundsStep(A) == part = "rounds" /\ A /\ UNCHANGED <<planVars, dagVars, mailboxVars, jobVars, part>>
PlanStep(A) == part = "plan" /\ A /\ UNCHANGED <<vars, dagVars, mailboxVars, jobVars, part>>
GraphStep(A) == part = "graph" /\ A /\ UNCHANGED <<vars, planVars, mailboxVars, jobVars, part>>
MailStep(A) == part = "messages" /\ A /\ UNCHANGED <<vars, planVars, dagVars, jobVars, part>>
JobStep(A) == part = "jobs" /\ A /\ UNCHANGED <<vars, planVars, dagVars, mailboxVars, part>>

turnVars == <<vars, planVars, dagVars, mailboxVars, jobVars, part>>

TurnNext ==
    RoundsStep(Next) \/ PlanStep(PlanNext) \/ GraphStep(DagNext) \/ MailStep(MailboxNext) \/ JobStep(Life)

\* The fairness of the jobs asks nothing of the other parts, in which every job is new.
TurnSpec ==
    /\ TurnInit /\ [][TurnNext]_turnVars
    /\ WF_turnVars(RoundsStep(Process))
    /\ WF_turnVars(PlanStep(RunPlan))
    /\ JobsFairness
=============================================================================
