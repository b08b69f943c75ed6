----------------------------- MODULE McpClient -----------------------------
(***************************************************************************)
(* Calls of tools on one MCP server (integrations/mcp.py): a call that is  *)
(* not read-only asks the human, then the calls take turns on the lock of  *)
(* the server.  A connection serves many calls; whatever goes wrong on it, *)
(* a timeout and a cancellation included, closes it.                       *)
(*                                                                         *)
(* Abstractions.  A call makes two requests on the connection, the list of *)
(* tools and the call; the ones that open a connection are the first of a  *)
(* new one.  The server answers when it likes, late or twice, and its own  *)
(* requests and notifications are left out.  The configuration of a live   *)
(* manager does not change: no caller in the source reconfigures one.      *)
(***************************************************************************)
EXTENDS ApprovalInbox, Sequences

CONSTANTS
    ReadOnly,        \* operations whose tool is listed as read-only
    NOBODY,
    MaxConnections,  \* bound: connections opened
    MaxAnswers       \* bound: answers in the pipe of a connection

ASSUME McpAssumption ==
    /\ ReadOnly \subseteq Operations /\ NOBODY \notin Operations
    /\ MaxConnections \in Nat /\ MaxAnswers \in Nat

VARIABLES
    phase,      \* where each call is
    queue,      \* the lock of the server: the holder first, then who waits
    connection, \* the number of the open connection, 0 if there is none
    opened,     \* connections opened
    request,    \* number of the last request on the connection
    seen,       \* requests that reached the server: their number and call
    pipe,       \* answers on the way to the client: number, and whose request
    executed,   \* history: calls whose tool the server was asked to run
    result      \* history: whose answer each call returned

mcpVars == <<approvalVars, phase, queue, connection, opened, request, seen, pipe, executed, result>>
wire == <<connection, opened, request, seen, pipe>>

McpInit ==
    /\ ApprovalInit
    /\ phase = [o \in Operations |-> "idle"] /\ queue = <<>>
    /\ connection = 0 /\ opened = 0 /\ request = 0
    /\ seen = {} /\ pipe = <<>> /\ executed = <<>>
    /\ result = [o \in Operations |-> NOBODY]

Enter(o, from, to) == phase[o] = from /\ phase' = [phase EXCEPT ![o] = to]
-----------------------------------------------------------------------------
(* MCPManager.call_tool up to the lock.                                     *)
CallTool(o) ==
    /\ IF o \in ReadOnly
       THEN Enter(o, "idle", "queued") /\ queue' = Append(queue, o) /\ UNCHANGED approvalVars
       ELSE Enter(o, "idle", "asking") /\ Ask(o) /\ UNCHANGED queue
    /\ UNCHANGED <<wire, executed, result>>

\* A mutation: any settled item lets the call go ahead.
Approved_NotDenied(o) ==
    /\ \E approved \in BOOLEAN : Answered(o, approved)
    /\ IF item[o] # "denied"
       THEN Enter(o, "asking", "queued") /\ queue' = Append(queue, o)
       ELSE Enter(o, "asking", "failed") /\ UNCHANGED queue
    /\ UNCHANGED <<wire, executed, result>>

(* The answer of the human.                                                 *)
Approved(o) ==
    /\ \/ /\ Answered(o, TRUE)
          /\ Enter(o, "asking", "queued") /\ queue' = Append(queue, o)
       \/ /\ Answered(o, FALSE) \/ Expire(o) \/ CancelAsking(o)
          /\ Enter(o, "asking", "failed") /\ UNCHANGED queue
    /\ UNCHANGED <<wire, executed, result>>

\* Request n of o is written to the connection.
SendRequest(o, n) ==
    /\ request' = n /\ seen' = seen \union {[number |-> n, of |-> o]}

(* MCPManager._run with the lock: a connection is opened if there is none,  *)
(* and the list of tools is asked for.                                      *)
Begin(o) ==
    /\ queue # <<>> /\ Head(queue) = o /\ Enter(o, "queued", "listing")
    /\ IF connection = 0
       THEN /\ opened < MaxConnections
            /\ connection' = opened + 1 /\ opened' = opened + 1
            /\ request' = 1 /\ seen' = {[number |-> 1, of |-> o]} /\ pipe' = <<>>
       ELSE SendRequest(o, request + 1) /\ UNCHANGED <<connection, opened, pipe>>
    /\ UNCHANGED <<approvalVars, queue, executed, result>>

(* The server answers a request it has seen, again perhaps.                 *)
Answer(r) ==
    /\ connection # 0 /\ r \in seen /\ Len(pipe) < MaxAnswers
    /\ pipe' = Append(pipe, r)
    /\ UNCHANGED <<approvalVars, phase, queue, connection, opened, request, seen, executed, result>>

\* The operation ends in any way but a result: the connection is closed, the lock released.
FailCall(o) ==
    /\ phase' = [phase EXCEPT ![o] = "failed"] /\ queue' = Tail(queue)
    /\ connection' = 0 /\ request' = 0 /\ seen' = {} /\ pipe' = <<>>
    /\ UNCHANGED <<approvalVars, opened, executed, result>>

\* A mutation: the number of an answer is not compared.
Receive_AnyNumber(o) ==
    /\ pipe # <<>> /\ pipe' = Tail(pipe)
    /\ \/ /\ Enter(o, "listing", "calling") /\ SendRequest(o, request + 1) /\ executed' = Append(executed, o)
          /\ UNCHANGED <<queue, result>>
       \/ /\ Enter(o, "calling", "done") /\ queue' = Tail(queue)
          /\ result' = [result EXCEPT ![o] = Head(pipe).of]
          /\ UNCHANGED <<request, seen, executed>>
    /\ UNCHANGED <<approvalVars, connection, opened>>

(* _Connection.send reads an answer: it must carry the number of the        *)
(* request.  The tool is called if the list has it, and its result returned.*)
ReceiveAnswer(o) ==
    /\ pipe # <<>> /\ phase[o] \in {"listing", "calling"}
    /\ \/ Head(pipe).number # request /\ FailCall(o)
       \/ /\ Head(pipe).number = request /\ pipe' = Tail(pipe)
          /\ \/ /\ Enter(o, "listing", "calling") /\ SendRequest(o, request + 1) /\ executed' = Append(executed, o)
                /\ UNCHANGED <<queue, result>>
             \/ /\ Enter(o, "calling", "done") /\ queue' = Tail(queue)
                /\ result' = [result EXCEPT ![o] = Head(pipe).of]
                /\ UNCHANGED <<request, seen, executed>>
          /\ UNCHANGED <<approvalVars, connection, opened>>

(* The server fails, a tool is missing, the time is up, or the task is      *)
(* cancelled: _run closes the connection before it gives the lock back.     *)
BreakOff(o) == phase[o] \in {"listing", "calling"} /\ FailCall(o)

\* The queue without the one at place k.
Without(k) == [i \in 1..(Len(queue) - 1) |-> IF i < k THEN queue[i] ELSE queue[i + 1]]

(* A call is cancelled while it waits for the lock.                         *)
CancelQueued(o) ==
    /\ Enter(o, "queued", "failed")
    /\ \E k \in DOMAIN queue : queue[k] = o /\ queue' = Without(k)
    /\ UNCHANGED <<approvalVars, wire, executed, result>>

(* MCPManager.close takes no lock: the connection of a running call is gone.*)
CloseManager ==
    /\ connection # 0
    /\ connection' = 0 /\ request' = 0 /\ seen' = {} /\ pipe' = <<>>
    /\ UNCHANGED <<approvalVars, phase, queue, opened, executed, result>>

Human == \/ \E o \in Operations, approved \in BOOLEAN : Respond(o, approved)
         \/ CancelAll \/ Tick
-----------------------------------------------------------------------------
McpNext ==
    \/ \E o \in Operations :
        \/ CallTool(o) \/ Approved(o) \/ Begin(o) \/ ReceiveAnswer(o) \/ BreakOff(o) \/ CancelQueued(o)
    \/ \E r \in seen : Answer(r)
    \/ CloseManager
    \/ Human /\ UNCHANGED <<phase, queue, wire, executed, result>>

McpSpec == McpInit /\ [][McpNext]_mcpVars
-----------------------------------------------------------------------------
CallPhases == {"idle", "asking", "queued", "listing", "calling", "done", "failed"}

McpTypeOK ==
    /\ now \in 0..MaxTime
    /\ item \in [Operations -> {"none", "pending", "approved", "denied", "expired", "cancelled"}]
    /\ askedAt \in [Operations -> 0..MaxTime] /\ waiting \subseteq Operations
    /\ told \in [Operations -> {"nothing", "approved", "denied"}]
    /\ phase \in [Operations -> CallPhases] /\ queue \in Seq(Operations)
    /\ connection \in 0..opened /\ opened \in 0..MaxConnections /\ request \in Nat
    /\ seen \subseteq [number : Nat, of : Operations]
    /\ pipe \in Seq([number : Nat, of : Operations])
    /\ executed \in Seq(Operations) /\ result \in [Operations -> Operations \union {NOBODY}]

(* A tool that is not read-only is run only for a call that the human       *)
(* approved, and was told so, before its deadline; a call is run at most    *)
(* once, whatever timed out, expired or was cancelled around it.            *)
OnlyApprovedCallsRun ==
    /\ \A i \in DOMAIN executed : executed[i] \in ReadOnly \/ told[executed[i]] = "approved"
    /\ \A i, j \in DOMAIN executed : executed[i] = executed[j] => i = j

(* What a call returns is the server's answer to that call, also after      *)
(* other calls on the connection timed out, were cancelled, or were         *)
(* answered twice.                                                          *)
AnswersBelongToTheirCall == \A o \in Operations : result[o] \in {NOBODY, o}
=============================================================================
