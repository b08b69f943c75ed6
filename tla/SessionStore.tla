---------------------------- MODULE SessionStore ----------------------------
(***************************************************************************)
(* One persistent session (orchestrator/sessions.py) that several          *)
(* processes share: terminals that run or resume a request in it           *)
(* (cli/main.py, remote.py), each of which may crash at any step, and an    *)
(* engine that reconciles the index of all sessions when it starts          *)
(* (workbench.py).                                                         *)
(*                                                                         *)
(* Abstractions.  A turn keeps its status and how many phases it has       *)
(* checkpointed; the record in the index keeps the number of turns, the    *)
(* status of the last one, and whether it carries the error that           *)
(* reconciliation writes.  A file is replaced atomically; a read of it sees *)
(* one version.                                                            *)
(***************************************************************************)
EXTENDS Naturals, Sequences

CONSTANTS
    Processes,    \* terminals and /run requests that use the session
    NONE,         \* no process
    MaxUserRequests,  \* bound: requests and resumptions
    MaxPhases,    \* bound: checkpoints of one turn
    MaxCrashes    \* bound: crashes

ASSUME SessionAssumption ==
    /\ NONE \notin Processes
    /\ MaxUserRequests \in Nat /\ MaxPhases \in Nat /\ MaxCrashes \in Nat

VARIABLES
    state,      \* state.json: the turns
    index,      \* the session's record in sessions.json
    lease,      \* the holder of the session's .lock
    storeLock,  \* the holder of the store's lock, in the middle of a save
    mem,        \* session.state of each process
    pc,         \* where each process is
    wants,      \* what it was started for: "request" or "resume"
    stale,      \* what the starting engine read of the record
    requests, crashes

session == <<state, index, lease, storeLock>>
process == <<mem, pc, wants>>
vars == <<session, process, stale, requests, crashes>>
-----------------------------------------------------------------------------
UNFINISHED_STATUSES == {"running", "interrupted", "failed"}

Turns == [status : UNFINISHED_STATUSES \cup {"completed", "superseded"}, done : Nat]

Last(turns) == turns[Len(turns)]

Unfinished(turns) == turns # <<>> /\ Last(turns).status \in UNFINISHED_STATUSES

WithLast(turns, status) == [turns EXCEPT ![Len(turns)].status = status]

Init ==
    /\ state = <<>>
    /\ index = [turns |-> 0, status |-> "none", restarted |-> FALSE]
    /\ lease = NONE /\ storeLock = NONE
    /\ mem = [p \in Processes |-> <<>>]
    /\ pc = [p \in Processes |-> "idle"]
    /\ wants = [p \in Processes |-> "request"]
    /\ stale = "none"
    /\ requests = 0 /\ crashes = 0

Step(p, from, to) == pc[p] = from /\ pc' = [pc EXCEPT ![p] = to]
-----------------------------------------------------------------------------
(* The session is opened, and a resumption refused at once if the last turn *)
(* is finished.  The configuration is loaded before the lease is taken.     *)
Open(p, want) ==
    /\ requests < MaxUserRequests /\ requests' = requests + 1
    /\ want = "resume" => Unfinished(state)
    /\ Step(p, "idle", "opened")
    /\ wants' = [wants EXCEPT ![p] = want]
    /\ mem' = [mem EXCEPT ![p] = state]
    /\ UNCHANGED <<session, stale, crashes>>

(* A mutation: the state is not read again under the lease.                 *)
Acquire_Stale(p) ==
    /\ IF lease = NONE
       THEN Step(p, "opened", "acquired") /\ lease' = p /\ UNCHANGED mem
       ELSE Step(p, "opened", "idle") /\ UNCHANGED lease /\ mem' = [mem EXCEPT ![p] = <<>>]
    /\ UNCHANGED <<state, index, storeLock, wants, stale, requests, crashes>>

(* Session.acquire: without waiting, and with a fresh look at the state.    *)
Acquire(p) ==
    /\ IF lease = NONE
       THEN /\ Step(p, "opened", "acquired")
            /\ lease' = p
            /\ mem' = [mem EXCEPT ![p] = state]
       ELSE Step(p, "opened", "idle") /\ UNCHANGED lease /\ mem' = [mem EXCEPT ![p] = <<>>]
    /\ UNCHANGED <<state, index, storeLock, wants, stale, requests, crashes>>

(* Session.save starts: the new state is in memory, no lock taken yet.      *)
BeginSave(p, turns) == mem' = [mem EXCEPT ![p] = turns]

(* A mutation: the unfinished turn stays as it is.                          *)
StartTurn_NoSupersede(p) ==
    /\ wants[p] = "request"
    /\ Step(p, "acquired", "saving")
    /\ BeginSave(p, Append(mem[p], [status |-> "running", done |-> 0]))
    /\ UNCHANGED <<session, wants, stale, requests, crashes>>

(* An unfinished turn is superseded by a new request.                       *)
StartTurn(p) ==
    /\ wants[p] = "request"
    /\ Step(p, "acquired", "saving")
    /\ LET kept == IF Unfinished(mem[p]) THEN WithLast(mem[p], "superseded") ELSE mem[p]
       IN  BeginSave(p, Append(kept, [status |-> "running", done |-> 0]))
    /\ UNCHANGED <<session, wants, stale, requests, crashes>>

(* A mutation: the last turn is reopened as it was when the session was opened. *)
ReopenTurn_Unchecked(p) ==
    /\ wants[p] = "resume"
    /\ Step(p, "acquired", "saving") /\ mem[p] # <<>> /\ BeginSave(p, WithLast(mem[p], "running"))
    /\ UNCHANGED <<session, wants, stale, requests, crashes>>

(* The turn another process finished meanwhile is not reopened.             *)
ReopenTurn(p) ==
    /\ wants[p] = "resume"
    /\ IF Unfinished(mem[p])
       THEN Step(p, "acquired", "saving") /\ BeginSave(p, WithLast(mem[p], "running"))
       ELSE Step(p, "acquired", "leaving") /\ UNCHANGED mem
    /\ UNCHANGED <<session, wants, stale, requests, crashes>>

(* TurnCheckpoint.put by the coordinator.                                   *)
Put(p) ==
    /\ Step(p, "running", "saving")
    /\ Last(mem[p]).done < MaxPhases
    /\ BeginSave(p, [mem[p] EXCEPT ![Len(mem[p])].done = @ + 1])
    /\ UNCHANGED <<session, wants, stale, requests, crashes>>

FinishTurn(p, status) ==
    /\ Step(p, "running", "saving")
    /\ BeginSave(p, WithLast(mem[p], status))
    /\ UNCHANGED <<session, wants, stale, requests, crashes>>

(* A mutation: the record is already merged before the state is replaced.   *)
WriteState_IndexFirst(p) ==
    /\ storeLock = NONE
    /\ Step(p, "saving", "indexing")
    /\ storeLock' = p
    /\ index' = [index EXCEPT !.turns = Len(mem[p]), !.status = Last(mem[p]).status]
    /\ UNCHANGED <<state, lease, mem, wants, stale, requests, crashes>>

(* Under the store's lock: the state first, then the index.                 *)
WriteState(p) ==
    /\ storeLock = NONE
    /\ Step(p, "saving", "indexing")
    /\ storeLock' = p /\ state' = mem[p]
    /\ UNCHANGED <<index, lease, mem, wants, stale, requests, crashes>>

(* The record is merged: an error that reconciliation wrote stays in it.    *)
WriteIndex(p) ==
    /\ Step(p, "indexing", IF Last(mem[p]).status = "running" THEN "running" ELSE "leaving")
    /\ index' = [index EXCEPT !.turns = Len(mem[p]), !.status = Last(mem[p]).status]
    /\ storeLock' = NONE
    /\ UNCHANGED <<state, lease, mem, wants, stale, requests, crashes>>

Release(p) ==
    /\ Step(p, "leaving", "idle")
    /\ lease' = NONE
    /\ mem' = [mem EXCEPT ![p] = <<>>]
    /\ UNCHANGED <<state, index, storeLock, wants, stale, requests, crashes>>

(* The operating system drops the locks of a process that dies.             *)
Crash(p) ==
    /\ pc[p] # "idle" /\ crashes < MaxCrashes
    /\ crashes' = crashes + 1
    /\ pc' = [pc EXCEPT ![p] = "idle"]
    /\ lease' = IF lease = p THEN NONE ELSE lease
    /\ storeLock' = IF storeLock = p THEN NONE ELSE storeLock
    /\ mem' = [mem EXCEPT ![p] = <<>>]
    /\ UNCHANGED <<state, index, wants, stale, requests>>
-----------------------------------------------------------------------------
(* reconcile_sessions of a starting engine: it lists the records under the  *)
(* store's lock, and then saves those that looked active.                   *)
ListSessions ==
    /\ storeLock = NONE
    /\ stale' = index.status
    /\ UNCHANGED <<session, process, requests, crashes>>

ReconcileSession ==
    /\ storeLock = NONE
    /\ stale \in {"queued", "running", "cancelling"}
    /\ index' = [index EXCEPT !.status = "interrupted", !.restarted = TRUE]
    /\ stale' = "none"
    /\ UNCHANGED <<state, lease, storeLock, process, requests, crashes>>
-----------------------------------------------------------------------------
Next ==
    \/ \E p \in Processes :
        \/ \E want \in {"request", "resume"} : Open(p, want)
        \/ Acquire(p) \/ StartTurn(p) \/ ReopenTurn(p) \/ Put(p)
        \/ \E status \in {"completed", "interrupted", "failed"} : FinishTurn(p, status)
        \/ WriteState(p) \/ WriteIndex(p) \/ Release(p) \/ Crash(p)
    \/ ListSessions \/ ReconcileSession

Spec == Init /\ [][Next]_vars
-----------------------------------------------------------------------------
(* The types; the index never lists the status "superseded", which no last  *)
(* turn has (sessions.py:660).                                              *)
TypeOK ==
    /\ state \in Seq(Turns)
    /\ index \in [turns : Nat, status : UNFINISHED_STATUSES \cup {"completed", "none"}, restarted : BOOLEAN]
    /\ lease \in Processes \cup {NONE} /\ storeLock \in Processes \cup {NONE}
    /\ mem \in [Processes -> Seq(Turns)]
    /\ pc \in [Processes -> {"idle", "opened", "acquired", "saving", "indexing", "running", "leaving"}]
    /\ wants \in [Processes -> {"request", "resume"}]
    /\ stale \in UNFINISHED_STATUSES \cup {"completed", "none"}
    /\ requests \in 0 .. MaxUserRequests /\ crashes \in 0 .. MaxCrashes

(* A turn that was completed, or superseded by a later request, is never    *)
(* changed again: no second process resumes it from a state it read before. *)
FinishedTurnsAreFinal ==
    [][\A i \in DOMAIN state :
        state[i].status \in {"completed", "superseded"} => i \in DOMAIN state' /\ state'[i] = state[i]]_vars

(* The turn that --resume continues is the only one in the saved state that *)
(* did not end, whoever crashed or gave up in between.                      *)
OnlyTheLastTurnIsOpen ==
    \A i \in DOMAIN state : state[i].status \in UNFINISHED_STATUSES => i = Len(state)

(* A process that writes the session never takes a turn or a checkpointed   *)
(* phase of another process away.                                          *)
NoCheckpointIsLost ==
    [][/\ Len(state') >= Len(state)
       /\ \A i \in DOMAIN state : state'[i].done >= state[i].done]_vars

(* What the index lists is in the saved state: a crash may leave the index  *)
(* behind, never ahead.                                                    *)
IndexIsNeverAhead ==
    /\ index.turns <= Len(state)
    /\ index.status = "completed" => \E i \in DOMAIN state : state[i].status = "completed"

(* "Server restarted before completion" is not said of a request that was   *)
(* completed, by a process that never restarted (workbench.py:98).          *)
RestartsAreReal == index.restarted => index.status # "completed"
=============================================================================
