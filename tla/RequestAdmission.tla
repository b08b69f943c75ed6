-------------------------- MODULE RequestAdmission --------------------------
(***************************************************************************)
(* How model requests of parallel agents are admitted: the shared ledger   *)
(* of core/budgets.py, the guard of the provider's free daily allowance in *)
(* providers/quota.py, and BudgetedModel, which asks both before a request *)
(* is sent (models/openai_compat.py) and settles it afterwards.            *)
(*                                                                         *)
(* The guard works in a thread (asyncio.to_thread): a cancelled request    *)
(* stops waiting for it, but the thread goes on.                           *)
(*                                                                         *)
(* Abstractions.  Every request reserves the same number of tokens; costs, *)
(* a second sum of the same shape, are left out.  The counters of the      *)
(* server are arbitrary: others use the account, and a snapshot may be     *)
(* old.  A day ends at the UTC rollover or at the reset the server named.  *)
(* The age of the cached counters (ttl_seconds) is left open.              *)
(***************************************************************************)
EXTENDS Integers, FiniteSetsExt

CONSTANTS
    Requests,     \* the attempts of the agents to call a model
    Free,         \* those to a free model
    MaxRequests,  \* limits of the ledger
    MaxTokens,
    Bound,        \* the tokens reserved by one request
    Excess,       \* bound: how far a provider may report more than that
    Limit,        \* the provider's daily allowance
    MaxDays       \* bound: days

ASSUME AdmissionAssumption ==
    /\ IsFiniteSet(Requests) /\ Free \subseteq Requests
    /\ {MaxRequests, MaxTokens, Bound, MaxDays} \subseteq Nat \ {0}
    /\ Limit \in Nat /\ Excess \in Nat

VARIABLES
    entries,  \* BudgetLedger.entries: the entry of each request
    guard,    \* FreeQuotaGuard: _day, _remaining, _attempted, _blocked, and
              \* whether counters were fetched since the rollover
    progress,       \* where each request is
    day,      \* the current day
    granted,  \* history: the allowance the server first reported this day
    denied    \* history: the day of the server's last denial, 0 if overruled

admissionVars == <<entries, guard, progress, day, granted, denied>>
-----------------------------------------------------------------------------
Unknown == -1
NoEntry == [status |-> "none", tokens |-> 0]

Reserved == [status |-> "reserved", tokens |-> Bound]

AdmissionInit ==
    /\ entries = [r \in Requests |-> NoEntry]
    /\ guard = [day |-> 0, remaining |-> Unknown, attempted |-> 0, blocked |-> FALSE, cached |-> FALSE]
    /\ progress = [r \in Requests |-> "new"]
    /\ day = 1
    /\ granted = Unknown /\ denied = 0

Charged == {r \in Requests : entries[r].status # "none"}
Tokens == [r \in Requests |-> entries[r].tokens]
Spent == SumFunctionOnSet(Tokens, Requests)

Advance(r, from, to) == progress[r] = from /\ progress' = [progress EXCEPT ![r] = to]
Quota == <<guard, granted, denied>>
-----------------------------------------------------------------------------
(* A mutation: what other requests still have reserved is not counted.      *)
Fits_SettledOnly ==
    LET settled == {r \in Charged : entries[r].status # "reserved"}
    IN  Cardinality(settled) < MaxRequests /\ SumFunctionOnSet(Tokens, settled) + Bound <= MaxTokens

(* BudgetLedger.reserve                                                    *)
Fits == Cardinality(Charged) < MaxRequests /\ Spent + Bound <= MaxTokens

Reserve(r) ==
    /\ IF Fits
       THEN Advance(r, "new", "waiting") /\ entries' = [entries EXCEPT ![r] = Reserved]
       ELSE Advance(r, "new", "over") /\ UNCHANGED entries
    /\ UNCHANGED <<Quota, day>>

(* _rollover: what is left is unknown again; a block stays.                *)
Rolled ==
    IF guard.day = day THEN guard
    ELSE [guard EXCEPT !.day = day, !.remaining = Unknown, !.attempted = 0, !.cached = FALSE]

(* A mutation: a later counter gives back what was spent here.              *)
Fetched_Restored(g, c) ==
    IF c = Unknown THEN [g EXCEPT !.cached = TRUE]
    ELSE [g EXCEPT !.cached = TRUE, !.remaining = c, !.blocked = c = 0]

(* _refresh with the counter c of the server, or without an answer.        *)
Fetched(g, c) ==
    LET first == g.remaining = Unknown
        left  == IF first THEN Max({0, c - g.attempted}) ELSE Min({g.remaining, c})
    IN  IF c = Unknown THEN [g EXCEPT !.cached = TRUE]
        ELSE [g EXCEPT !.cached = TRUE, !.remaining = left,
                       !.blocked = (g.blocked /\ ~first) \/ left = 0]

Counted(g) ==
    [g EXCEPT !.attempted = @ + 1, !.remaining = IF @ = Unknown THEN Unknown ELSE @ - 1]

(* What the server has said so far, after one more counter.                *)
Hear(c) ==
    LET before == IF guard.day = day THEN granted ELSE Unknown
    IN  /\ granted' = IF before = Unknown THEN c ELSE before
        /\ denied' = IF c = 0 THEN day ELSE IF c > 0 /\ denied < day THEN 0 ELSE denied

ReleaseEntry(r) == entries' = [entries EXCEPT ![r] = NoEntry]

(* The guard decided about g: a request that is still waited for goes on,  *)
(* or leaves the ledger; nobody waits for the answer of an orphan.         *)
Decide(r, g) ==
    \/ /\ g.blocked \/ g.remaining = 0
       /\ guard' = g
       /\ \/ Advance(r, "waiting", "over") /\ ReleaseEntry(r)
          \/ Advance(r, "orphaned", "over") /\ UNCHANGED entries
    \/ /\ ~g.blocked /\ g.remaining # 0
       /\ guard' = Counted(g)
       /\ Advance(r, "waiting", "admitted") \/ Advance(r, "orphaned", "over")
       /\ UNCHANGED entries

AdmitCached(r) ==
    /\ r \in Free /\ Rolled.cached
    /\ Decide(r, Rolled)
    /\ UNCHANGED <<day, granted, denied>>

AdmitFetched(r, c) ==
    /\ r \in Free
    /\ Decide(r, Fetched(Rolled, c))
    /\ Hear(c)
    /\ UNCHANGED day

(* The status of the allowance is shown, with fresh counters if asked.     *)
Status(c) ==
    /\ guard' = Fetched(Rolled, c)
    /\ Hear(c)
    /\ UNCHANGED <<entries, progress, day>>

(* Other requests do not touch the allowance.                              *)
AdmitPaid(r) ==
    /\ r \notin Free
    /\ Advance(r, "waiting", "admitted") \/ Advance(r, "orphaned", "over")
    /\ UNCHANGED <<entries, Quota, day>>
-----------------------------------------------------------------------------
Send(r) == Advance(r, "admitted", "sent") /\ UNCHANGED <<entries, Quota, day>>

Settle(r, status, tokens) == entries' = [entries EXCEPT ![r] = [status |-> status, tokens |-> tokens]]

(* The provider reports what was used, which may be nothing, or nothing    *)
(* that is usable.                                                         *)
Return(r, tokens) ==
    /\ Advance(r, "sent", "over")
    /\ Settle(r, "completed", tokens)
    /\ UNCHANGED <<Quota, day>>

(* An error, a timeout or a cancellation: the reservation is kept.         *)
Fail(r) ==
    /\ Advance(r, "sent", "over")
    /\ Settle(r, "failed", entries[r].tokens)
    /\ UNCHANGED <<Quota, day>>

(* 429 with the daily limit as its source; the guard is told in a thread.  *)
Deny(r) ==
    /\ r \in Free
    /\ Advance(r, "sent", "denied")
    /\ UNCHANGED <<entries, Quota, day>>

Observe(r) ==
    /\ \/ Advance(r, "denied", "over") /\ Settle(r, "failed", entries[r].tokens)
       \/ Advance(r, "unheard", "over") /\ UNCHANGED entries
    /\ guard' = [Rolled EXCEPT !.remaining = 0, !.blocked = TRUE]
    /\ denied' = day
    /\ granted' = IF guard.day = day THEN granted ELSE Unknown
    /\ UNCHANGED day

(* The task is cancelled while a thread works for it.                      *)
Cancel(r) ==
    /\ \/ Advance(r, "waiting", "orphaned") /\ ReleaseEntry(r)
       \/ Advance(r, "admitted", "over") /\ ReleaseEntry(r)
       \/ Advance(r, "denied", "unheard") /\ Settle(r, "failed", entries[r].tokens)
    /\ UNCHANGED <<Quota, day>>

NewDay == day < MaxDays /\ day' = day + 1 /\ UNCHANGED <<entries, Quota, progress>>
-----------------------------------------------------------------------------
AdmissionNext ==
    \/ \E r \in Requests :
        \/ Reserve(r) \/ AdmitCached(r) \/ AdmitPaid(r)
        \/ \E c \in 0 .. Limit \cup {Unknown} : AdmitFetched(r, c)
        \/ Send(r) \/ Fail(r) \/ Deny(r) \/ Observe(r) \/ Cancel(r)
        \/ \E tokens \in 0 .. Bound + Excess : Return(r, tokens)
    \/ \E c \in 0 .. Limit \cup {Unknown} : Status(c)
    \/ NewDay

AdmissionSpec == AdmissionInit /\ [][AdmissionNext]_admissionVars
-----------------------------------------------------------------------------
(* Types; what is left is known only after the counters were fetched.      *)
AdmissionTypeOK ==
    /\ entries \in [Requests -> [status : {"none", "reserved", "completed", "failed"}, tokens : 0 .. Bound + Excess]]
    /\ guard \in [day : 0 .. MaxDays, remaining : 0 .. Limit \cup {Unknown}, attempted : Nat,
                  blocked : BOOLEAN, cached : BOOLEAN]
    /\ progress \in [Requests -> {"new", "waiting", "orphaned", "admitted", "sent", "denied", "unheard", "over"}]
    /\ day \in 1 .. MaxDays
    /\ granted \in 0 .. Limit \cup {Unknown} /\ denied \in 0 .. MaxDays

(* A request that was sent is charged, a failed one with all it reserved,  *)
(* and the requests together stay within the limits except for what a      *)
(* provider reports beyond a reservation: no retry is free, and requests   *)
(* that reserve at the same time do not overdraw the budget.               *)
SpendingIsBounded ==
    /\ \A r \in Requests : progress[r] \in {"sent", "denied", "unheard"} => r \in Charged
    /\ \A r \in Requests : entries[r].status = "failed" => entries[r].tokens = Bound
    /\ Cardinality(Charged) <= MaxRequests
    /\ SumFunctionOnSet([r \in Requests |-> Min({entries[r].tokens, Bound})], Requests) <= MaxTokens

(* Free requests are admitted only out of what the server granted: on one  *)
(* day never more than its first counter, whatever later snapshots say     *)
(* and whichever attempts were made before it; and after a denial only     *)
(* when a counter of a later day shows capacity, not because time passed.  *)
FreeRequestsAreGranted ==
    [][\A r \in Free : progress[r] = "waiting" /\ progress'[r] = "admitted" =>
          /\ guard'.remaining # Unknown => guard'.attempted <= granted'
          /\ denied' = 0]_admissionVars
=============================================================================
