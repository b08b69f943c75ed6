--------------------------- MODULE ApprovalInbox ---------------------------
(***************************************************************************)
(* The approvals a human gives to operations (core/approvals.py): the      *)
(* coroutine of each operation polls its item until a deadline, handlers   *)
(* of HTTP requests answer it from other threads, a shutdown cancels what  *)
(* is pending, and the operation itself may be cancelled.                  *)
(*                                                                         *)
(* Abstractions.  Both clocks of the code are one, which counts polls; the *)
(* coroutine may be late.  Descriptions are left out, and so is the limit  *)
(* on settled items, which nothing reads again.                            *)
(***************************************************************************)
EXTENDS Integers

CONSTANTS
    Operations,  \* operations that may ask
    Patience,    \* timeout
    MaxTime      \* bound: the clock

ASSUME ApprovalAssumption == Patience \in Nat \ {0} /\ MaxTime \in Nat

VARIABLES
    now,
    item,      \* the status of each operation's item; "none": it did not ask
    askedAt,   \* created_at
    waiting,   \* operations whose coroutine is in request
    told        \* history: what the human was told was accepted

approvalVars == <<now, item, askedAt, waiting, told>>

ApprovalInit ==
    /\ now = 0
    /\ item = [o \in Operations |-> "none"] /\ askedAt = [o \in Operations |-> 0]
    /\ waiting = {} /\ told = [o \in Operations |-> "nothing"]

Deadline(o) == askedAt[o] + Patience
-----------------------------------------------------------------------------
(* ApprovalInbox.request puts the item in the inbox.                        *)
Ask(o) ==
    /\ item[o] = "none"
    /\ item' = [item EXCEPT ![o] = "pending"] /\ askedAt' = [askedAt EXCEPT ![o] = now]
    /\ waiting' = waiting \union {o}
    /\ UNCHANGED <<now, told>>

(* The loop of request ends with an answer.                                 *)
Answered(o, approved) ==
    /\ o \in waiting /\ now < Deadline(o)
    /\ item[o] # "pending" /\ approved = (item[o] = "approved")
    /\ waiting' = waiting \ {o}
    /\ UNCHANGED <<now, item, askedAt, told>>

(* It ends at the deadline, without looking at the item once more.          *)
Expire(o) ==
    /\ o \in waiting /\ now >= Deadline(o)
    /\ item' = [item EXCEPT ![o] = "expired"]
    /\ waiting' = waiting \ {o}
    /\ UNCHANGED <<now, askedAt, told>>

(* The operation is cancelled while it waits.                               *)
CancelAsking(o) ==
    /\ o \in waiting
    /\ item' = [item EXCEPT ![o] = "cancelled"]
    /\ waiting' = waiting \ {o}
    /\ UNCHANGED <<now, askedAt, told>>

(* ApprovalInbox.respond.  After the deadline the human is told that the    *)
(* request has expired.                                                     *)
Respond(o, approved) ==
    /\ item[o] = "pending"
    /\ LET late == now >= Deadline(o)
           answer == IF approved THEN "approved" ELSE "denied"
       IN  /\ item' = [item EXCEPT ![o] = IF late THEN "expired" ELSE answer]
           /\ told' = [told EXCEPT ![o] = IF late THEN @ ELSE answer]
    /\ UNCHANGED <<now, askedAt, waiting>>

(* ApprovalInbox.cancel_all, when the server shuts down.                    *)
CancelAll ==
    /\ \E o \in Operations : item[o] = "pending"
    /\ item' = [o \in Operations |-> IF item[o] = "pending" THEN "cancelled" ELSE item[o]]
    /\ UNCHANGED <<now, askedAt, waiting, told>>

Tick ==
    /\ now < MaxTime /\ now' = now + 1
    /\ UNCHANGED <<item, askedAt, waiting, told>>
=============================================================================
