---------------------------- MODULE PlanMailbox ----------------------------
(***************************************************************************)
(* The messages between the tasks of one plan (orchestrator/mailbox.py,    *)
(* tools/team_message.py), from the opening of the channel by the          *)
(* coordinator to its close.  The inboxes are bounded, so is the number of *)
(* messages and of bytes of the whole plan.                                *)
(*                                                                         *)
(* Abstractions.  A message is its number, its recipient and its size; the *)
(* filters of its content are left out.  How much one read takes is left   *)
(* open between nothing and the limit: the character budget decides.  A    *)
(* call that is refused raises and changes nothing: it is a stutter.       *)
(***************************************************************************)
EXTENDS Integers, Sequences

CONSTANTS
    Participants,  \* tasks of the plan
    Sizes,         \* sizes a message may have
    MaxPending,    \* max_pending
    MaxMessages,   \* max_messages, over the life of the plan
    MaxBytes,      \* max_total_bytes, over the life of the plan
    ReadLimit      \* limit of one read

ASSUME MailboxAssumption ==
    /\ Sizes \subseteq Nat \ {0}
    /\ MaxPending \in Nat /\ MaxMessages \in Nat /\ MaxBytes \in Nat /\ ReadLimit \in Nat

VARIABLES
    inbox,      \* pending messages of each participant
    receiver,   \* the call of receive for each participant: out, waiting, woken
    sent, bytes,
    closed,
    accepted,   \* history: messages whose sender was told they were sent
    delivered   \* history: messages each participant was handed

mailboxVars == <<inbox, receiver, sent, bytes, closed, accepted, delivered>>

Messages == [number : Nat, to : Participants]

MailboxInit ==
    /\ inbox = [p \in Participants |-> <<>>]
    /\ receiver = [p \in Participants |-> "out"]
    /\ sent = 0 /\ bytes = 0 /\ closed = FALSE
    /\ accepted = [p \in Participants |-> <<>>]
    /\ delivered = [p \in Participants |-> <<>>]
-----------------------------------------------------------------------------
\* ready.set(): every call that waits is woken.
Wake(p) == receiver' = [receiver EXCEPT ![p] = IF @ = "waiting" THEN "woken" ELSE @]

\* A mutation: the deque drops its oldest message when it is full.
Send_DropsOldest(p, size) ==
    /\ ~closed
    /\ sent < MaxMessages /\ bytes + size <= MaxBytes
    /\ LET m == [number |-> sent + 1, to |-> p]
           kept == IF Len(inbox[p]) < MaxPending THEN inbox[p] ELSE Tail(inbox[p])
       IN  /\ inbox' = [inbox EXCEPT ![p] = Append(kept, m)]
           /\ accepted' = [accepted EXCEPT ![p] = Append(@, m)]
    /\ sent' = sent + 1 /\ bytes' = bytes + size
    /\ Wake(p)
    /\ UNCHANGED <<closed, delivered>>

(* PlanMailbox.send to p: the capacity is checked and the message appended  *)
(* without an await in between; a full channel refuses.                     *)
Send(p, size) ==
    /\ ~closed
    /\ Len(inbox[p]) < MaxPending /\ sent < MaxMessages /\ bytes + size <= MaxBytes
    /\ LET m == [number |-> sent + 1, to |-> p]
       IN  /\ inbox' = [inbox EXCEPT ![p] = Append(@, m)]
           /\ accepted' = [accepted EXCEPT ![p] = Append(@, m)]
    /\ sent' = sent + 1 /\ bytes' = bytes + size
    /\ Wake(p)
    /\ UNCHANGED <<closed, delivered>>

\* The first n messages of p are handed over.
Take(p, n) ==
    /\ inbox' = [inbox EXCEPT ![p] = SubSeq(@, n + 1, Len(@))]
    /\ delivered' = [delivered EXCEPT ![p] = @ \o SubSeq(inbox[p], 1, n)]

(* TeamMessageTool read, PlanMailbox.drain.  A first message that does not  *)
(* fit the budget raises, and nothing is consumed.                          *)
Drain(p, n) ==
    /\ ~closed
    /\ n \in 1..ReadLimit /\ n <= Len(inbox[p])
    /\ Take(p, n)
    /\ UNCHANGED <<receiver, sent, bytes, closed, accepted>>

(* PlanMailbox.receive: takes the next message or waits for one.  The event *)
(* is cleared and awaited without letting another coroutine run.            *)
Receive(p) ==
    /\ receiver[p] = "out" /\ ~closed
    /\ IF inbox[p] # <<>>
       THEN Take(p, 1) /\ UNCHANGED receiver
       ELSE receiver' = [receiver EXCEPT ![p] = "waiting"] /\ UNCHANGED <<inbox, delivered>>
    /\ UNCHANGED <<sent, bytes, closed, accepted>>

(* The woken call looks again: the channel may be closed, and another read  *)
(* may have taken the message.                                              *)
WakeUp(p) ==
    /\ receiver[p] = "woken"
    /\ \/ /\ closed
          /\ receiver' = [receiver EXCEPT ![p] = "out"]
          /\ UNCHANGED <<inbox, delivered>>
       \/ /\ ~closed /\ inbox[p] # <<>>
          /\ Take(p, 1)
          /\ receiver' = [receiver EXCEPT ![p] = "out"]
       \/ /\ ~closed /\ inbox[p] = <<>>
          /\ receiver' = [receiver EXCEPT ![p] = "waiting"]
          /\ UNCHANGED <<inbox, delivered>>
    /\ UNCHANGED <<sent, bytes, closed, accepted>>

(* wait_for gives up; a message that arrived with the timeout stays.        *)
TimeOut(p) ==
    /\ receiver[p] \in {"waiting", "woken"}
    /\ receiver' = [receiver EXCEPT ![p] = "out"]
    /\ UNCHANGED <<inbox, sent, bytes, closed, accepted, delivered>>

(* PlanMailbox.close, in the finally clause of the plan.                    *)
Close ==
    /\ ~closed /\ closed' = TRUE
    /\ inbox' = [p \in Participants |-> <<>>]
    /\ receiver' = [p \in Participants |-> IF receiver[p] = "waiting" THEN "woken" ELSE receiver[p]]
    /\ UNCHANGED <<sent, bytes, accepted, delivered>>
-----------------------------------------------------------------------------
MailboxNext ==
    \/ \E p \in Participants :
        \/ \E size \in Sizes : Send(p, size)
        \/ \E n \in 1..ReadLimit : Drain(p, n)
        \/ Receive(p) \/ WakeUp(p) \/ TimeOut(p)
    \/ Close

MailboxSpec == MailboxInit /\ [][MailboxNext]_mailboxVars
-----------------------------------------------------------------------------
MailboxTypeOK ==
    /\ inbox \in [Participants -> Seq(Messages)]
    /\ receiver \in [Participants -> {"out", "waiting", "woken"}]
    /\ sent \in 0..MaxMessages /\ bytes \in 0..MaxBytes /\ closed \in BOOLEAN
    /\ accepted \in [Participants -> Seq(Messages)]
    /\ delivered \in [Participants -> Seq(Messages)]

(* A message whose sender was told it was sent is handed over exactly once  *)
(* and in the order of sending, by whichever of read and receive, or is     *)
(* still pending; only the end of the plan discards messages.               *)
EveryMessageArrivesOnce ==
    \A p \in Participants :
        /\ ~closed => delivered[p] \o inbox[p] = accepted[p]
        /\ closed => /\ Len(delivered[p]) <= Len(accepted[p])
                     /\ delivered[p] = SubSeq(accepted[p], 1, Len(delivered[p]))

\* No call sleeps beside a message, or beyond the end of the plan.
NoLostWakeup ==
    \A p \in Participants : receiver[p] = "waiting" => inbox[p] = <<>> /\ ~closed

(* The channel is reliable: what was accepted arrives, and whoever waits    *)
(* for it is woken.                                                         *)
ChannelIsReliable == EveryMessageArrivesOnce /\ NoLostWakeup
=============================================================================
