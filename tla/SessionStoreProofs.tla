------------------------ MODULE SessionStoreProofs ------------------------
(***************************************************************************)
(* The session of SessionStore for every number of processes, requests,    *)
(* phases and crashes: what is in a session file is only ever added to.    *)
(***************************************************************************)
EXTENDS SessionStore, TLAPS

Statuses == UNFINISHED_STATUSES \cup {"completed", "superseded"}

(* Nothing that was in the turns is gone from the new ones.                *)
Grows(old, new) ==
    /\ Len(old) <= Len(new)
    /\ \A i \in DOMAIN old :
        /\ new[i].done >= old[i].done
        /\ old[i].status \in {"completed", "superseded"} => new[i] = old[i]

OneOpen(turns) == \A i \in DOMAIN turns : turns[i].status \in UNFINISHED_STATUSES => i = Len(turns)

(* The turns a process is about to save.                                   *)
MaySave(turns) == turns # <<>> /\ OneOpen(turns) /\ Last(turns).status # "superseded" /\ Grows(state, turns)

Working == {"acquired", "saving", "indexing", "running", "leaving"}

(* The holder of the lease knows the saved state, or is about to save one  *)
(* that grows out of it; only the holder is at work.                       *)
Knows(p) ==
    /\ pc[p] \in Working => lease = p
    /\ pc[p] = "indexing" <=> storeLock = p
    /\ pc[p] \in Working \ {"saving"} => mem[p] = state
    /\ pc[p] = "saving" => MaySave(mem[p])
    /\ pc[p] = "indexing" => state # <<>> /\ Last(state).status # "superseded"
    /\ pc[p] = "running" => state # <<>> /\ Last(state).status = "running"

IInv == TypeOK /\ OnlyTheLastTurnIsOpen /\ IndexIsNeverAhead /\ \A p \in Processes : Knows(p)
-----------------------------------------------------------------------------
(* What becomes of the turns when the status of the last one is set.       *)
LEMMA WithLastFacts ==
  ASSUME NEW turns \in Seq(Turns), turns # <<>>, NEW status \in Statuses
  PROVE  LET new == WithLast(turns, status)
         IN  /\ new \in Seq(Turns) /\ Len(new) = Len(turns) /\ Len(turns) \in Nat \ {0}
             /\ DOMAIN turns = 1..Len(turns) /\ DOMAIN new = 1..Len(turns)
             /\ \A i \in 1..Len(turns) : i # Len(turns) => new[i] = turns[i]
             /\ Last(new).status = status /\ Last(new).done = Last(turns).done
  <1>1. Len(turns) \in Nat \ {0} /\ DOMAIN turns = 1..Len(turns)
    OBVIOUS
  <1>2. turns[Len(turns)] \in Turns
    BY <1>1
  <1>3. [turns[Len(turns)] EXCEPT !.status = status] \in Turns
    BY <1>2 DEF Turns, Statuses
  <1>4. WithLast(turns, status) \in Seq(Turns) /\ Len(WithLast(turns, status)) = Len(turns)
    BY <1>1, <1>3 DEF WithLast
  <1>5. /\ \A i \in 1..Len(turns) : i # Len(turns) => WithLast(turns, status)[i] = turns[i]
        /\ WithLast(turns, status)[Len(turns)] = [turns[Len(turns)] EXCEPT !.status = status]
    BY <1>1 DEF WithLast
  <1>6. [turns[Len(turns)] EXCEPT !.status = status].status = status
        /\ [turns[Len(turns)] EXCEPT !.status = status].done = turns[Len(turns)].done
    BY <1>2 DEF Turns
  <1> QED BY <1>1, <1>4, <1>5, <1>6 DEF Last

(* Ending, reopening or superseding an unfinished last turn only adds to   *)
(* the history.                                                            *)
LEMMA WithLastGrows ==
  ASSUME NEW turns \in Seq(Turns), Unfinished(turns), OneOpen(turns), NEW status \in Statuses
  PROVE  /\ Grows(turns, WithLast(turns, status)) /\ OneOpen(WithLast(turns, status))
         /\ WithLast(turns, status) # <<>>
  <1> DEFINE new == WithLast(turns, status)
  <1>1. turns # <<>> /\ Last(turns).status \in UNFINISHED_STATUSES
    BY DEF Unfinished
  <1>2. /\ new \in Seq(Turns) /\ Len(new) = Len(turns) /\ Len(turns) \in Nat \ {0}
        /\ DOMAIN turns = 1..Len(turns) /\ DOMAIN new = 1..Len(turns)
        /\ \A i \in 1..Len(turns) : i # Len(turns) => new[i] = turns[i]
        /\ Last(new).status = status /\ Last(new).done = Last(turns).done
    BY <1>1, WithLastFacts
  <1>3. \A i \in 1..Len(turns) : turns[i].done \in Nat
    <2>1. \A i \in 1..Len(turns) : turns[i] \in Turns
      OBVIOUS
    <2> QED BY <2>1 DEF Turns
  <1> HIDE DEF new
  <1>4. ASSUME NEW i \in 1..Len(turns)
        PROVE  /\ new[i].done >= turns[i].done
               /\ turns[i].status \in {"completed", "superseded"} => new[i] = turns[i]
               /\ new[i].status \in UNFINISHED_STATUSES => i = Len(turns)
    <2>1. CASE i = Len(turns)
      <3>1. new[i].done = turns[i].done /\ turns[i].status \in UNFINISHED_STATUSES
        BY <1>1, <1>2, <2>1 DEF Last
      <3> QED BY <1>3, <2>1, <3>1 DEF UNFINISHED_STATUSES
    <2>2. CASE i # Len(turns)
      <3>1. new[i] = turns[i] /\ turns[i].status \notin UNFINISHED_STATUSES
        BY <1>2, <2>2 DEF OneOpen
      <3>2. new[i].done >= turns[i].done
        BY <1>3, <3>1
      <3> QED BY <3>1, <3>2
    <2> QED BY <2>1, <2>2
  <1>5. Grows(turns, new)
    <2>1. Len(turns) <= Len(new)
      <3>1. Len(new) = Len(turns) /\ Len(turns) \in Nat
        BY <1>2
      <3> QED BY ONLY <3>1
    <2>2. \A i \in DOMAIN turns :
            /\ new[i].done >= turns[i].done
            /\ turns[i].status \in {"completed", "superseded"} => new[i] = turns[i]
      BY <1>2, <1>4
    <2> QED BY <2>1, <2>2 DEF Grows
  <1>7. OneOpen(new)
    BY <1>2, <1>4 DEF OneOpen
  <1>6. new # <<>>
    BY <1>2
  <1> QED BY <1>5, <1>6, <1>7 DEF new

LEMMA GrowsTransitive ==
  ASSUME NEW a \in Seq(Turns), NEW b \in Seq(Turns), NEW c \in Seq(Turns), Grows(a, b), Grows(b, c)
  PROVE  Grows(a, c)
  <1>1. Len(a) \in Nat /\ Len(b) \in Nat /\ Len(c) \in Nat /\ DOMAIN a = 1..Len(a) /\ DOMAIN b = 1..Len(b)
    OBVIOUS
  <1>2. Len(a) <= Len(b) /\ Len(b) <= Len(c)
    BY DEF Grows
  <1>3. ASSUME NEW i \in DOMAIN a
        PROVE  /\ c[i].done >= a[i].done
               /\ a[i].status \in {"completed", "superseded"} => c[i] = a[i]
    <2>1. i \in 1..Len(a) /\ i \in 1..Len(b) /\ i \in 1..Len(c)
      BY <1>1, <1>2
    <2>2. a[i] \in Turns /\ b[i] \in Turns /\ c[i] \in Turns
      BY <2>1
    <2>3. a[i].done \in Nat /\ b[i].done \in Nat /\ c[i].done \in Nat
      BY <2>2 DEF Turns
    <2>4. /\ b[i].done >= a[i].done
          /\ a[i].status \in {"completed", "superseded"} => b[i] = a[i]
      BY DEF Grows
    <2>5. /\ c[i].done >= b[i].done
          /\ b[i].status \in {"completed", "superseded"} => c[i] = b[i]
      BY <1>1, <2>1 DEF Grows
    <2>6. c[i].done >= a[i].done
      BY <2>3, <2>4, <2>5
    <2>7. ASSUME a[i].status \in {"completed", "superseded"} PROVE c[i] = a[i]
      BY <2>4, <2>5, <2>7
    <2> QED BY <2>6, <2>7
  <1> QED BY <1>1, <1>2, <1>3 DEF Grows

LEMMA GrowsReflexive ==
  ASSUME NEW a \in Seq(Turns)
  PROVE  Grows(a, a)
  <1>1. \A i \in DOMAIN a : a[i] \in Turns
    OBVIOUS
  <1>2. \A i \in DOMAIN a : a[i].done \in Nat
    BY <1>1 DEF Turns
  <1>3. \A i \in DOMAIN a : a[i].done >= a[i].done
    BY <1>2
  <1>4. Len(a) <= Len(a)
    OBVIOUS
  <1> QED BY <1>3, <1>4 DEF Grows

(* A new turn after turns that all ended.                                  *)
LEMMA AppendGrows ==
  ASSUME NEW turns \in Seq(Turns), NEW turn \in Turns,
         \A i \in DOMAIN turns : turns[i].status \notin UNFINISHED_STATUSES
  PROVE  LET longer == Append(turns, turn)
         IN  /\ longer \in Seq(Turns) /\ longer # <<>> /\ Last(longer) = turn
             /\ Grows(turns, longer) /\ OneOpen(longer)
  <1> DEFINE longer == Append(turns, turn)
  <1>1. /\ longer \in Seq(Turns) /\ Len(turns) \in Nat /\ Len(longer) = Len(turns) + 1
        /\ DOMAIN turns = 1..Len(turns) /\ DOMAIN longer = 1..(Len(turns) + 1)
    OBVIOUS
  <1>2. longer[Len(turns) + 1] = turn /\ \A i \in 1..Len(turns) : longer[i] = turns[i]
    OBVIOUS
  <1>3. \A i \in DOMAIN turns : turns[i].done >= turns[i].done
    BY GrowsReflexive DEF Grows
  <1> HIDE DEF longer
  <1>4. Grows(turns, longer)
    <2>1. Len(turns) <= Len(longer)
      BY <1>1
    <2>2. \A i \in DOMAIN turns : longer[i] = turns[i]
      BY <1>1, <1>2
    <2> QED BY <1>3, <2>1, <2>2 DEF Grows
  <1>5. OneOpen(longer)
    <2> SUFFICES ASSUME NEW i \in DOMAIN longer, longer[i].status \in UNFINISHED_STATUSES
                 PROVE  i = Len(longer)
      BY DEF OneOpen
    <2>1. i \notin 1..Len(turns)
      BY <1>1, <1>2
    <2> QED BY <1>1, <2>1
  <1>6. longer # <<>> /\ Last(longer) = turn
    BY <1>1, <1>2 DEF Last
  <1> QED BY <1>1, <1>4, <1>5, <1>6 DEF longer

(* start_turn: the unfinished turn is superseded before the new one.       *)
LEMMA StartGrows ==
  ASSUME NEW turns \in Seq(Turns), OneOpen(turns)
  PROVE  LET kept == IF Unfinished(turns) THEN WithLast(turns, "superseded") ELSE turns
             new  == Append(kept, [status |-> "running", done |-> 0])
         IN  new \in Seq(Turns) /\ new # <<>> /\ Last(new).status = "running" /\ Grows(turns, new) /\ OneOpen(new)
  <1> DEFINE kept == IF Unfinished(turns) THEN WithLast(turns, "superseded") ELSE turns
             turn == [status |-> "running", done |-> 0]
             new  == Append(kept, turn)
  <1>1. kept \in Seq(Turns) /\ Grows(turns, kept) /\ \A i \in DOMAIN kept : kept[i].status \notin UNFINISHED_STATUSES
    <2>1. CASE Unfinished(turns)
      <3>1. "superseded" \in Statuses /\ "superseded" \notin UNFINISHED_STATUSES
        BY DEF Statuses, UNFINISHED_STATUSES
      <3>2. kept = WithLast(turns, "superseded") /\ turns # <<>>
        BY <2>1 DEF Unfinished
      <3>3. /\ kept \in Seq(Turns) /\ Len(kept) = Len(turns)
            /\ DOMAIN kept = 1..Len(turns) /\ Last(kept).status = "superseded"
        BY <3>1, <3>2, WithLastFacts
      <3>4. Grows(turns, kept) /\ OneOpen(kept)
        BY <2>1, <3>1, <3>2, WithLastGrows
      <3>5. ASSUME NEW i \in DOMAIN kept PROVE kept[i].status \notin UNFINISHED_STATUSES
        BY <3>1, <3>3, <3>4 DEF OneOpen, Last
      <3> QED BY <3>3, <3>4, <3>5
    <2>2. CASE ~Unfinished(turns)
      <3>1. ASSUME NEW i \in DOMAIN turns, turns[i].status \in UNFINISHED_STATUSES PROVE FALSE
        <4>1. i = Len(turns)
          BY <3>1 DEF OneOpen
        <4>2. turns # <<>>
          BY <3>1
        <4> QED BY <2>2, <3>1, <4>1, <4>2 DEF Unfinished, Last
      <3> QED BY <2>2, <3>1, GrowsReflexive
    <2> QED BY <2>1, <2>2
  <1>2. turn \in Turns
    BY DEF Turns, UNFINISHED_STATUSES
  <1> HIDE DEF kept
  <1>3. new \in Seq(Turns) /\ new # <<>> /\ Last(new) = turn /\ Grows(kept, new) /\ OneOpen(new)
    BY <1>1, <1>2, AppendGrows
  <1>4. Grows(turns, new)
    BY <1>1, <1>3, GrowsTransitive
  <1> QED BY <1>3, <1>4 DEF kept

(* TurnCheckpoint.put, while the last turn runs.                           *)
LEMMA PutGrows ==
  ASSUME NEW turns \in Seq(Turns), OneOpen(turns), turns # <<>>, Last(turns).status = "running"
  PROVE  LET new == [turns EXCEPT ![Len(turns)].done = @ + 1]
         IN  new \in Seq(Turns) /\ new # <<>> /\ Last(new).status = "running" /\ Grows(turns, new) /\ OneOpen(new)
  <1> DEFINE n == Len(turns)
             last == [turns[n] EXCEPT !.done = @ + 1]
             new == [turns EXCEPT ![Len(turns)].done = @ + 1]
  <1>1. n \in Nat \ {0} /\ DOMAIN turns = 1..n
    OBVIOUS
  <1>2. turns[n] \in Turns
    BY <1>1
  <1>3. /\ last \in Turns /\ last.status = turns[n].status /\ last.done = turns[n].done + 1
        /\ turns[n].done \in Nat /\ turns[n].status = "running"
    BY <1>2 DEF Turns, Last
  <1>4. new = [turns EXCEPT ![n] = last]
    BY <1>1
  <1> HIDE DEF last
  <1>5. new \in Seq(Turns) /\ Len(new) = n /\ DOMAIN new = 1..n
    BY <1>1, <1>3, <1>4
  <1>6. new[n] = last /\ \A i \in 1..n : i # n => new[i] = turns[i]
    BY <1>1, <1>4
  <1>7. \A i \in DOMAIN turns : turns[i].done >= turns[i].done
    BY GrowsReflexive DEF Grows
  <1> HIDE DEF new, n
  <1>8. ASSUME NEW i \in 1..n
        PROVE  /\ new[i].done >= turns[i].done
               /\ turns[i].status \in {"completed", "superseded"} => new[i] = turns[i]
               /\ new[i].status \in UNFINISHED_STATUSES => i = n
    <2>1. CASE i = n
      BY <1>3, <1>6, <2>1
    <2>2. CASE i # n
      <3>1. new[i] = turns[i] /\ turns[i].status \notin UNFINISHED_STATUSES
        BY <1>1, <1>6, <2>2 DEF OneOpen, n
      <3> QED BY <1>1, <1>7, <3>1
    <2> QED BY <2>1, <2>2
  <1>9. Grows(turns, new) /\ OneOpen(new)
    <2>1. Len(turns) <= Len(new)
      <3>1. Len(turns) = n /\ Len(new) = n /\ n \in Nat
        BY <1>1, <1>5 DEF n
      <3> QED BY ONLY <3>1
    <2>2. Grows(turns, new)
      BY <1>1, <1>8, <2>1 DEF Grows
    <2> QED BY <1>5, <1>8, <2>2 DEF OneOpen
  <1>10. new # <<>> /\ Last(new).status = "running"
    BY <1>1, <1>3, <1>5, <1>6 DEF Last
  <1> QED BY <1>5, <1>9, <1>10 DEF new
-----------------------------------------------------------------------------
LEMMA InitHolds == Init => IInv
  <1> SUFFICES ASSUME Init PROVE IInv
    OBVIOUS
  <1>1. <<>> \in Seq(Turns)
    OBVIOUS
  <1>2. TypeOK
    BY <1>1, SessionAssumption DEF Init, TypeOK, UNFINISHED_STATUSES
  <1>3. OnlyTheLastTurnIsOpen /\ IndexIsNeverAhead
    BY DEF Init, OnlyTheLastTurnIsOpen, IndexIsNeverAhead
  <1>4. \A p \in Processes : Knows(p)
    BY SessionAssumption DEF Init, Knows, Working
  <1> QED BY <1>2, <1>3, <1>4 DEF IInv

(* A step of one process leaves what the others know alone, because it     *)
(* writes the state only while it holds the lease.                         *)
LEMMA OthersKnow ==
  ASSUME IInv, NEW p \in Processes, NEW q \in Processes, q # p,
         pc'[q] = pc[q], mem'[q] = mem[q], storeLock' = q <=> storeLock = q,
         lease = p \/ (state' = state /\ (lease = q => lease' = q))
  PROVE  Knows(q)'
  <1>1. Knows(q)
    BY DEF IInv
  <1>2. CASE lease = p
    <2>1. pc[q] \notin Working
      BY <1>1, <1>2 DEF Knows
    <2> QED BY <1>1, <2>1 DEF Knows, Working
  <1>3. CASE state' = state /\ (lease = q => lease' = q)
    BY <1>1, <1>3 DEF Knows, MaySave, Grows, OneOpen, Last
  <1> QED BY <1>2, <1>3

(* The steps that only read files and take locks.                          *)
LEMMA QuietKeeps ==
  ASSUME IInv, NEW p \in Processes,
         (\E want \in {"request", "resume"} : Open(p, want)) \/ Acquire(p) \/ Release(p) \/ Crash(p)
  PROVE  IInv' /\ state' = state
  <1> USE SessionAssumption
  <1>1. state' = state /\ index' = index
    BY DEF Open, Acquire, Release, Crash, session
  <1>2. TypeOK /\ Knows(p) /\ <<>> \in Seq(Turns)
    BY DEF IInv
  <1>3. TypeOK'
    <2>1. CASE \E want \in {"request", "resume"} : Open(p, want)
      BY <1>2, <2>1 DEF TypeOK, Open, Step, session
    <2>2. CASE Acquire(p)
      <3>1. mem' \in [Processes -> Seq(Turns)]
        BY <1>2, <2>2 DEF TypeOK, Acquire
      <3>2. pc' \in [Processes -> {"idle", "opened", "acquired", "saving", "indexing", "running", "leaving"}]
        BY <1>2, <2>2 DEF TypeOK, Acquire, Step
      <3>3. lease' \in Processes \cup {NONE} /\ UNCHANGED <<state, index, storeLock, wants, stale, requests, crashes>>
        BY <1>2, <2>2 DEF TypeOK, Acquire
      <3> QED BY <1>2, <3>1, <3>2, <3>3 DEF TypeOK
    <2>3. CASE Release(p)
      BY <1>2, <2>3 DEF TypeOK, Release, Step
    <2>4. CASE Crash(p)
      BY <1>2, <2>4 DEF TypeOK, Crash
    <2> QED BY <2>1, <2>2, <2>3, <2>4
  <1>4. (OnlyTheLastTurnIsOpen /\ IndexIsNeverAhead)'
    BY <1>1 DEF IInv, OnlyTheLastTurnIsOpen, IndexIsNeverAhead
  <1>5. Knows(p)'
    <2>1. CASE \E want \in {"request", "resume"} : Open(p, want)
      BY <1>2, <2>1 DEF TypeOK, Open, Step, session, Knows, Working
    <2>2. CASE Acquire(p)
      BY <1>2, <2>2 DEF TypeOK, Acquire, Step, Knows, Working
    <2>3. CASE Release(p)
      BY <1>2, <2>3 DEF TypeOK, Release, Step, Knows, Working
    <2>4. CASE Crash(p)
      BY <1>2, <2>4 DEF TypeOK, Crash, Knows, Working
    <2> QED BY <2>1, <2>2, <2>3, <2>4
  <1>6. ASSUME NEW q \in Processes, q # p PROVE Knows(q)'
    <2>1. pc'[q] = pc[q] /\ mem'[q] = mem[q]
      BY <1>2, <1>6 DEF TypeOK, Open, Acquire, Release, Crash, Step
    <2>2. storeLock' = q <=> storeLock = q
      BY <1>6 DEF Open, Acquire, Release, Crash, session
    <2>3. lease = q => lease' = q
      <3>1. CASE \E want \in {"request", "resume"} : Open(p, want)
        BY <3>1 DEF Open, session
      <3>2. CASE Acquire(p)
        BY <3>2 DEF Acquire
      <3>3. CASE Release(p)
        BY <1>2, <1>6, <3>3 DEF Release, Step, Knows, Working
      <3>4. CASE Crash(p)
        BY <1>6, <3>4 DEF Crash
      <3> QED BY <3>1, <3>2, <3>3, <3>4
    <2> QED BY <1>1, <1>6, <2>1, <2>2, <2>3, OthersKnow
  <1> QED BY <1>1, <1>3, <1>4, <1>5, <1>6 DEF IInv

(* A save begins with turns that grow out of the saved ones.               *)
LEMMA SaveBegins ==
  ASSUME IInv, NEW p \in Processes, NEW turns \in Seq(Turns), pc[p] \in Working, MaySave(turns),
         mem' = [mem EXCEPT ![p] = turns], pc' = [pc EXCEPT ![p] = "saving"], pc[p] # "indexing",
         UNCHANGED <<session, wants, stale, requests, crashes>>
  PROVE  IInv' /\ state' = state
  <1>1. state' = state /\ index' = index /\ lease' = lease /\ storeLock' = storeLock
    BY DEF session
  <1>2. TypeOK /\ Knows(p)
    BY DEF IInv
  <1>3. TypeOK'
    BY <1>1, <1>2 DEF TypeOK
  <1>4. (OnlyTheLastTurnIsOpen /\ IndexIsNeverAhead)'
    BY <1>1 DEF IInv, OnlyTheLastTurnIsOpen, IndexIsNeverAhead
  <1>5. pc'[p] = "saving" /\ mem'[p] = turns
    BY <1>2 DEF TypeOK
  <1>6. MaySave(mem[p])'
    BY <1>1, <1>5 DEF MaySave, Grows, OneOpen, Last
  <1>7. Knows(p)'
    BY <1>1, <1>2, <1>5, <1>6 DEF Knows, Working
  <1>8. ASSUME NEW q \in Processes, q # p PROVE Knows(q)'
    <2>1. pc'[q] = pc[q] /\ mem'[q] = mem[q]
      BY <1>2, <1>8 DEF TypeOK
    <2> QED BY <1>1, <1>8, <2>1, OthersKnow
  <1> QED BY <1>1, <1>3, <1>4, <1>7, <1>8 DEF IInv

(* start_turn, reopen_turn, put and finish_turn.                           *)
LEMMA WritersKeep ==
  ASSUME IInv, NEW p \in Processes,
         \/ StartTurn(p) \/ ReopenTurn(p) \/ Put(p)
         \/ \E status \in {"completed", "interrupted", "failed"} : FinishTurn(p, status)
  PROVE  IInv' /\ state' = state
  <1>1. TypeOK /\ Knows(p) /\ state \in Seq(Turns) /\ mem[p] \in Seq(Turns) /\ OneOpen(state)
    BY DEF IInv, TypeOK, OnlyTheLastTurnIsOpen, OneOpen
  <1>2. CASE StartTurn(p)
    <2>1. pc[p] = "acquired" /\ mem[p] = state
      BY <1>1, <1>2 DEF StartTurn, Step, Knows, Working
    <2> DEFINE new == Append(IF Unfinished(mem[p]) THEN WithLast(mem[p], "superseded") ELSE mem[p],
                             [status |-> "running", done |-> 0])
    <2>2. new \in Seq(Turns) /\ new # <<>> /\ Last(new).status = "running" /\ Grows(state, new) /\ OneOpen(new)
      BY <1>1, <2>1, StartGrows
    <2>3. /\ mem' = [mem EXCEPT ![p] = new] /\ pc' = [pc EXCEPT ![p] = "saving"]
          /\ UNCHANGED <<session, wants, stale, requests, crashes>>
      BY <1>2 DEF StartTurn, Step, BeginSave
    <2> HIDE DEF new
    <2>4. MaySave(new)
      BY <2>2 DEF MaySave
    <2> QED BY <2>1, <2>2, <2>3, <2>4, SaveBegins DEF Working
  <1>3. CASE ReopenTurn(p) /\ Unfinished(mem[p])
    <2>1. pc[p] = "acquired" /\ mem[p] = state /\ mem[p] # <<>>
      BY <1>1, <1>3 DEF ReopenTurn, Step, Knows, Working, Unfinished
    <2> DEFINE new == WithLast(mem[p], "running")
    <2>2. "running" \in Statuses
      BY DEF Statuses, UNFINISHED_STATUSES
    <2>3. new \in Seq(Turns) /\ Last(new).status = "running"
      BY <1>1, <2>1, <2>2, WithLastFacts
    <2>4. new # <<>> /\ Grows(state, new) /\ OneOpen(new)
      BY <1>1, <1>3, <2>1, <2>2, WithLastGrows
    <2>5. /\ mem' = [mem EXCEPT ![p] = new] /\ pc' = [pc EXCEPT ![p] = "saving"]
          /\ UNCHANGED <<session, wants, stale, requests, crashes>>
      BY <1>3 DEF ReopenTurn, Step, BeginSave
    <2> HIDE DEF new
    <2>6. MaySave(new)
      BY <2>3, <2>4 DEF MaySave
    <2> QED BY <2>1, <2>3, <2>5, <2>6, SaveBegins DEF Working
  <1>4. CASE ReopenTurn(p) /\ ~Unfinished(mem[p])
    <2>1. /\ pc[p] = "acquired" /\ pc' = [pc EXCEPT ![p] = "leaving"] /\ mem' = mem
          /\ UNCHANGED <<state, index, lease, storeLock, wants, stale, requests, crashes>>
      BY <1>4 DEF ReopenTurn, Step, session
    <2>2. TypeOK'
      BY <1>1, <2>1 DEF TypeOK
    <2>3. (OnlyTheLastTurnIsOpen /\ IndexIsNeverAhead)'
      BY <2>1 DEF IInv, OnlyTheLastTurnIsOpen, IndexIsNeverAhead
    <2>4. pc'[p] = "leaving"
      BY <1>1, <2>1 DEF TypeOK
    <2>5. Knows(p)'
      BY <1>1, <2>1, <2>4 DEF Knows, Working
    <2>6. ASSUME NEW q \in Processes, q # p PROVE Knows(q)'
      <3>1. pc'[q] = pc[q] /\ mem'[q] = mem[q]
        BY <1>1, <2>1, <2>6 DEF TypeOK
      <3> QED BY <2>1, <2>6, <3>1, OthersKnow
    <2> QED BY <2>1, <2>2, <2>3, <2>5, <2>6 DEF IInv
  <1>5. CASE Put(p)
    <2>1. pc[p] = "running" /\ mem[p] = state /\ state # <<>> /\ Last(state).status = "running"
      BY <1>1, <1>5 DEF Put, Step, Knows, Working
    <2> DEFINE new == [mem[p] EXCEPT ![Len(mem[p])].done = @ + 1]
    <2>2. new \in Seq(Turns) /\ new # <<>> /\ Last(new).status = "running" /\ Grows(state, new) /\ OneOpen(new)
      BY <1>1, <2>1, PutGrows
    <2>3. /\ mem' = [mem EXCEPT ![p] = new] /\ pc' = [pc EXCEPT ![p] = "saving"]
          /\ UNCHANGED <<session, wants, stale, requests, crashes>>
      BY <1>5 DEF Put, Step, BeginSave
    <2> HIDE DEF new
    <2>4. MaySave(new)
      BY <2>2 DEF MaySave
    <2> QED BY <2>1, <2>2, <2>3, <2>4, SaveBegins DEF Working
  <1>6. ASSUME NEW status \in {"completed", "interrupted", "failed"}, FinishTurn(p, status)
        PROVE  IInv' /\ state' = state
    <2>1. pc[p] = "running" /\ mem[p] = state /\ state # <<>> /\ Last(state).status = "running"
      BY <1>1, <1>6 DEF FinishTurn, Step, Knows, Working
    <2> DEFINE new == WithLast(mem[p], status)
    <2>2. status \in Statuses /\ status # "superseded" /\ Unfinished(mem[p])
      BY <2>1 DEF Statuses, UNFINISHED_STATUSES, Unfinished
    <2>3. new \in Seq(Turns) /\ Last(new).status = status
      BY <1>1, <2>1, <2>2, WithLastFacts
    <2>4. new # <<>> /\ Grows(state, new) /\ OneOpen(new)
      BY <1>1, <2>1, <2>2, WithLastGrows
    <2>5. /\ mem' = [mem EXCEPT ![p] = new] /\ pc' = [pc EXCEPT ![p] = "saving"]
          /\ UNCHANGED <<session, wants, stale, requests, crashes>>
      BY <1>6 DEF FinishTurn, Step, BeginSave
    <2> HIDE DEF new
    <2>6. MaySave(new)
      BY <2>2, <2>3, <2>4 DEF MaySave
    <2> QED BY <2>1, <2>3, <2>5, <2>6, SaveBegins DEF Working
  <1> QED BY <1>2, <1>3, <1>4, <1>5, <1>6

(* A completed turn that was in the index is still among the turns.        *)
LEMMA IndexStaysBehind ==
  ASSUME NEW old \in Seq(Turns), NEW new \in Seq(Turns), Grows(old, new)
  PROVE  /\ Len(old) \in Nat /\ Len(new) \in Nat /\ Len(old) <= Len(new)
         /\ (\E i \in DOMAIN old : old[i].status = "completed")
              => (\E i \in DOMAIN new : new[i].status = "completed")
  <1>1. /\ Len(old) \in Nat /\ Len(new) \in Nat /\ Len(old) <= Len(new)
        /\ DOMAIN old = 1..Len(old) /\ DOMAIN new = 1..Len(new)
    BY DEF Grows
  <1>2. ASSUME NEW i \in DOMAIN old, old[i].status = "completed"
        PROVE  i \in DOMAIN new /\ new[i].status = "completed"
    <2>1. i \in DOMAIN new
      BY <1>1
    <2>2. new[i] = old[i]
      BY <1>2 DEF Grows
    <2> QED BY <1>2, <2>1, <2>2
  <1> QED BY <1>1, <1>2

(* The two halves of save under the store's lock.                          *)
LEMMA WriteStateKeeps ==
  ASSUME IInv, NEW p \in Processes, WriteState(p)
  PROVE  IInv' /\ Grows(state, state')
  <1>1. TypeOK /\ Knows(p) /\ mem[p] \in Seq(Turns) /\ state \in Seq(Turns)
    BY DEF IInv, TypeOK
  <1>2. /\ pc[p] = "saving" /\ pc' = [pc EXCEPT ![p] = "indexing"] /\ storeLock = NONE
        /\ storeLock' = p /\ state' = mem[p]
        /\ UNCHANGED <<index, lease, mem, wants, stale, requests, crashes>>
    BY DEF WriteState, Step
  <1>3. MaySave(mem[p]) /\ lease = p
    BY <1>1, <1>2 DEF Knows, Working
  <1>4. Grows(state, state') /\ OneOpen(state') /\ state' # <<>> /\ Last(state').status # "superseded"
    BY <1>2, <1>3 DEF MaySave
  <1>5. TypeOK'
    BY <1>1, <1>2 DEF TypeOK
  <1>6. OnlyTheLastTurnIsOpen'
    BY <1>4 DEF OnlyTheLastTurnIsOpen, OneOpen
  <1>7. IndexIsNeverAhead'
    <2>1. /\ Len(state) \in Nat /\ Len(state') \in Nat /\ Len(state) <= Len(state')
          /\ (\E i \in DOMAIN state : state[i].status = "completed")
               => (\E i \in DOMAIN state' : state'[i].status = "completed")
      BY <1>1, <1>2, <1>4, IndexStaysBehind
    <2>2. index.turns \in Nat /\ index' = index
      BY <1>1, <1>2 DEF TypeOK
    <2> QED BY <2>1, <2>2 DEF IInv, IndexIsNeverAhead
  <1>8. pc'[p] = "indexing"
    BY <1>1, <1>2 DEF TypeOK
  <1>9. Knows(p)'
    BY <1>2, <1>3, <1>4, <1>8 DEF Knows, Working, Last
  <1>10. ASSUME NEW q \in Processes, q # p PROVE Knows(q)'
    <2>1. pc'[q] = pc[q] /\ mem'[q] = mem[q]
      BY <1>1, <1>2, <1>10 DEF TypeOK
    <2>2. storeLock' = q <=> storeLock = q
      BY <1>2, <1>10, SessionAssumption
    <2> QED BY <1>3, <1>10, <2>1, <2>2, OthersKnow
  <1> QED BY <1>4, <1>5, <1>6, <1>7, <1>9, <1>10 DEF IInv

LEMMA WriteIndexKeeps ==
  ASSUME IInv, NEW p \in Processes, WriteIndex(p)
  PROVE  IInv' /\ state' = state
  <1>1. TypeOK /\ Knows(p) /\ state \in Seq(Turns)
    BY DEF IInv, TypeOK
  <1>2. /\ pc[p] = "indexing" /\ storeLock = p /\ lease = p /\ mem[p] = state
        /\ state # <<>> /\ Last(state).status # "superseded"
    BY <1>1 DEF WriteIndex, Step, Knows, Working
  <1>3. /\ index' = [index EXCEPT !.turns = Len(state), !.status = Last(state).status]
        /\ storeLock' = NONE
        /\ UNCHANGED <<state, lease, mem, wants, stale, requests, crashes>>
    BY <1>2 DEF WriteIndex
  <1> DEFINE to == IF Last(state).status = "running" THEN "running" ELSE "leaving"
  <1>4. pc' = [pc EXCEPT ![p] = to]
    BY <1>2 DEF WriteIndex, Step
  <1>5. Len(state) \in Nat \ {0} /\ DOMAIN state = 1..Len(state)
    BY <1>1, <1>2
  <1>6. state[Len(state)] \in Turns
    BY <1>1, <1>5
  <1>7. Last(state).status \in UNFINISHED_STATUSES \cup {"completed", "none"}
    BY <1>2, <1>6 DEF Turns, Last
  <1>8. /\ index' \in [turns : Nat, status : UNFINISHED_STATUSES \cup {"completed", "none"}, restarted : BOOLEAN]
        /\ index'.turns = Len(state) /\ index'.status = Last(state).status
    BY <1>1, <1>3, <1>5, <1>7 DEF TypeOK
  <1>9. pc' \in [Processes -> {"idle", "opened", "acquired", "saving", "indexing", "running", "leaving"}] /\ pc'[p] = to
    BY <1>1, <1>4 DEF TypeOK
  <1>10. TypeOK'
    BY <1>1, <1>3, <1>8, <1>9 DEF TypeOK
  <1>11. OnlyTheLastTurnIsOpen'
    BY <1>3 DEF IInv, OnlyTheLastTurnIsOpen
  <1>12. IndexIsNeverAhead'
    BY <1>3, <1>5, <1>8 DEF IndexIsNeverAhead, Last
  <1>13. Knows(p)'
    BY <1>2, <1>3, <1>9, SessionAssumption DEF Knows, Working, Last
  <1>14. ASSUME NEW q \in Processes, q # p PROVE Knows(q)'
    <2>1. pc'[q] = pc[q] /\ mem'[q] = mem[q]
      BY <1>1, <1>3, <1>4, <1>14 DEF TypeOK
    <2>2. storeLock' = q <=> storeLock = q
      BY <1>2, <1>3, <1>14, SessionAssumption
    <2> QED BY <1>2, <1>14, <2>1, <2>2, OthersKnow
  <1> QED BY <1>3, <1>10, <1>11, <1>12, <1>13, <1>14 DEF IInv

(* The starting engine, which takes no session lease.                      *)
LEMMA EngineKeeps ==
  ASSUME IInv, ListSessions \/ ReconcileSession
  PROVE  IInv' /\ state' = state
  <1>1. TypeOK
    BY DEF IInv
  <1>2. UNCHANGED <<state, lease, storeLock, mem, pc, wants, requests, crashes>>
    BY DEF ListSessions, ReconcileSession, session, process
  <1>3. /\ index' \in [turns : Nat, status : UNFINISHED_STATUSES \cup {"completed", "none"}, restarted : BOOLEAN]
        /\ stale' \in UNFINISHED_STATUSES \cup {"completed", "none"}
        /\ index'.turns = index.turns /\ (index'.status = "completed" => index.status = "completed")
    <2>1. CASE ListSessions
      BY <1>1, <2>1 DEF TypeOK, ListSessions, session
    <2>2. CASE ReconcileSession
      BY <1>1, <2>2 DEF TypeOK, ReconcileSession, UNFINISHED_STATUSES
    <2> QED BY <2>1, <2>2
  <1>4. TypeOK'
    BY <1>1, <1>2, <1>3 DEF TypeOK
  <1>5. (OnlyTheLastTurnIsOpen /\ IndexIsNeverAhead)'
    BY <1>2, <1>3 DEF IInv, OnlyTheLastTurnIsOpen, IndexIsNeverAhead
  <1>6. \A p \in Processes : Knows(p)'
    BY <1>2 DEF IInv, Knows, MaySave, Grows, OneOpen, Last
  <1> QED BY <1>2, <1>4, <1>5, <1>6 DEF IInv
-----------------------------------------------------------------------------
LEMMA Inductive == IInv /\ [Next]_vars => IInv' /\ Grows(state, state')
  <1> SUFFICES ASSUME IInv, [Next]_vars PROVE IInv' /\ Grows(state, state')
    OBVIOUS
  <1>1. Grows(state, state)
    BY GrowsReflexive DEF IInv, TypeOK
  <1>2. CASE Next
    <2>1. ASSUME NEW p \in Processes, WriteState(p) PROVE IInv' /\ Grows(state, state')
      BY <2>1, WriteStateKeeps
    <2>2. ASSUME NEW p \in Processes,
                 (\E want \in {"request", "resume"} : Open(p, want)) \/ Acquire(p) \/ Release(p) \/ Crash(p)
          PROVE  IInv' /\ state' = state
      BY <2>2, QuietKeeps
    <2>3. ASSUME NEW p \in Processes,
                 \/ StartTurn(p) \/ ReopenTurn(p) \/ Put(p)
                 \/ \E status \in {"completed", "interrupted", "failed"} : FinishTurn(p, status)
          PROVE  IInv' /\ state' = state
      BY <2>3, WritersKeep
    <2>4. ASSUME NEW p \in Processes, WriteIndex(p) PROVE IInv' /\ state' = state
      BY <2>4, WriteIndexKeeps
    <2>5. CASE ListSessions \/ ReconcileSession
      BY <1>1, <2>5, EngineKeeps
    <2> QED BY <1>1, <1>2, <2>1, <2>2, <2>3, <2>4, <2>5 DEF Next
  <1>3. CASE UNCHANGED vars
    <2>1. UNCHANGED <<state, index, lease, storeLock, mem, pc, wants, stale, requests, crashes>>
      BY <1>3 DEF vars, session, process
    <2>2. (TypeOK /\ OnlyTheLastTurnIsOpen /\ IndexIsNeverAhead)'
      BY <2>1 DEF IInv, TypeOK, OnlyTheLastTurnIsOpen, IndexIsNeverAhead
    <2>3. \A p \in Processes : Knows(p)'
      BY <2>1 DEF IInv, Knows, MaySave, Grows, OneOpen, Last
    <2> QED BY <1>1, <2>1, <2>2, <2>3 DEF IInv
  <1> QED BY <1>2, <1>3

(* The invariant of every reachable state.                                 *)
THEOREM Invariant == Spec => []IInv
  <1>1. IInv /\ [Next]_vars => IInv'
    BY Inductive
  <1> QED BY InitHolds, <1>1, PTL DEF Spec

(* Type correctness, for every number of processes and requests.           *)
THEOREM TypeCorrect == Spec => []TypeOK
  <1>1. IInv => TypeOK
    BY DEF IInv
  <1> QED BY <1>1, Invariant, PTL

(* The saved history never has an open turn but its last one, whichever    *)
(* processes crashed or gave up (start_turn supersedes what is left open). *)
THEOREM OneOpenTurn == Spec => []OnlyTheLastTurnIsOpen
  <1>1. IInv => OnlyTheLastTurnIsOpen
    BY DEF IInv
  <1> QED BY <1>1, Invariant, PTL

(* The index is written after the state, so that a crash between the two   *)
(* leaves it behind and never ahead.                                       *)
THEOREM IndexLagsBehind == Spec => []IndexIsNeverAhead
  <1>1. IInv => IndexIsNeverAhead
    BY DEF IInv
  <1> QED BY <1>1, Invariant, PTL

(* Because the state is read again under the lease, no step of any process *)
(* changes a turn that ended.                                              *)
THEOREM FinishedTurnsStay == Spec => FinishedTurnsAreFinal
  <1>1. ASSUME IInv, IInv', Grows(state, state')
        PROVE  \A i \in DOMAIN state :
                  state[i].status \in {"completed", "superseded"} => i \in DOMAIN state' /\ state'[i] = state[i]
    <2>1. state \in Seq(Turns) /\ state' \in Seq(Turns)
      BY <1>1 DEF IInv, TypeOK
    <2>2. Len(state) \in Nat /\ Len(state') \in Nat /\ Len(state) <= Len(state')
      BY <1>1, <2>1 DEF Grows
    <2>3. DOMAIN state = 1..Len(state) /\ DOMAIN state' = 1..Len(state')
      BY <2>1
    <2> QED BY <1>1, <2>2, <2>3 DEF Grows
  <1>2. IInv /\ [Next]_vars =>
          [\A i \in DOMAIN state :
             state[i].status \in {"completed", "superseded"} => i \in DOMAIN state' /\ state'[i] = state[i]]_vars
    BY <1>1, Inductive
  <1> QED BY <1>2, Invariant, PTL DEF Spec, FinishedTurnsAreFinal

(* No process that writes the session takes a turn or a checkpointed phase *)
(* of another one away.                                                    *)
THEOREM CheckpointsStay == Spec => NoCheckpointIsLost
  <1>1. ASSUME IInv, Grows(state, state')
        PROVE  Len(state') >= Len(state) /\ \A i \in DOMAIN state : state'[i].done >= state[i].done
    BY <1>1 DEF Grows
  <1>2. IInv /\ [Next]_vars =>
          [/\ Len(state') >= Len(state)
           /\ \A i \in DOMAIN state : state'[i].done >= state[i].done]_vars
    BY <1>1, Inductive
  <1> QED BY <1>2, Invariant, PTL DEF Spec, NoCheckpointIsLost
=============================================================================
