--------------------------- MODULE AgentRunProofs ---------------------------
(***************************************************************************)
(* Type correctness of AgentRun, its inductive invariant, and what follows *)
(* from it for every number of rounds, calls, tools and interruptions; on  *)
(* top of it the counters of the boundaries (Tallied), the verdict of the  *)
(* tests (Verdict), what is saved again (Resaved), and the refinement of   *)
(* atomic rounds.                                                          *)
(***************************************************************************)
EXTENDS AgentRun, FiniteSetTheorems, TLAPS

Covered(i) == \E c \in checkpoints : i <= c.iteration

(* The state is at a boundary, or past it in the round that follows it.    *)
Based ==
    /\ \A c \in checkpoints : c.iteration <= state.iteration /\ c.known \subseteq state.known
    /\ pc # "save" => checkpoints # {}

(* The saved boundaries form a chain with a last element.                  *)
Chain ==
    /\ checkpoints # {} =>
         \E c \in checkpoints : \A d \in checkpoints : d.iteration <= c.iteration
    /\ \A c, d \in checkpoints : c.iteration <= d.iteration => c.known \subseteq d.known
    /\ \A c \in checkpoints : c.known \subseteq effects

(* An effect is in a saved conversation, or in the journal of a round that *)
(* no saved boundary covers.                                               *)
Accounted ==
    \A s \in effects :
        \/ \E c \in checkpoints : s \in c.known
        \/ /\ pending.iteration = s[1]
           /\ s[2] \in DOMAIN pending.calls
           /\ pending.calls[s[2]] # "pending"
           /\ ~Covered(pending.iteration)

(* A call slot was invoked only in a round that is covered or journaled.   *)
Invoked ==
    /\ \A s \in Slots : runs[s] <= 1
    /\ \A s \in Slots : runs[s] > 0 => s[1] <= pending.iteration \/ Covered(s[1])

(* What the conversation in memory contains, place by place.               *)
Remembers ==
    /\ pc \in {"model", "journal", "save", "clear", "checked"} => state.known = effects
    /\ pc = "batch" =>
         /\ state.known \subseteq effects
         /\ \A s \in effects :
              \/ s \in state.known
              \/ s[1] = state.iteration /\ s[2] \in DOMAIN batch /\ s[2] >= next
    /\ pc = "recovered" =>
         /\ state \in checkpoints
         /\ \A c \in checkpoints : c.iteration <= state.iteration

(* The round in memory against the journal on disk.                        *)
Journaled ==
    /\ pc \in {"new", "model", "journal", "checked"} => pending.iteration = 0
    /\ pc \in {"save", "clear"} => pending.iteration <= state.iteration
    /\ pc = "clear" => Covered(state.iteration)
    /\ pc = "model" => \A s \in Slots : runs[s] > 0 => s[1] <= state.iteration
    /\ pc \in {"model", "checked"} => Covered(state.iteration)
    /\ pc \in {"journal", "batch"} => ~Covered(state.iteration) /\ DOMAIN batch # {} /\ next \in DOMAIN batch
    /\ pc = "journal" =>
         /\ \A s \in Slots : runs[s] > 0 => s[1] < state.iteration
         /\ \A k \in DOMAIN batch : batch[k].status = "pending"
    /\ pc \notin {"batch", "finish"} => next = 1 /\ first = 1
    /\ pc = "batch" =>
         /\ pending.iteration = state.iteration
         /\ DOMAIN pending.calls = DOMAIN batch
         /\ \A k \in DOMAIN batch :
              batch[k].status = "pending" <=> pending.calls[k] = "pending"
         /\ \A s \in Slots : runs[s] > 0 =>
              \/ s[1] < state.iteration
              \/ /\ s[1] = state.iteration
                 /\ s[2] \in DOMAIN batch /\ batch[s[2]].status # "pending"

(* How a run begins and how it ends.                                       *)
Lifetime ==
    /\ pc = "new" => checkpoints = {} /\ effects = {} /\ \A s \in Slots : runs[s] = 0
    /\ pc = "finish" => response \in {"completed", "failed", "blocked"}
    /\ final # "none" => pc \in {"off", "done", "recovered"}

IInv ==
    /\ TypeOK
    /\ pc \in {"model", "journal", "batch", "save", "clear", "checked"} => Based
    /\ Chain
    /\ Accounted
    /\ Invoked
    /\ Remembers
    /\ Journaled
    /\ Lifetime

(* A write that goes on after a cancellation, at most one, belongs to the  *)
(* round that the journal names, and no process is past the boundaries.    *)
Loose ==
    \A s \in threads :
        /\ \A r \in threads : r = s
        /\ pc \in {"off", "recovered"} /\ final = "none"
        /\ pending.iteration = s[1]
        /\ s[2] \in DOMAIN pending.calls
        /\ pending.calls[s[2]] # "pending"
        /\ ~Covered(pending.iteration)
-----------------------------------------------------------------------------
(* The types of the pieces that actions put together.                      *)
LEMMA InitialTypes == InitialState \in States
  BY ConstantsAssumption DEF InitialState, States, Phases

LEMMA RespondedTypes ==
  ASSUME state \in States, AtModel
  PROVE  /\ Responded \in States
         /\ Responded.iteration = state.iteration + 1
         /\ Responded.known = state.known
  <1> DEFINE s == [state EXCEPT !.iteration = state.iteration + 1]
  <1>1. state.iteration + 1 \in 0..MaxIterations
    BY ConstantsAssumption DEF States, AtModel
  <1>2. s \in States /\ s.iteration = state.iteration + 1 /\ s.known = state.known
        /\ s.model_calls = state.model_calls
    BY <1>1 DEF States
  <1>3. Responded = [s EXCEPT !.model_calls = s.model_calls + 1]
    BY <1>2 DEF Responded
  <1> HIDE DEF s
  <1>4. QED
    BY <1>2, <1>3 DEF States

LEMMA FailedTypes ==
  ASSUME NEW s \in States
  PROVE  /\ Failed(s) \in States
         /\ Failed(s).iteration = s.iteration
         /\ Failed(s).known = s.known
  BY DEF Failed, States, Phases

LEMMA EmptyBatchTypes ==
  /\ \E n \in 0..MaxBatch : NoBatch \in [1..n -> Calls]
  /\ NoBatch \in RowLists
  /\ DOMAIN NoBatch = {}
  <1>1. NoBatch \in [1..0 -> Calls] /\ NoBatch \in [1..0 -> Rows] /\ 0 \in 0..MaxBatch
    BY ConstantsAssumption DEF NoBatch
  <1>2. QED
    BY <1>1 DEF RowLists, NoBatch

(* The loop leaves for a final result: only the saved files matter now.    *)
LEMMA FinishKeeps ==
  ASSUME IInv, pc \in {"model", "batch"}, NEW s \in States,
         NEW status \in {"completed", "failed", "blocked"},
         Finish(s, status), OnlyMemory
  PROVE  IInv'
  <1> USE DEF IInv, Finish, OnlyMemory, disk, history
  <1>1. TypeOK'
    BY DEF TypeOK, Running
  <1>2. Chain' /\ Accounted' /\ Invoked'
    BY DEF Chain, Accounted, Invoked, Covered
  <1>3. Remembers' /\ Journaled' /\ Lifetime'
    BY DEF Remembers, Journaled, Lifetime
  <1>4. QED
    BY <1>1, <1>2, <1>3

(* The loop reaches a boundary that knows every effect.                    *)
LEMMA BoundaryKeeps ==
  ASSUME IInv, pc \in {"new", "model", "batch"}, NEW s \in States, s.known = effects,
         \A c \in checkpoints : c.iteration <= s.iteration,
         pending.iteration <= s.iteration,
         NEW status \in {"none", "paused", "failed", "blocked"},
         Boundary(s, status), OnlyMemory
  PROVE  IInv'
  <1> USE DEF IInv, Boundary, OnlyMemory, disk, history
  <1>1. TypeOK'
    <2>1. /\ \E n \in 0..MaxBatch : batch' \in [1..n -> Calls]
          /\ next' \in 1..MaxBatch /\ first' \in 1..next'
      BY EmptyBatchTypes, ConstantsAssumption
    <2>2. QED
      BY <2>1 DEF TypeOK, Running
  <1>2. Chain' /\ Accounted' /\ Invoked'
    BY DEF Chain, Accounted, Invoked, Covered
  <1>3. Based'
    BY DEF Based, Chain
  <1>4. Remembers' /\ Lifetime'
    BY DEF Remembers, Lifetime
  <1>5. Journaled'
    BY DEF Journaled
  <1>6. QED
    BY <1>1, <1>2, <1>3, <1>4, <1>5

LEMMA DetachTypes ==
  ASSUME TypeOK, NEW place \in {"off", "done"}, Detach(place),
         UNCHANGED <<checkpoints, version, runs, effects, lastTest>>,
         final' \in {"none", "completed", "failed", "blocked"},
         interrupts' \in Nat, threads' \subseteq Slots,
         pending' \in [iteration : 0..MaxIterations, calls : RowLists]
  PROVE  TypeOK'
  <1>1. pc' \in Running \union {"new", "off", "done"} /\ state' \in States
    BY InitialTypes DEF Detach
  <1>2. \E n \in 0..MaxBatch : batch' \in [1..n -> Calls]
    BY EmptyBatchTypes DEF Detach
  <1>3. next' \in 1..MaxBatch /\ first' \in 1..next' /\ response' = "none"
    BY ConstantsAssumption DEF Detach
  <1>4. QED
    BY <1>1, <1>2, <1>3 DEF TypeOK

(* No process holds the run; the journal says at least what it said.       *)
LEMMA DetachKeeps ==
  ASSUME IInv, NEW place \in {"off", "done"}, Detach(place),
         UNCHANGED <<checkpoints, version, history>>,
         final' \in {"none", "completed", "failed", "blocked"},
         interrupts' \in Nat, threads' \subseteq Slots,
         pending' \in [iteration : 0..MaxIterations, calls : RowLists],
         pending'.iteration = pending.iteration,
         \A k \in DOMAIN pending.calls :
            k \in DOMAIN pending'.calls /\ (pending.calls[k] # "pending" => pending'.calls[k] # "pending")
  PROVE  IInv'
  <1>1. TypeOK'
    BY DetachTypes DEF IInv, history
  <1> USE DEF IInv, Detach, history
  <1>2. Chain' /\ Accounted' /\ Invoked'
    BY DEF Chain, Accounted, Invoked, Covered
  <1>3. Remembers' /\ Journaled' /\ Lifetime'
    BY DEF Remembers, Journaled, Lifetime
  <1>4. QED
    BY <1>1, <1>2, <1>3
-----------------------------------------------------------------------------
(* One lemma per group of actions.                                         *)
LEMMA InitHolds == Init => IInv
  <1> SUFFICES ASSUME Init PROVE IInv
    OBVIOUS
  <1>1. NoJournal \in [iteration : 0..MaxIterations, calls : RowLists]
    BY EmptyBatchTypes, ConstantsAssumption DEF NoJournal
  <1>2. TypeOK
    BY <1>1, EmptyBatchTypes, InitialTypes, ConstantsAssumption DEF Init, TypeOK, Running
  <1>3. Chain /\ Accounted /\ Invoked /\ Remembers
    BY DEF Init, Chain, Accounted, Invoked, Covered, Remembers
  <1>4. Journaled /\ Lifetime
    BY DEF Init, Journaled, Lifetime, NoJournal
  <1>5. QED
    BY <1>2, <1>3, <1>4 DEF IInv, Init

LEMMA StartKeeps == IInv /\ Start => IInv'
  <1> SUFFICES ASSUME IInv, Start PROVE IInv'
    OBVIOUS
  <1>1. InitialState.known = effects /\ pending.iteration <= InitialState.iteration
    BY DEF IInv, Start, Lifetime, Journaled, InitialState
  <1>2. checkpoints = {} /\ pc = "new"
    BY DEF IInv, Start, Lifetime
  <1>3. QED
    BY <1>1, <1>2, InitialTypes, BoundaryKeeps DEF Start

(* What holds when the model is asked for the next round.                  *)
LEMMA AtModelFacts ==
  ASSUME IInv, AtModel
  PROVE  /\ pc = "model" /\ state \in States /\ state.known = effects
         /\ pending.iteration = 0 /\ state.iteration \in Nat
         /\ \A c \in checkpoints : c.iteration \in Nat /\ c.iteration <= state.iteration
         /\ Responded \in States
         /\ Responded.iteration = state.iteration + 1
         /\ Responded.known = effects
  <1>1. pc = "model" /\ state \in States
    BY DEF IInv, TypeOK, AtModel
  <1>2. \A c \in checkpoints : c.iteration \in Nat /\ c.iteration <= state.iteration
    BY <1>1 DEF IInv, TypeOK, Based, States
  <1>3. state.known = effects /\ pending.iteration = 0
    BY <1>1 DEF IInv, Remembers, Journaled
  <1>4. state.iteration \in Nat
    BY <1>1 DEF States
  <1>5. QED
    BY <1>1, <1>2, <1>3, <1>4, RespondedTypes

LEMMA CompactKeeps == IInv /\ Compact => IInv'
  <1> SUFFICES ASSUME IInv, Compact PROVE IInv'
    OBVIOUS
  <1>1. pc = "model" /\ state \in States
    BY AtModelFacts DEF Compact
  <1>2. state' \in States /\ state'.iteration = state.iteration /\ state'.known = state.known
    <2> DEFINE s == [state EXCEPT !.summary_calls = state.summary_calls + 1]
    <2>1. s \in States /\ s.iteration = state.iteration /\ s.known = state.known
          /\ s.model_calls = state.model_calls
      BY <1>1 DEF States
    <2>2. state' = [s EXCEPT !.model_calls = s.model_calls + 1]
      BY <2>1 DEF Compact
    <2> HIDE DEF s
    <2>3. QED
      BY <2>1, <2>2 DEF States
  <1> USE DEF IInv, Compact, OnlyMemory, disk, history
  <1>3. TypeOK'
    BY <1>2 DEF TypeOK
  <1>4. Chain' /\ Accounted' /\ Invoked'
    BY DEF Chain, Accounted, Invoked, Covered
  <1>5. Based' /\ Remembers' /\ Journaled' /\ Lifetime'
    BY <1>1, <1>2 DEF Based, Remembers, Journaled, Covered, Lifetime
  <1>6. QED
    BY <1>3, <1>4, <1>5

LEMMA StopKeeps == IInv /\ (ContextStop \/ GenerationFails \/ RejectBatch \/ IterationLimit) => IInv'
  <1> SUFFICES ASSUME IInv, ContextStop \/ GenerationFails \/ RejectBatch \/ IterationLimit
               PROVE  IInv'
    OBVIOUS
  <1>1. CASE ContextStop
    BY <1>1, AtModelFacts, FailedTypes, FinishKeeps DEF ContextStop
  <1>2. CASE GenerationFails
    <2>1. [state EXCEPT !.iteration = @ + 1] \in States
      <3>1. state.iteration + 1 \in 0..MaxIterations
        BY <1>2, AtModelFacts, ConstantsAssumption DEF GenerationFails, AtModel
      <3>2. QED
        BY <1>2, <3>1, AtModelFacts DEF GenerationFails, States
    <2>2. QED
      BY <1>2, <2>1, AtModelFacts, FailedTypes, FinishKeeps DEF GenerationFails
  <1>3. CASE RejectBatch
    BY <1>3, AtModelFacts, FinishKeeps DEF RejectBatch
  <1>4. CASE IterationLimit
    <2>1. state \in States /\ pc = "model"
      BY <1>4 DEF IInv, TypeOK, IterationLimit
    <2>2. QED
      BY <1>4, <2>1, FailedTypes, FinishKeeps DEF IterationLimit
  <1>5. QED
    BY <1>1, <1>2, <1>3, <1>4

LEMMA AnswerKeeps ==
  ASSUME IInv, QuotaPause \/ TerminalResponse
            \/ \E incomplete, protected \in BOOLEAN : FinalAnswer(incomplete, protected)
  PROVE  IInv'
  <1>1. CASE QuotaPause
    BY <1>1, AtModelFacts, BoundaryKeeps DEF QuotaPause
  <1>2. CASE TerminalResponse
    <2>1. AtModel
      BY <1>2 DEF TerminalResponse
    <2>2. Failed(Responded) \in States /\ Failed(Responded).known = effects
          /\ Failed(Responded).iteration = state.iteration + 1
      BY <2>1, AtModelFacts, FailedTypes
    <2>3. /\ \A c \in checkpoints : c.iteration <= Failed(Responded).iteration
          /\ pending.iteration <= Failed(Responded).iteration
      BY <2>1, <2>2, AtModelFacts
    <2> DEFINE s == Failed(Responded)
    <2>4. pc = "model" /\ \E status \in {"blocked", "failed"} : Boundary(s, status) /\ OnlyMemory
      BY <1>2, <2>1, AtModelFacts DEF TerminalResponse
    <2> HIDE DEF s
    <2>5. QED
      BY <2>2, <2>3, <2>4, BoundaryKeeps DEF s
  <1>3. ASSUME NEW incomplete \in BOOLEAN, NEW protected \in BOOLEAN,
               FinalAnswer(incomplete, protected)
        PROVE  IInv'
    <2>1. AtModel /\ OnlyMemory
      BY <1>3 DEF FinalAnswer
    <2> DEFINE s == [Responded EXCEPT !.strategy_attempts = @ + 1]
    <2>2. CASE Boundary(s, "none")
      <3>1. s \in States /\ s.known = effects /\ s.iteration = state.iteration + 1
        BY <2>1, AtModelFacts DEF States
      <3>2. /\ \A c \in checkpoints : c.iteration <= s.iteration
            /\ pending.iteration <= s.iteration
        BY <2>1, <3>1, AtModelFacts
      <3>3. pc = "model"
        BY <2>1, AtModelFacts
      <3> HIDE DEF s
      <3>4. QED
        BY <2>1, <2>2, <3>1, <3>2, <3>3, BoundaryKeeps
    <2>3. CASE \E status \in {"failed", "completed"} : Finish(Responded, status)
      BY <2>1, <2>3, AtModelFacts, FinishKeeps
    <2>4. QED
      BY <1>3, <2>2, <2>3 DEF FinalAnswer
  <1>4. QED
    BY <1>1, <1>2, <1>3
-----------------------------------------------------------------------------
(* The batch.                                                              *)
Journals == [iteration : 0..MaxIterations, calls : RowLists]

LEMMA MarkFacts ==
  ASSUME TypeOK, NEW k \in DOMAIN pending.calls, NEW status \in Rows, Mark(k, status)
  PROVE  /\ pending' \in Journals
         /\ pending'.iteration = pending.iteration
         /\ DOMAIN pending'.calls = DOMAIN pending.calls
         /\ pending'.calls[k] = status
         /\ \A j \in DOMAIN pending.calls : j # k => pending'.calls[j] = pending.calls[j]
  <1>1. PICK n \in 0..MaxBatch : pending.calls \in [1..n -> Rows]
    BY DEF TypeOK, RowLists
  <1> DEFINE calls == [pending.calls EXCEPT ![k] = status]
  <1>2. calls \in [1..n -> Rows] /\ calls[k] = status
        /\ \A j \in DOMAIN pending.calls : j # k => calls[j] = pending.calls[j]
    BY <1>1
  <1>3. calls \in RowLists /\ DOMAIN calls = DOMAIN pending.calls
    BY <1>1, <1>2 DEF RowLists
  <1> HIDE DEF calls
  <1>4. pending' = [pending EXCEPT !.calls = calls]
    BY DEF Mark, calls
  <1>5. QED
    BY <1>2, <1>3, <1>4 DEF TypeOK, Journals

(* What holds of a call in flight.                                         *)
LEMMA InFlightFacts ==
  ASSUME IInv, NEW k \in 1..MaxBatch, InFlight(k)
  PROVE  /\ TypeOK /\ pc = "batch" /\ state \in States
         /\ k \in DOMAIN batch /\ k \in DOMAIN pending.calls /\ batch[k] \in Calls
         /\ k >= next /\ pending.iteration = state.iteration
         /\ state.iteration \in 1..MaxIterations
         /\ <<state.iteration, k>> \in Slots
  <1>1. /\ TypeOK /\ pc = "batch" /\ state \in States
        /\ k \in DOMAIN batch /\ k \in DOMAIN pending.calls
        /\ k >= next /\ pending.iteration = state.iteration
    BY DEF IInv, TypeOK, InFlight, InGroup, Journaled
  <1>2. batch[k] \in Calls
    BY <1>1 DEF TypeOK
  <1>3. state.iteration # 0
    BY <1>1 DEF IInv, Based, Journaled, Covered, TypeOK, States
  <1>4. state.iteration \in 1..MaxIterations
    BY <1>1, <1>3, ConstantsAssumption DEF States
  <1>5. QED
    BY <1>1, <1>2, <1>4 DEF Slots

(* At most one call can be writing: it is alone in its group.              *)
LEMMA UnfinishedFacts ==
  ASSUME IInv
  PROVE  /\ OngoingWrites \subseteq Slots
         /\ \A s, r \in OngoingWrites : s = r
         /\ pc # "batch" => OngoingWrites = {}
         /\ \A s \in OngoingWrites :
              /\ s[1] = state.iteration /\ s[2] \in DOMAIN batch /\ batch[s[2]].status = "started"
              /\ s[2] \in DOMAIN pending.calls /\ pending.iteration = state.iteration
  <1> DEFINE writing == {j \in 1..MaxBatch : /\ InFlight(j) /\ batch[j].status = "started"
                                              /\ batch[j].tool = "write_file"}
  <1>1. ASSUME NEW k \in writing
        PROVE  /\ <<state.iteration, k>> \in Slots /\ k = first /\ pc = "batch"
               /\ k \in DOMAIN batch /\ batch[k].status = "started"
               /\ k \in DOMAIN pending.calls /\ pending.iteration = state.iteration
    <2>1. k \in 1..MaxBatch /\ InFlight(k) /\ batch[k].status = "started" /\ ~Concurrent(batch[k].tool)
      BY DEF Concurrent
    <2>2. k = first
      <3>1. first \in Int /\ k \in Int
        BY <2>1 DEF IInv, TypeOK
      <3>2. k > first => Concurrent(batch[k].tool)
        BY <2>1, <3>1 DEF InFlight, InGroup
      <3>3. QED
        BY <2>1, <3>1, <3>2 DEF InFlight, InGroup
    <2> HIDE DEF writing
    <2>3. QED
      BY <2>1, <2>2, InFlightFacts
  <1>2. OngoingWrites = {<<state.iteration, k>> : k \in writing}
    BY DEF OngoingWrites
  <1> HIDE DEF writing
  <1>3. QED
    BY <1>1, <1>2

LEMMA BeginBatchKeeps == IInv /\ (\E tools \in Batches : BeginBatch(tools)) => IInv'
  <1> SUFFICES ASSUME IInv, NEW tools \in Batches, BeginBatch(tools)
               PROVE  IInv'
    OBVIOUS
  <1>1. AtModel /\ pc = "model" /\ pc' = "journal" /\ state' = Responded
    BY AtModelFacts DEF BeginBatch
  <1>2. PICK n \in 1..MaxBatch : tools \in [1..n -> Tools]
    BY DEF Batches
  <1>3. /\ batch' \in [1..n -> Calls]
        /\ \A k \in 1..n : batch'[k].status = "pending"
    BY <1>2, ConstantsAssumption DEF BeginBatch, Calls, Statuses
  <1>4. next = 1 /\ first = 1
    BY <1>1 DEF IInv, Journaled
  <1> USE DEF IInv, OnlyMemory, disk, history
  <1>5. UNCHANGED <<checkpoints, pending, final, version, next, first, response, runs, effects, lastTest, interrupts, threads>>
    BY DEF BeginBatch
  <1>6. 1 \in 1..n /\ n \in 0..MaxBatch
    BY <1>2, ConstantsAssumption
  <1>7. TypeOK'
    BY <1>1, <1>3, <1>5, <1>6, AtModelFacts DEF TypeOK, Running
  <1>8. Chain' /\ Accounted' /\ Invoked' /\ Lifetime'
    BY <1>1, <1>5 DEF Chain, Accounted, Invoked, Covered, Lifetime
  <1>9. Based' /\ Remembers'
    BY <1>1, <1>5, AtModelFacts DEF Based, Remembers
  <1>10. Journaled'
    <2>1. \A s \in Slots : runs[s] > 0 => s[1] < state'.iteration
      BY <1>1, AtModelFacts DEF Journaled, Slots
    <2>2. ~Covered(state.iteration)'
      BY <1>1, <1>5, AtModelFacts DEF Covered
    <2>3. QED
      BY <1>1, <1>3, <1>4, <1>5, <1>6, <2>1, <2>2 DEF Journaled
  <1>11. QED
    BY <1>7, <1>8, <1>9, <1>10

LEMMA WriteJournalKeeps == IInv /\ WriteJournal => IInv'
  <1> SUFFICES ASSUME IInv, WriteJournal PROVE IInv'
    OBVIOUS
  <1> USE DEF IInv, history, memory
  <1>1. PICK n \in 0..MaxBatch : batch \in [1..n -> Calls]
    BY DEF TypeOK
  <1>2. /\ pc = "journal" /\ pc' = "batch"
        /\ UNCHANGED <<checkpoints, final, version, state, batch, next, first, response, runs, effects, lastTest, interrupts, threads>>
    BY DEF WriteJournal
  <1>3. [k \in DOMAIN batch |-> "pending"] \in RowLists
    BY <1>1 DEF RowLists, Rows
  <1>4. /\ pending' \in Journals /\ pending'.iteration = state.iteration
        /\ DOMAIN pending'.calls = DOMAIN batch
        /\ \A k \in DOMAIN batch : pending'.calls[k] = "pending"
    BY <1>3 DEF WriteJournal, Journals, TypeOK, States
  <1>5. pending.iteration = 0 /\ state.iteration \in Nat /\ ~Covered(state.iteration)
    BY <1>2 DEF Journaled, TypeOK, States
  <1>6. TypeOK'
    BY <1>2, <1>4 DEF TypeOK, Journals, Running
  <1>7. Chain' /\ Lifetime' /\ Based'
    BY <1>2 DEF Chain, Lifetime, Based
  <1>8. Accounted' /\ Invoked'
    <2>1. \A s \in Slots : s[1] > 0
      BY DEF Slots
    <2>2. \A s \in effects : s \in Slots
      BY DEF TypeOK
    <2>3. \A s \in effects : \E c \in checkpoints : s \in c.known
      BY <1>5, <2>1, <2>2 DEF Accounted
    <2>4. Accounted'
      BY <1>2, <2>3 DEF Accounted
    <2>5. \A s \in Slots : runs[s] <= 1 /\ (runs[s] > 0 => Covered(s[1]))
      BY <1>5, <2>1 DEF Invoked, Slots
    <2>6. Invoked'
      BY <1>2, <2>5 DEF Invoked, Covered
    <2>7. QED
      BY <2>4, <2>6
  <1>9. Remembers'
    BY <1>2 DEF Remembers
  <1>10. Journaled'
    BY <1>2, <1>4, <1>5 DEF Journaled, Covered
  <1>11. QED
    BY <1>2, <1>6, <1>7, <1>8, <1>9, <1>10

(* A call moves on and its row in the journal is rewritten.                *)
LEMMA RowKeeps ==
  ASSUME IInv, NEW k \in 1..MaxBatch, InFlight(k),
         NEW status \in Statuses \ {"pending"}, NEW row \in Rows \ {"pending"},
         batch' = [batch EXCEPT ![k].status = status], Mark(k, row),
         UNCHANGED <<checkpoints, final, version, pc, state, next, first, response, effects, interrupts, threads>>,
         \/ runs' = runs
         \/ /\ batch[k].status = "pending"
            /\ runs' = [runs EXCEPT ![<<state.iteration, k>>] = @ + 1],
         lastTest' \in {"none", "passed", "failed"}
  PROVE  IInv'
  <1> USE DEF IInv
  <1>1. /\ pending' \in Journals /\ pending'.iteration = pending.iteration
        /\ DOMAIN pending'.calls = DOMAIN pending.calls
        /\ \A j \in DOMAIN pending.calls : pending'.calls[j] = IF j = k THEN row ELSE pending.calls[j]
    BY InFlightFacts, MarkFacts
  <1>2. PICK n \in 0..MaxBatch : batch \in [1..n -> Calls]
    BY DEF TypeOK
  <1>3. /\ batch' \in [1..n -> Calls]
        /\ \A j \in 1..n : batch'[j].status = IF j = k THEN status ELSE batch[j].status
    BY <1>2, InFlightFacts DEF Calls
  <1>4. /\ runs' \in [Slots -> Nat]
        /\ \A s \in Slots : s # <<state.iteration, k>> => runs'[s] = runs[s]
        /\ \/ runs'[<<state.iteration, k>>] = runs[<<state.iteration, k>>]
           \/ /\ batch[k].status = "pending"
              /\ runs'[<<state.iteration, k>>] = runs[<<state.iteration, k>>] + 1
    <2> DEFINE slot == <<state.iteration, k>>
    <2>1. slot \in Slots /\ runs \in [Slots -> Nat]
      BY InFlightFacts DEF TypeOK
    <2>2. \/ runs' = runs
          \/ batch[k].status = "pending" /\ runs' = [runs EXCEPT ![slot] = runs[slot] + 1]
      OBVIOUS
    <2> HIDE DEF slot
    <2>3. /\ runs' \in [Slots -> Nat]
          /\ \A s \in Slots : s # slot => runs'[s] = runs[s]
          /\ \/ runs'[slot] = runs[slot]
             \/ batch[k].status = "pending" /\ runs'[slot] = runs[slot] + 1
      BY <2>1, <2>2
    <2>4. QED
      BY <2>3 DEF slot
  <1>5. batch[k].status = "pending" => runs[<<state.iteration, k>>] = 0
    <2> SUFFICES ASSUME batch[k].status = "pending", runs[<<state.iteration, k>>] # 0
                 PROVE  FALSE
      OBVIOUS
    <2> DEFINE slot == <<state.iteration, k>>
    <2>1. slot \in Slots /\ slot[1] = state.iteration /\ slot[2] = k /\ runs[slot] > 0
      BY InFlightFacts DEF TypeOK
    <2> HIDE DEF slot
    <2>2. QED
      BY <2>1, InFlightFacts DEF Journaled, States
  <1>6. TypeOK'
    BY <1>1, <1>3, <1>4 DEF TypeOK, Journals
  <1>7. Chain' /\ Lifetime' /\ Based'
    BY InFlightFacts DEF Chain, Lifetime, Based
  <1>8. Accounted'
    BY <1>1 DEF Accounted, Covered
  <1>9. Invoked'
    <2>1. \A s \in Slots : runs'[s] <= 1
      BY <1>4, <1>5, InFlightFacts DEF Invoked
    <2>2. ASSUME NEW s \in Slots, runs'[s] > 0
          PROVE  s[1] <= pending'.iteration \/ Covered(s[1])'
      <3>1. CASE s = <<state.iteration, k>>
        BY <3>1, <1>1, InFlightFacts
      <3>2. CASE s # <<state.iteration, k>>
        BY <2>2, <3>2, <1>1, <1>4 DEF Invoked, Covered
      <3>3. QED
        BY <3>1, <3>2
    <2>3. QED
      BY <2>1, <2>2 DEF Invoked
  <1>10. Remembers'
    BY <1>2, <1>3, InFlightFacts DEF Remembers
  <1>11. Journaled'
    <2>1. \A j \in DOMAIN batch' : batch'[j].status = "pending" <=> pending'.calls[j] = "pending"
      BY <1>1, <1>2, <1>3, InFlightFacts DEF Journaled
    <2>2. ASSUME NEW s \in Slots, runs'[s] > 0
          PROVE  \/ s[1] < state.iteration
                 \/ /\ s[1] = state.iteration
                    /\ s[2] \in DOMAIN batch' /\ batch'[s[2]].status # "pending"
      <3>1. CASE s = <<state.iteration, k>>
        BY <3>1, <1>2, <1>3, InFlightFacts
      <3>2. CASE s # <<state.iteration, k>>
        BY <2>2, <3>2, <1>2, <1>3, <1>4, InFlightFacts DEF Journaled
      <3>3. QED
        BY <3>1, <3>2
    <2>3. QED
      BY <1>1, <1>2, <1>3, <2>1, <2>2, InFlightFacts DEF Journaled, Covered
  <1>12. QED
    BY <1>6, <1>7, <1>8, <1>9, <1>10, <1>11

LEMMA RowActionsKeep ==
  ASSUME IInv, NEW k \in 1..MaxBatch,
         BlockCall(k) \/ StartCall(k) \/ \E ok \in BOOLEAN : ReturnCall(k, ok)
  PROVE  IInv'
  <1> USE DEF history, Statuses, Rows
  <1>1. CASE BlockCall(k)
    <2>1. lastTest' \in {"none", "passed", "failed"}
      BY <1>1 DEF BlockCall, IInv, TypeOK
    <2>2. QED
      BY <1>1, <2>1, RowKeeps DEF BlockCall
  <1>2. CASE StartCall(k)
    <2>1. lastTest' \in {"none", "passed", "failed"}
      BY <1>2 DEF StartCall, IInv, TypeOK
    <2>2. QED
      BY <1>2, <2>1, RowKeeps DEF StartCall
  <1>3. ASSUME NEW ok \in BOOLEAN, ReturnCall(k, ok)
        PROVE  IInv'
    <2>1. lastTest' \in {"none", "passed", "failed"}
      BY <1>3 DEF ReturnCall, IInv, TypeOK
    <2>2. QED
      BY <1>3, <2>1, RowKeeps DEF ReturnCall
  <1>4. QED
    BY <1>1, <1>2, <1>3

LEMMA ApplyKeeps ==
  ASSUME IInv, NEW k \in 1..MaxBatch, ApplyCall(k)
  PROVE  IInv'
  <1> USE DEF IInv, disk
  <1>1. /\ InFlight(k) /\ batch[k].status = "started"
        /\ version' \in {version, version + 1}
        /\ effects' = effects \/ effects' = effects \union {<<state.iteration, k>>}
        /\ batch' = [batch EXCEPT ![k].status = "applied", ![k].seen = version']
        /\ UNCHANGED <<checkpoints, pending, final, pc, state, next, first, response, runs, lastTest, interrupts, threads>>
    BY DEF ApplyCall
  <1>2. version' \in Nat \ {0}
    BY <1>1 DEF TypeOK
  <1>3. PICK n \in 0..MaxBatch : batch \in [1..n -> Calls]
    BY DEF TypeOK
  <1> DEFINE call == [batch[k] EXCEPT !.status = "applied", !.seen = version']
  <1>4. call \in Calls /\ call.status = "applied"
    BY <1>1, <1>2, InFlightFacts DEF Calls, Statuses
  <1>5. batch' = [batch EXCEPT ![k] = call]
    BY <1>1, <1>3, InFlightFacts
  <1> HIDE DEF call
  <1>6. /\ batch' \in [1..n -> Calls]
        /\ \A j \in 1..n : batch'[j].status = IF j = k THEN "applied" ELSE batch[j].status
    BY <1>3, <1>4, <1>5, InFlightFacts
  <1>7. effects' \subseteq Slots /\ effects \subseteq effects'
        /\ \A s \in effects' : s \in effects \/ s = <<state.iteration, k>>
    BY <1>1, InFlightFacts DEF TypeOK
  <1>8. TypeOK'
    BY <1>1, <1>2, <1>6, <1>7 DEF TypeOK
  <1>9. Chain' /\ Lifetime' /\ Based' /\ Invoked'
    BY <1>1, <1>7, InFlightFacts DEF Chain, Lifetime, Based, Invoked, Covered
  <1>10. pending.calls[k] # "pending" /\ ~Covered(pending.iteration)
    BY <1>1, InFlightFacts DEF Journaled
  <1>11. Accounted'
    BY <1>1, <1>7, <1>10, InFlightFacts DEF Accounted, Covered
  <1>12. Remembers'
    <2>1. k \in DOMAIN batch' /\ DOMAIN batch' = DOMAIN batch /\ pc = "batch" /\ pc' = "batch" /\ k >= next
      BY <1>1, <1>3, <1>6, InFlightFacts
    <2>2. ASSUME NEW s \in effects'
          PROVE  \/ s \in state.known
                 \/ s[1] = state.iteration /\ s[2] \in DOMAIN batch /\ s[2] >= next
      BY <1>7, <2>1 DEF Remembers
    <2>3. state.known \subseteq effects'
      BY <1>7, <2>1 DEF Remembers
    <2>4. QED
      BY <1>1, <2>1, <2>2, <2>3 DEF Remembers
  <1>13. Journaled'
    BY <1>1, <1>3, <1>6, InFlightFacts DEF Journaled, Covered
  <1>14. QED
    BY <1>8, <1>9, <1>11, <1>12, <1>13

LEMMA LostCallKeeps ==
  ASSUME IInv, NEW k \in 1..MaxBatch, UnknownOutcome(k) \/ QuotaInTool(k)
  PROVE  IInv'
  <1> USE DEF UnknownOutcome, QuotaInTool, history
  <1>1. PICK row \in {"unknown", "interrupted"} : Mark(k, row)
    OBVIOUS
  <1>2. /\ InFlight(k) /\ Detach("off") /\ interrupts' \in Nat /\ threads' \subseteq Slots
        /\ UNCHANGED <<checkpoints, version, history>>
        /\ final' \in {"none", "completed", "failed", "blocked"}
    BY DEF IInv, TypeOK
  <1>3. /\ pending' \in Journals /\ pending'.iteration = pending.iteration
        /\ DOMAIN pending'.calls = DOMAIN pending.calls
        /\ \A j \in DOMAIN pending.calls : pending'.calls[j] = IF j = k THEN row ELSE pending.calls[j]
    BY <1>1, <1>2, InFlightFacts, MarkFacts DEF Rows
  <1>4. QED
    BY <1>2, <1>3, DetachKeeps DEF Journals

LEMMA RecordedFacts ==
  ASSUME state \in States, effects \subseteq Slots,
         NEW call \in Calls, NEW slot \in Slots, NEW identical \in BOOLEAN
  PROVE  /\ Recorded(call, slot, identical) \in States
         /\ Recorded(call, slot, identical).iteration = state.iteration
         /\ Recorded(call, slot, identical).known =
               IF slot \in effects THEN state.known \union {slot} ELSE state.known
  <1> DEFINE ok == call.status = "ok"
             isTest == call.tool = "run_tests"
             sees == ok /\ ~isTest
             used == state.tool_calls_used + 1
             tests == IF isTest THEN state.test_runs + 1 ELSE state.test_runs
             passed == IF isTest THEN ok ELSE state.tests_passed
             fails == IF ok THEN 0 ELSE IF identical THEN state.repeated_failures + 1 ELSE 1
             shown == IF sees THEN call.seen ELSE state.shown
             hash == IF sees /\ Hashed(call.tool) THEN call.seen ELSE state.hash
             known == IF slot \in effects THEN state.known \union {slot} ELSE state.known
  <1>1. /\ used \in Nat /\ tests \in Nat /\ fails \in Nat /\ shown \in Nat /\ hash \in Nat
        /\ known \in SUBSET Slots
    BY DEF States, Calls
  <1>2. passed \in BOOLEAN
    BY DEF States
  <1> DEFINE a == [state EXCEPT !.tool_calls_used = used]
             b == [a EXCEPT !.test_runs = tests]
             c == [b EXCEPT !.tests_passed = passed]
             d == [c EXCEPT !.repeated_failures = fails]
             e == [d EXCEPT !.shown = shown]
             f == [e EXCEPT !.hash = hash]
             g == [f EXCEPT !.known = known]
  <1>3. Recorded(call, slot, identical) = g
    BY DEF Recorded, States
  <1> HIDE DEF ok, isTest, sees, used, tests, passed, fails, shown, hash, known
  <1>4. Recorded(call, slot, identical) \in States
        /\ Recorded(call, slot, identical).iteration = state.iteration
        /\ Recorded(call, slot, identical).known = known
    <2>1. a \in States /\ a.iteration = state.iteration
      BY <1>1 DEF States
    <2> HIDE DEF a
    <2>2. b \in States /\ b.iteration = state.iteration
      BY <1>1, <2>1 DEF States
    <2> HIDE DEF b
    <2>3. c \in States /\ c.iteration = state.iteration
      BY <1>2, <2>2 DEF States
    <2> HIDE DEF c
    <2>4. d \in States /\ d.iteration = state.iteration
      BY <1>1, <2>3 DEF States
    <2> HIDE DEF d
    <2>5. e \in States /\ e.iteration = state.iteration
      BY <1>1, <2>4 DEF States
    <2> HIDE DEF e
    <2>6. f \in States /\ f.iteration = state.iteration
      BY <1>1, <2>5 DEF States
    <2> HIDE DEF f
    <2>7. QED
      BY <1>1, <1>3, <2>6 DEF States
  <1>5. QED
    BY <1>4 DEF known

LEMMA ConsumeKeeps ==
  ASSUME IInv, NEW identical \in BOOLEAN, NEW status \in {"none", "blocked"}, Consume(identical, status)
  PROVE  IInv'
  <1> DEFINE slot == <<state.iteration, next>>
             s == Recorded(batch[next], slot, identical)
  <1> USE DEF IInv
  <1>1. pc = "batch" /\ state \in States /\ TypeOK /\ OnlyMemory
    BY DEF Consume, TypeOK
  <1>2. /\ next \in DOMAIN batch /\ pending.iteration = state.iteration
        /\ ~Covered(state.iteration)
        /\ \A c \in checkpoints : c.iteration <= state.iteration
    BY <1>1 DEF Journaled, Based
  <1>3. PICK n \in 0..MaxBatch : batch \in [1..n -> Calls]
    BY DEF TypeOK
  <1>4. state.iteration \in 1..MaxIterations /\ next \in 1..MaxBatch /\ slot \in Slots
    <2>1. state.iteration # 0
      BY <1>1, <1>2 DEF Based, Covered, TypeOK, States
    <2>2. state.iteration \in 1..MaxIterations
      BY <1>1, <2>1, ConstantsAssumption DEF States
    <2>3. next \in 1..MaxBatch
      BY DEF TypeOK
    <2>4. QED
      BY <2>2, <2>3 DEF Slots
  <1>5. /\ s \in States /\ s.iteration = state.iteration
        /\ s.known = IF slot \in effects THEN state.known \union {slot} ELSE state.known
    <2>1. batch[next] \in Calls
      BY <1>2, <1>3
    <2>2. effects \subseteq Slots
      BY DEF TypeOK
    <2> HIDE DEF slot
    <2>3. QED
      BY <1>1, <1>4, <2>1, <2>2, RecordedFacts
  <1>6. CASE Finish(Failed(s), "failed")
    BY <1>1, <1>5, <1>6, FailedTypes, FinishKeeps
  <1>7. CASE next + 1 \notin DOMAIN batch /\ Boundary(s, status)
    <2>1. s.known = effects
      <3>1. ASSUME NEW e \in effects, e \notin state.known
            PROVE  e = slot
        <4>1. e[1] = state.iteration /\ e[2] \in 1..n /\ e[2] >= next
          BY <1>1, <1>3, <3>1 DEF Remembers
        <4>2. e[2] = next
          <5>1. DOMAIN batch = 1..n /\ n \in Nat /\ next \in Nat /\ next >= 1
            BY <1>3, <1>4, ConstantsAssumption
          <5>2. next + 1 \notin 1..n
            BY <1>7, <5>1
          <5>3. QED
            BY <4>1, <5>1, <5>2
        <4>3. e = <<e[1], e[2]>>
          BY DEF TypeOK, Slots
        <4>4. QED
          BY <4>1, <4>2, <4>3
      <3>2. state.known \subseteq effects
        BY <1>1 DEF Remembers
      <3>3. QED
        BY <1>5, <3>1, <3>2
    <2>2. pending.iteration <= s.iteration /\ \A c \in checkpoints : c.iteration <= s.iteration
      BY <1>1, <1>2, <1>5 DEF States
    <2> HIDE DEF s
    <2>3. QED
      BY <1>1, <1>5, <1>7, <2>1, <2>2, BoundaryKeeps
  <1>8. CASE /\ next + 1 \in DOMAIN batch
             /\ state' = s /\ next' = next + 1
             /\ first' = IF InGroup(next + 1) THEN first ELSE next + 1
             /\ UNCHANGED <<pc, batch, response>>
    <2>1. next' \in 1..MaxBatch /\ first' \in 1..next' /\ next' \in DOMAIN batch
      <3>1. MaxBatch \in Nat
        BY ConstantsAssumption
      <3>2. DOMAIN batch = 1..n
        BY <1>3
      <3>3. next' = next + 1 /\ next + 1 \in 1..n
        BY <1>8, <3>2
      <3>4. first \in 1..next /\ first' \in {first, next + 1}
        BY <1>8 DEF TypeOK
      <3> HIDE DEF IInv, s, slot
      <3>5. next \in 1..MaxBatch
        BY <1>4
      <3>6. first' \in 1..next'
        BY <3>3, <3>4, <3>5
      <3>7. QED
        BY <3>1, <3>2, <3>3, <3>6
    <2>2. UNCHANGED <<checkpoints, pending, final, version, runs, effects, lastTest, interrupts, threads>>
      BY <1>1 DEF OnlyMemory, disk, history
    <2> HIDE DEF s
    <2>3. TypeOK'
      BY <1>5, <1>8, <2>1, <2>2 DEF TypeOK
    <2>4. Chain' /\ Lifetime' /\ Accounted' /\ Invoked'
      BY <1>1, <1>8, <2>2 DEF Chain, Lifetime, Accounted, Invoked, Covered
    <2>5. Based'
      BY <1>1, <1>5, <1>8, <2>2 DEF Based
    <2>6. Remembers'
      <3>1. ASSUME NEW e \in effects
            PROVE  \/ e \in s.known
                   \/ e[1] = state.iteration /\ e[2] \in DOMAIN batch /\ e[2] >= next + 1
        <4>1. CASE e \in state.known
          BY <1>5, <4>1
        <4>2. CASE e[1] = state.iteration /\ e[2] \in DOMAIN batch /\ e[2] >= next
          <5>1. CASE e[2] = next
            <6>1. e = <<e[1], e[2]>>
              BY DEF TypeOK, Slots
            <6>2. e = slot
              BY <4>2, <5>1, <6>1
            <6>3. QED
              BY <1>5, <6>2
          <5>2. CASE e[2] # next
            BY <1>3, <1>4, <4>2, <5>2
          <5>3. QED
            BY <5>1, <5>2
        <4>3. QED
          BY <1>1, <4>1, <4>2 DEF Remembers
      <3>2. s.known \subseteq effects
        BY <1>1, <1>5 DEF Remembers
      <3>3. QED
        BY <1>1, <1>5, <1>8, <2>2, <3>1, <3>2 DEF Remembers
    <2>7. Journaled'
      BY <1>1, <1>5, <1>8, <2>1, <2>2 DEF Journaled, Covered
    <2>8. QED
      BY <1>1, <2>3, <2>4, <2>5, <2>6, <2>7
  <1>9. QED
    BY <1>6, <1>7, <1>8 DEF Consume
-----------------------------------------------------------------------------
(* The boundary on disk, and the way back to it.                           *)
LEMMA SaveCheckpointKeeps == IInv /\ SaveCheckpoint => IInv'
  <1> SUFFICES ASSUME IInv, SaveCheckpoint PROVE IInv'
    OBVIOUS
  <1> DEFINE saved == [state EXCEPT !.hash = Fingerprint(state)]
             kept == {c \in checkpoints : c.iteration # state.iteration}
  <1> USE DEF IInv, history, memory
  <1>1. /\ pc = "save" /\ pc' = "clear" /\ checkpoints' = kept \union {saved}
        /\ UNCHANGED <<pending, final, version, state, batch, next, first, response, runs, effects, lastTest, interrupts, threads>>
    BY DEF SaveCheckpoint
  <1>2. state \in States /\ version \in Nat /\ checkpoints \subseteq States
    BY DEF TypeOK
  <1>3. saved \in States /\ saved.iteration = state.iteration /\ saved.known = effects
    <2>1. Fingerprint(state) \in Nat
      BY <1>2 DEF Fingerprint, States
    <2>2. state.known = effects
      BY <1>1 DEF Remembers
    <2>3. QED
      BY <1>2, <2>1, <2>2 DEF States
  <1> HIDE DEF saved
  <1>4. \A c \in checkpoints : c.iteration \in Nat /\ c.iteration <= state.iteration
    BY <1>1, <1>2 DEF Based, States
  <1>5. state.iteration \in Nat
    BY <1>2 DEF States
  <1>6. \A i \in Nat : Covered(i) => Covered(i)'
    BY <1>1, <1>3, <1>4, <1>5 DEF Covered
  <1>7. TypeOK'
    BY <1>1, <1>2, <1>3 DEF TypeOK, Running
  <1>8. Chain'
    <2>1. saved \in checkpoints' /\ \A d \in checkpoints' : d.iteration <= saved.iteration
      BY <1>1, <1>3, <1>4, <1>5
    <2>2. \A c \in checkpoints' : c.known \subseteq effects
      BY <1>1, <1>3 DEF Chain
    <2>3. ASSUME NEW c \in checkpoints', NEW d \in checkpoints', c.iteration <= d.iteration
          PROVE  c.known \subseteq d.known
      BY <1>1, <1>3, <1>4, <1>5, <2>2, <2>3 DEF Chain
    <2>4. QED
      BY <1>1, <2>1, <2>2, <2>3 DEF Chain
  <1>9. Accounted'
    BY <1>1, <1>3 DEF Accounted
  <1>10. Invoked'
    BY <1>1, <1>6 DEF Invoked, Slots
  <1>11. Based' /\ Remembers' /\ Lifetime'
    BY <1>1, <1>3, <1>4, <1>5 DEF Based, Remembers, Lifetime
  <1>12. Journaled'
    BY <1>1, <1>3, <1>5 DEF Journaled, Covered
  <1>13. QED
    BY <1>1, <1>7, <1>8, <1>9, <1>10, <1>11, <1>12

(* A journaled round that a saved boundary covers may be forgotten.        *)
LEMMA ForgetCovered ==
  ASSUME IInv, Covered(pending.iteration), UNCHANGED <<checkpoints, effects, runs>>
  PROVE  /\ Chain' /\ Accounted' /\ Invoked'
         /\ \A s \in effects : \E c \in checkpoints : s \in c.known
         /\ \A s \in Slots : runs[s] > 0 => Covered(s[1])
  <1> USE DEF IInv
  <1>1. Chain'
    BY DEF Chain
  <1>2. \A s \in effects : \E c \in checkpoints : s \in c.known
    BY DEF Accounted
  <1>3. \A s \in Slots : runs[s] > 0 => Covered(s[1])
    <2>1. pending.iteration \in Nat /\ \A c \in checkpoints : c.iteration \in Nat
      BY DEF TypeOK, States
    <2>2. QED
      BY <2>1 DEF Invoked, Covered, Slots
  <1>4. Accounted' /\ Invoked'
    BY <1>2, <1>3 DEF Accounted, Invoked, Covered
  <1>5. QED
    BY <1>1, <1>2, <1>3, <1>4

LEMMA ClearJournalKeeps == IInv /\ ClearJournal => IInv'
  <1> SUFFICES ASSUME IInv, ClearJournal PROVE IInv'
    OBVIOUS
  <1> USE DEF IInv, history, memory
  <1>1. /\ pc = "clear" /\ pending' = NoJournal
        /\ UNCHANGED <<checkpoints, final, version, runs, effects, lastTest, interrupts, threads>>
    BY DEF ClearJournal
  <1>2. \/ pc' = "model" /\ UNCHANGED memory
        \/ Detach("off")
        \/ pc' = "finish" /\ response \in {"completed", "failed", "blocked"} /\ UNCHANGED memory
    BY DEF ClearJournal, TypeOK
  <1>3. state \in States /\ state.iteration \in Nat /\ pending.iteration \in Nat
        /\ \A c \in checkpoints : c.iteration \in Nat /\ c.iteration <= state.iteration
    <2>1. state \in States /\ pending.iteration \in Nat /\ checkpoints \subseteq States
      BY DEF TypeOK
    <2>2. Based
      BY <1>1
    <2>3. state.iteration \in Nat /\ \A c \in checkpoints : c.iteration \in Nat
      BY <2>1 DEF States
    <2>4. QED
      BY <2>1, <2>2, <2>3 DEF Based
  <1>4. Covered(pending.iteration)
    BY <1>1, <1>3 DEF Journaled, Covered
  <1>5. pending' \in [iteration : 0..MaxIterations, calls : RowLists] /\ pending'.iteration = 0
    BY <1>1, EmptyBatchTypes, ConstantsAssumption DEF NoJournal
  <1>6. TypeOK'
    <2>1. CASE Detach("off")
      <3>1. TypeOK /\ final' \in {"none", "completed", "failed", "blocked"} /\ interrupts' \in Nat
            /\ threads' \subseteq Slots
        BY <1>1 DEF TypeOK
      <3>2. QED
        BY ONLY <1>1, <1>5, <2>1, <3>1, DetachTypes
    <2>2. CASE UNCHANGED memory /\ pc' \in Running
      BY <1>1, <1>5, <2>2 DEF TypeOK
    <2>3. QED
      BY <1>2, <2>1, <2>2 DEF Running
  <1>7. Chain' /\ Accounted' /\ Invoked'
    BY <1>1, <1>4, ForgetCovered
  <1>8. pc' = "model" => Based'
    BY <1>1, <1>2 DEF Based, Detach
  <1>9. Remembers' /\ Lifetime'
    BY <1>1, <1>2 DEF Remembers, Lifetime, Detach
  <1>10. \A s \in Slots : runs[s] > 0 => s[1] <= state.iteration
    BY <1>1, <1>3, <1>4, ForgetCovered DEF Covered, Slots
  <1>11. Journaled'
    BY <1>1, <1>2, <1>5, <1>10 DEF Journaled, Covered, Detach
  <1>12. QED
    BY <1>1, <1>2, <1>6, <1>7, <1>8, <1>9, <1>11 DEF Detach

LEMMA LetGoKeeps ==
  IInv /\ (WriteFinal \/ ReturnSaved \/ RefuseBoundary \/ RefuseFiles \/ ProcessDies \/ CancelRun) => IInv'
  <1> SUFFICES ASSUME IInv, WriteFinal \/ ReturnSaved \/ RefuseBoundary \/ RefuseFiles \/ ProcessDies \/ CancelRun
               PROVE  IInv'
    OBVIOUS
  <1> USE DEF OnlyMemory, disk, history
  <1>1. /\ \E place \in {"off", "done"} : Detach(place) /\ (final' # "none" => final' = final \/ place = "done")
        /\ UNCHANGED <<checkpoints, pending, version, history>>
    BY DEF WriteFinal, ReturnSaved, RefuseBoundary, RefuseFiles, ProcessDies, CancelRun, Interrupt
  <1>2. final' \in {"none", "completed", "failed", "blocked"} /\ interrupts' \in Nat
    BY DEF IInv, TypeOK, Lifetime, WriteFinal, ReturnSaved, RefuseBoundary, RefuseFiles, ProcessDies, CancelRun, Interrupt
  <1>3. pending' \in [iteration : 0..MaxIterations, calls : RowLists]
    BY <1>1 DEF IInv, TypeOK
  <1>4. threads' \subseteq Slots
    <2>1. threads \subseteq Slots
      BY DEF IInv, TypeOK
    <2>2. CASE WriteFinal \/ ReturnSaved \/ RefuseBoundary \/ RefuseFiles \/ ProcessDies
      BY <2>1, <2>2 DEF WriteFinal, ReturnSaved, RefuseBoundary, RefuseFiles, ProcessDies
    <2>3. CASE CancelRun
      BY <2>1, <2>3, UnfinishedFacts DEF CancelRun
    <2>4. QED
      BY <2>2, <2>3
  <1>5. QED
    BY <1>1, <1>2, <1>3, <1>4, DetachKeeps

LEMMA LatestFacts ==
  ASSUME IInv, checkpoints # {}
  PROVE  Latest \in checkpoints /\ \A d \in checkpoints : d.iteration <= Latest.iteration
  BY DEF IInv, Chain, Latest

LEMMA RecoverKeeps == IInv /\ Recover => IInv'
  <1> SUFFICES ASSUME IInv, Recover PROVE IInv'
    OBVIOUS
  <1> USE DEF IInv, Recover, OnlyMemory, disk, history
  <1>1. TypeOK'
    BY LatestFacts DEF TypeOK, Running
  <1>2. Chain' /\ Accounted' /\ Invoked'
    BY DEF Chain, Accounted, Invoked, Covered
  <1>3. Remembers' /\ Journaled' /\ Lifetime'
    BY LatestFacts DEF Remembers, Journaled, Lifetime
  <1>4. QED
    BY <1>1, <1>2, <1>3

LEMMA AcceptBoundaryKeeps == IInv /\ AcceptBoundary => IInv'
  <1> SUFFICES ASSUME IInv, AcceptBoundary PROVE IInv'
    OBVIOUS
  <1> USE DEF IInv, history, memory
  <1>1. /\ pc = "recovered" /\ pc' = "checked" /\ final = "none" /\ pending' = NoJournal
        /\ UNCHANGED <<checkpoints, final, version, state, batch, next, first, response, runs, effects, lastTest, interrupts, threads>>
    BY DEF AcceptBoundary
  <1>2. state \in checkpoints /\ \A c \in checkpoints : c.iteration <= state.iteration
    BY <1>1 DEF Remembers
  <1>3. Covered(pending.iteration) /\ Covered(state.iteration)
    <2>1. pending.iteration <= state.iteration /\ state.iteration <= state.iteration
      BY DEF AcceptBoundary, Ambiguous, TypeOK, States
    <2>2. QED
      BY <1>2, <2>1 DEF Covered
  <1>4. pending' \in [iteration : 0..MaxIterations, calls : RowLists] /\ pending'.iteration = 0
    BY <1>1, EmptyBatchTypes, ConstantsAssumption DEF NoJournal
  <1>5. TypeOK'
    BY <1>1, <1>4 DEF TypeOK, Running
  <1>6. Chain' /\ Accounted' /\ Invoked'
    BY <1>1, <1>3, ForgetCovered
  <1>7. state.known = effects
    <2>1. \A s \in effects : \E c \in checkpoints : s \in c.known
      BY <1>1, <1>3, ForgetCovered
    <2>2. \A c \in checkpoints : c.known \subseteq state.known
      BY <1>2 DEF Chain
    <2>3. state.known \subseteq effects
      BY <1>2 DEF Chain
    <2>4. QED
      BY <2>1, <2>2, <2>3
  <1>8. Based'
    BY <1>1, <1>2 DEF Based, Chain
  <1>9. Remembers' /\ Lifetime'
    BY <1>1, <1>7 DEF Remembers, Lifetime
  <1>10. Journaled'
    BY <1>1, <1>3, <1>4 DEF Journaled, Covered
  <1>11. QED
    BY <1>5, <1>6, <1>8, <1>9, <1>10

LEMMA ContinueKeeps == IInv /\ Continue => IInv'
  <1> SUFFICES ASSUME IInv, Continue PROVE IInv'
    OBVIOUS
  <1> USE DEF IInv, OnlyMemory, disk, history, memory
  <1>1. /\ pc = "checked" /\ pc' = "model"
        /\ UNCHANGED <<checkpoints, pending, final, version, state, batch, next, first, response, runs, effects, lastTest, interrupts, threads>>
    BY DEF Continue
  <1>2. TypeOK'
    BY <1>1 DEF TypeOK, Running
  <1>3. Chain' /\ Accounted' /\ Invoked' /\ Lifetime'
    BY <1>1 DEF Chain, Accounted, Invoked, Covered, Lifetime
  <1>4. Based' /\ Remembers'
    BY <1>1 DEF Based, Remembers
  <1>5. \A s \in Slots : runs[s] > 0 => s[1] <= state.iteration
    <2>1. Covered(pending.iteration)
      BY <1>1 DEF Journaled, Covered, TypeOK, States
    <2>2. \A c \in checkpoints : c.iteration \in Nat /\ c.iteration <= state.iteration
      BY <1>1 DEF Based, TypeOK, States
    <2>3. state.iteration \in Nat
      BY DEF TypeOK, States
    <2>4. QED
      BY <1>1, <2>1, <2>2, <2>3, ForgetCovered DEF Covered, Slots
  <1>6. Journaled'
    BY <1>1, <1>5 DEF Journaled, Covered
  <1>7. QED
    BY <1>2, <1>3, <1>4, <1>6

LEMMA OtherKeeps == IInv /\ (UserEdit \/ UNCHANGED vars) => IInv'
  <1> SUFFICES ASSUME IInv, UserEdit \/ UNCHANGED vars PROVE IInv'
    OBVIOUS
  <1>1. /\ UNCHANGED <<checkpoints, pending, final, pc, state, batch, next, first, response, runs, effects, lastTest, interrupts, threads>>
        /\ version' \in {version, version + 1}
    BY DEF UserEdit, vars, disk, memory, history
  <1> USE DEF IInv
  <1>2. TypeOK'
    BY <1>1 DEF TypeOK
  <1>3. Chain' /\ Accounted' /\ Invoked' /\ Lifetime' /\ Remembers'
    BY <1>1 DEF Chain, Accounted, Invoked, Covered, Lifetime, Remembers
  <1>4. (Based => Based') /\ Journaled'
    BY <1>1 DEF Based, Journaled, Covered
  <1>5. QED
    BY <1>1, <1>2, <1>3, <1>4

(* The late write is of a call that the journal flags.                     *)
LEMMA LateWriteKeeps ==
  ASSUME IInv, Loose, NEW s \in Slots, LateWrite(s)
  PROVE  IInv'
  <1>1. /\ UNCHANGED <<checkpoints, pending, final, pc, state, batch, next, first, response, runs, lastTest, interrupts>>
        /\ version' = version + 1 /\ effects' = effects \union {s} /\ threads' \subseteq threads
    BY DEF LateWrite, disk, memory
  <1>2. /\ pc \in {"off", "recovered"} /\ pending.iteration = s[1] /\ s[2] \in DOMAIN pending.calls
        /\ pending.calls[s[2]] # "pending" /\ ~Covered(pending.iteration)
    BY DEF LateWrite, Loose
  <1> USE DEF IInv
  <1>3. TypeOK'
    BY <1>1 DEF TypeOK
  <1>4. Chain' /\ Invoked' /\ Lifetime' /\ Remembers'
    BY <1>1, <1>2 DEF Chain, Invoked, Covered, Lifetime, Remembers
  <1>5. Accounted'
    BY <1>1, <1>2 DEF Accounted, Covered
  <1>6. Journaled'
    BY <1>1, <1>2 DEF Journaled, Covered
  <1>7. QED
    BY <1>1, <1>2, <1>3, <1>4, <1>5, <1>6

\* What writes on, and the round it belongs to, stay as they are.
LEMMA LooseStays ==
  ASSUME Loose, UNCHANGED <<pending, final, checkpoints>>, pc' \in {"off", "recovered"}, threads' \subseteq threads
  PROVE  Loose'
  BY DEF Loose, Covered

LEMMA LooseCancel ==
  ASSUME IInv, Loose, CancelRun
  PROVE  Loose'
  <1>1. /\ UNCHANGED <<pending, final, checkpoints>> /\ pc \in Running /\ pc' = "off"
        /\ threads' = threads \union OngoingWrites
    BY DEF CancelRun, Interrupt, Detach, disk
  <1>2. CASE OngoingWrites = {}
    BY <1>1, <1>2, LooseStays
  <1>3. CASE OngoingWrites # {}
    <2>1. pc = "batch" /\ threads' = OngoingWrites
      BY <1>1, <1>3, UnfinishedFacts DEF Loose
    <2>2. final = "none" /\ ~Covered(pending.iteration)
      BY <2>1 DEF IInv, Lifetime, Journaled
    <2>3. ASSUME NEW s \in OngoingWrites PROVE pending.calls[s[2]] # "pending"
      BY <2>1, UnfinishedFacts DEF IInv, Journaled
    <2>4. QED
      BY <1>1, <2>1, <2>2, <2>3, UnfinishedFacts DEF Loose, Covered
  <1>4. QED
    BY <1>2, <1>3

LEMMA LooseSteps == IInv /\ Loose /\ [Next]_vars => Loose'
  <1> SUFFICES ASSUME IInv, Loose, [Next]_vars PROVE Loose'
    OBVIOUS
  <1>1. ASSUME threads = {}, UNCHANGED threads PROVE Loose'
    BY <1>1 DEF Loose
  <1>2. pc \notin {"off", "recovered"} => threads = {}
    BY DEF Loose
  <1> USE DEF OnlyMemory, disk
  <1>3. CASE Model \/ Tool \/ Save \/ Start \/ Continue \/ RefuseFiles
    <2>1. pc \notin {"off", "recovered"} /\ UNCHANGED threads
      BY <1>3 DEF Model, Compact, ContextStop, GenerationFails, QuotaPause, TerminalResponse, FinalAnswer, RejectBatch,
              IterationLimit, BeginBatch, AtModel, Tool, WriteJournal, Call, BlockCall, StartCall, ApplyCall,
              ReturnCall, UnknownOutcome, QuotaInTool, Consume, InFlight, Save, SaveCheckpoint, ClearJournal,
              WriteFinal, Start, Continue, RefuseFiles
    <2>2. QED
      BY <1>1, <1>2, <2>1
  <1>4. CASE ReturnSaved
    <2>1. threads = {}
      BY <1>4 DEF ReturnSaved, Loose
    <2>2. QED
      BY <1>1, <1>4, <2>1 DEF ReturnSaved
  <1>5. CASE RefuseBoundary \/ Recover
    BY <1>5, LooseStays DEF RefuseBoundary, Recover, Detach
  <1>6. CASE AcceptBoundary
    <2>1. state \in checkpoints /\ pending.iteration <= state.iteration
      BY <1>6 DEF AcceptBoundary, Ambiguous, IInv, Remembers, TypeOK, States
    <2>2. Covered(pending.iteration)
      BY <2>1 DEF Covered
    <2>3. threads = {}
      BY <2>2 DEF Loose
    <2>4. QED
      BY <1>1, <1>6, <2>3 DEF AcceptBoundary
  <1>7. CASE ProcessDies
    BY <1>7 DEF ProcessDies, Loose
  <1>8. CASE CancelRun
    BY <1>8, LooseCancel
  <1>9. CASE UserEdit \/ UNCHANGED vars
    BY <1>9 DEF UserEdit, vars, Loose, Covered
  <1>10. ASSUME NEW s \in Slots, LateWrite(s) PROVE Loose'
    BY <1>10 DEF LateWrite, Loose, Covered
  <1>11. QED
    BY <1>3, <1>4, <1>5, <1>6, <1>7, <1>8, <1>9, <1>10 DEF Next, Process, Resume
-----------------------------------------------------------------------------
LEMMA Inductive == IInv /\ Loose /\ [Next]_vars => IInv'
  <1> SUFFICES ASSUME IInv, Loose, [Next]_vars PROVE IInv'
    OBVIOUS
  <1>1. CASE Model
    BY <1>1, CompactKeeps, StopKeeps, AnswerKeeps, BeginBatchKeeps DEF Model
  <1>2. CASE Tool
    <2>1. CASE WriteJournal
      BY <2>1, WriteJournalKeeps
    <2>2. ASSUME NEW k \in 1..MaxBatch, Call(k)
          PROVE  IInv'
      BY <2>2, RowActionsKeep, ApplyKeeps, LostCallKeeps DEF Call
    <2>3. ASSUME NEW identical \in BOOLEAN, NEW status \in {"none", "blocked"}, Consume(identical, status)
          PROVE  IInv'
      BY <2>3, ConsumeKeeps
    <2>4. QED
      BY <1>2, <2>1, <2>2, <2>3 DEF Tool
  <1>3. CASE Save
    BY <1>3, SaveCheckpointKeeps, ClearJournalKeeps, LetGoKeeps DEF Save
  <1>4. CASE Resume
    BY <1>4, LetGoKeeps, AcceptBoundaryKeeps, ContinueKeeps DEF Resume
  <1>5. CASE Start \/ Recover \/ ProcessDies \/ CancelRun
    BY <1>5, StartKeeps, RecoverKeeps, LetGoKeeps
  <1>6. CASE UserEdit \/ UNCHANGED vars
    BY <1>6, OtherKeeps
  <1>7. ASSUME NEW s \in Slots, LateWrite(s) PROVE IInv'
    BY <1>7, LateWriteKeeps
  <1>8. QED
    BY <1>1, <1>2, <1>3, <1>4, <1>5, <1>6, <1>7 DEF Next, Process

(* The inductive invariant holds in every behaviour of the run.            *)
THEOREM Invariant == Spec => [](IInv /\ Loose)
  <1>1. Init => Loose
    BY DEF Init, Loose
  <1>2. QED
    BY <1>1, InitHolds, Inductive, LooseSteps, PTL DEF Spec

(* Every variable keeps its type, for any limits and any tool set.         *)
THEOREM TypeCorrect == Spec => []TypeOK
  <1>1. IInv => TypeOK
    BY DEF IInv
  <1>2. QED
    BY <1>1, Invariant, PTL

(* No tool call of a round is invoked twice, however often the run is      *)
(* interrupted and resumed (agents/base.py, core/runtime.py).              *)
THEOREM CallsRunAtMostOnce == Spec => []AtMostOnce
  <1>1. IInv => AtMostOnce
    BY DEF IInv, Invoked, AtMostOnce
  <1>2. QED
    BY <1>1, Invariant, PTL

(* Every mutation is in a saved conversation or flagged in the journal:    *)
(* whoever reads the files after a crash never misses one.                 *)
THEOREM EffectsAreNeverSilent == Spec => []NoSilentEffect
  <1>1. IInv => NoSilentEffect
    BY DEF IInv, Accounted, NoSilentEffect
  <1>2. QED
    BY <1>1, Invariant, PTL

(* The model is asked for the next round only with a conversation that     *)
(* holds the result of exactly the mutations applied so far.               *)
THEOREM ConversationIsComplete == Spec => []ConversationMatchesWorkspace
  <1>1. IInv => ConversationMatchesWorkspace
    BY DEF IInv, Remembers, ConversationMatchesWorkspace
  <1>2. QED
    BY <1>1, Invariant, PTL

(* A step of a finished run changes neither its result nor its files, and  *)
(* invokes nothing.                                                        *)
LEMMA FinishedStep ==
  ASSUME IInv, [Next]_vars, final # "none"
  PROVE  UNCHANGED <<final, runs, checkpoints>>
  <1> USE DEF OnlyMemory, disk, history, memory
  <1>1. pc \in {"off", "done", "recovered"}
    BY DEF IInv, Lifetime
  <1>2. ~Model
    BY <1>1 DEF Model, Compact, ContextStop, GenerationFails, QuotaPause, TerminalResponse,
                FinalAnswer, RejectBatch, IterationLimit, BeginBatch, AtModel
  <1>3. ~Tool
    BY <1>1 DEF Tool, WriteJournal, Call, BlockCall, StartCall, ApplyCall, ReturnCall,
                UnknownOutcome, QuotaInTool, Consume, InFlight
  <1>4. ~Save /\ ~Start
    BY <1>1 DEF Save, SaveCheckpoint, ClearJournal, WriteFinal, Start
  <1>5. CASE Resume
    BY <1>1, <1>5 DEF Resume, ReturnSaved, RefuseBoundary, AcceptBoundary, RefuseFiles, Continue
  <1>6. CASE Recover \/ Interrupt \/ UserEdit \/ (\E s \in Slots : LateWrite(s)) \/ UNCHANGED vars
    BY <1>6 DEF Recover, Interrupt, UserEdit, LateWrite, vars
  <1>7. QED
    BY <1>2, <1>3, <1>4, <1>5, <1>6 DEF Next, Process, ProcessDies, CancelRun

(* A finished run stays finished, whatever process picks it up again: the  *)
(* coordinator returns the saved result (core/runtime.py).                 *)
THEOREM FinishedStaysFinished == Spec => FinishedRunIsFinal
  <1>1. IInv /\ [Next]_vars =>
          [final # "none" => final' = final /\ runs' = runs /\ checkpoints' = checkpoints]_vars
    BY FinishedStep
  <1>2. QED
    BY <1>1, Invariant, PTL DEF Spec, FinishedRunIsFinal
-----------------------------------------------------------------------------
(* What the steps do to the counters and to the verdict of the tests.       *)
LEMMA RecordedCounts ==
  ASSUME state \in States, NEW call \in Calls, NEW slot, NEW identical \in BOOLEAN, NEW r,
         r = Recorded(call, slot, identical)
  PROVE  /\ r.iteration = state.iteration
         /\ r.model_calls = state.model_calls
         /\ r.summary_calls = state.summary_calls
         /\ r.strategy_attempts = state.strategy_attempts
         /\ r.phase = state.phase
         /\ r.tool_calls_used = state.tool_calls_used + 1
         /\ r.test_runs = IF call.tool = "run_tests" THEN state.test_runs + 1 ELSE state.test_runs
         /\ r.tests_passed = IF call.tool = "run_tests" THEN call.status = "ok" ELSE state.tests_passed
         /\ r.shown = r.hash \/ state.shown # state.hash \/ call.tool = "grep"
  <1> USE DEF Recorded, States
  <1>1. r.iteration = state.iteration /\ r.model_calls = state.model_calls
    OBVIOUS
  <1>2. r.summary_calls = state.summary_calls /\ r.strategy_attempts = state.strategy_attempts
        /\ r.phase = state.phase
    OBVIOUS
  <1>3. r.tool_calls_used = state.tool_calls_used + 1
    OBVIOUS
  <1>4. r.test_runs = IF call.tool = "run_tests" THEN state.test_runs + 1 ELSE state.test_runs
    OBVIOUS
  <1>5. r.tests_passed = IF call.tool = "run_tests" THEN call.status = "ok" ELSE state.tests_passed
    OBVIOUS
  <1>6. r.shown = r.hash \/ state.shown # state.hash \/ call.tool = "grep"
    <2>1. /\ r.shown = IF call.status = "ok" /\ call.tool # "run_tests" THEN call.seen ELSE state.shown
          /\ r.hash = IF call.status = "ok" /\ call.tool # "run_tests" /\ Hashed(call.tool) THEN call.seen ELSE state.hash
      OBVIOUS
    <2>2. call.tool \in AllTools
      BY DEF Calls
    <2> HIDE DEF Recorded, States
    <2>3. QED
      BY <2>1, <2>2 DEF Hashed, AllTools
  <1>7. QED
    BY <1>1, <1>2, <1>3, <1>4, <1>5, <1>6

LEMMA RespondedCounts ==
  ASSUME state \in States, NEW r, r = Responded
  PROVE  /\ r.iteration = state.iteration + 1
         /\ r.model_calls = state.model_calls + 1
         /\ r.summary_calls = state.summary_calls
         /\ r.strategy_attempts = state.strategy_attempts
         /\ r.tool_calls_used = state.tool_calls_used
         /\ r.test_runs = state.test_runs
         /\ r.tests_passed = state.tests_passed
         /\ r.shown = state.shown /\ r.hash = state.hash
  BY DEF Responded, States

LEMMA FailedCounts ==
  ASSUME NEW s \in States, NEW r, r = Failed(s)
  PROVE  /\ r.iteration = s.iteration
         /\ r.model_calls = s.model_calls
         /\ r.summary_calls = s.summary_calls
         /\ r.strategy_attempts = s.strategy_attempts
         /\ r.tool_calls_used = s.tool_calls_used
         /\ r.test_runs = s.test_runs
         /\ r.tests_passed = s.tests_passed
         /\ r.shown = s.shown /\ r.hash = s.hash
  BY DEF Failed, States

LEMMA SavedCounts ==
  ASSUME NEW s \in States, NEW h, NEW r, r = [s EXCEPT !.hash = h]
  PROVE  /\ r.iteration = s.iteration /\ r.hash = h
         /\ r.model_calls = s.model_calls
         /\ r.summary_calls = s.summary_calls
         /\ r.strategy_attempts = s.strategy_attempts
         /\ r.tool_calls_used = s.tool_calls_used
         /\ r.test_runs = s.test_runs
         /\ r.tests_passed = s.tests_passed
         /\ r.shown = s.shown
  BY DEF States

LEMMA StrategyCounts ==
  ASSUME NEW s \in States, NEW r, r = [s EXCEPT !.strategy_attempts = @ + 1]
  PROVE  /\ r.iteration = s.iteration
         /\ r.model_calls = s.model_calls
         /\ r.summary_calls = s.summary_calls
         /\ r.strategy_attempts = s.strategy_attempts + 1
         /\ r.tool_calls_used = s.tool_calls_used
         /\ r.test_runs = s.test_runs
         /\ r.tests_passed = s.tests_passed
         /\ r.shown = s.shown /\ r.hash = s.hash
  BY DEF States

(* The calls of the batch that are tests and are not recorded yet.          *)
TestsLeft(calls, n) == {k \in DOMAIN calls : k >= n /\ calls[k].tool = "run_tests"}

LEMMA TestsLeftAreFinite ==
  ASSUME NEW n \in Nat, NEW calls, DOMAIN calls = 1..n, NEW i
  PROVE  IsFiniteSet(TestsLeft(calls, i)) /\ Cardinality(TestsLeft(calls, i)) \in Nat
  <1>1. IsFiniteSet(1..n) /\ TestsLeft(calls, i) \subseteq 1..n
    BY FS_Interval DEF TestsLeft
  <1>2. QED
    BY <1>1, FS_Subset, FS_CardinalityType

LEMMA OneTestLess ==
  ASSUME NEW n \in Nat, NEW calls, DOMAIN calls = 1..n, NEW i \in 1..n
  PROVE  Cardinality(TestsLeft(calls, i + 1)) =
           IF calls[i].tool = "run_tests" THEN Cardinality(TestsLeft(calls, i)) - 1
           ELSE Cardinality(TestsLeft(calls, i))
  <1>1. CASE calls[i].tool = "run_tests"
    <2>1. i \in TestsLeft(calls, i) /\ TestsLeft(calls, i + 1) = TestsLeft(calls, i) \ {i}
      BY <1>1 DEF TestsLeft
    <2>2. Cardinality(TestsLeft(calls, i)) \in Nat
      BY TestsLeftAreFinite
    <2>3. Cardinality(TestsLeft(calls, i) \ {i}) = Cardinality(TestsLeft(calls, i)) - 1
      BY <2>1, TestsLeftAreFinite, FS_RemoveElement
    <2>4. QED
      BY <1>1, <2>1, <2>2, <2>3
  <1>2. CASE calls[i].tool # "run_tests"
    <2>1. TestsLeft(calls, i + 1) = TestsLeft(calls, i)
      BY <1>2 DEF TestsLeft
    <2>2. Cardinality(TestsLeft(calls, i)) \in Nat
      BY TestsLeftAreFinite
    <2>3. QED
      BY <1>2, <2>1, <2>2
  <1>3. QED
    BY <1>1, <1>2

(* The counters of a boundary add up and respect the limits, and so they do *)
(* once the calls of the open batch are recorded.                           *)
Tally(s) ==
    /\ s.model_calls = s.iteration + s.summary_calls
    /\ s.tool_calls_used <= MaxToolCalls /\ s.test_runs <= MaxTestRuns

Tallied ==
    /\ \A c \in checkpoints : Tally(c)
    /\ pc \in {"model", "journal", "batch", "save", "clear", "checked"} => Tally(state)
    /\ pc \in {"journal", "batch"} =>
        /\ \A k \in DOMAIN batch : state.tool_calls_used + (k - next + 1) <= MaxToolCalls
        /\ state.test_runs + Cardinality(TestsLeft(batch, next)) <= MaxTestRuns

\* The process leaves the loop: only the saved files matter.
LEMMA TalliedAway ==
  ASSUME Tallied, pc' \notin {"model", "journal", "batch", "save", "clear", "checked"}, UNCHANGED checkpoints
  PROVE  Tallied'
  BY DEF Tallied, Tally

LEMMA TalliedAt ==
  ASSUME Tallied, pc' \notin {"journal", "batch"}, UNCHANGED checkpoints, Tally(state')
  PROVE  Tallied'
  BY DEF Tallied, Tally

\* The calls of the batch change, but not which tools they name.
LEMMA TalliedInBatch ==
  ASSUME Tallied, pc \in {"journal", "batch"}, pc' \in {"journal", "batch"}, UNCHANGED <<checkpoints, state, next>>,
         DOMAIN batch' = DOMAIN batch, \A k \in DOMAIN batch : batch'[k].tool = batch[k].tool
  PROVE  Tallied'
  <1>1. TestsLeft(batch', next') = TestsLeft(batch, next)
    BY DEF TestsLeft
  <1>2. QED
    BY <1>1 DEF Tallied, Tally

LEMMA TalliedModel == ASSUME IInv, Tallied, Model PROVE Tallied'
  <1>1. CASE Compact
    <2>1. /\ state'.iteration = state.iteration /\ state'.model_calls = state.model_calls + 1
          /\ state'.summary_calls = state.summary_calls + 1
          /\ state'.tool_calls_used = state.tool_calls_used /\ state'.test_runs = state.test_runs
      BY <1>1, AtModelFacts DEF Compact, States
    <2>2. Tally(state) /\ state \in States /\ pc' = "model" /\ UNCHANGED checkpoints
      BY <1>1, AtModelFacts DEF Compact, Tallied, OnlyMemory, disk
    <2>3. Tally(state')
      <3>1. state.model_calls \in Nat /\ state.iteration \in Nat /\ state.summary_calls \in Nat
        BY <2>2 DEF States
      <3>2. QED
        BY <2>1, <2>2, <3>1 DEF Tally
    <2>4. QED
      BY <2>2, <2>3, TalliedAt
  <1>2. CASE ContextStop \/ GenerationFails \/ RejectBatch \/ IterationLimit
    BY <1>2, TalliedAway DEF ContextStop, GenerationFails, RejectBatch, IterationLimit, Finish, OnlyMemory, disk
  <1>3. ASSUME AtModel
        PROVE  /\ state \in States /\ Responded \in States /\ Tally(state) /\ Tally(Responded)
               /\ Tally(Failed(Responded)) /\ Tally([Responded EXCEPT !.strategy_attempts = @ + 1])
    <2>1. state \in States /\ Responded \in States /\ Tally(state)
      BY <1>3, AtModelFacts DEF Tallied
    <2>2. Tally(Responded)
      <3>1. state.model_calls \in Nat /\ state.iteration \in Nat /\ state.summary_calls \in Nat
        BY <2>1 DEF States
      <3>2. QED
        BY <2>1, <3>1, RespondedCounts DEF Tally
    <2>3. QED
      BY <2>1, <2>2, FailedCounts, StrategyCounts DEF Tally
  <1>4. CASE QuotaPause \/ TerminalResponse
    BY <1>3, <1>4, TalliedAt DEF QuotaPause, TerminalResponse, Boundary, OnlyMemory, disk
  <1>5. ASSUME NEW incomplete \in BOOLEAN, NEW protected \in BOOLEAN, FinalAnswer(incomplete, protected)
        PROVE  Tallied'
    BY <1>3, <1>5, TalliedAt, TalliedAway DEF FinalAnswer, Boundary, Finish, OnlyMemory, disk
  <1>6. ASSUME NEW tools \in Batches, BeginBatch(tools) PROVE Tallied'
    <2>1. PICK n \in 1..MaxBatch : tools \in [1..n -> Tools]
      BY DEF Batches
    <2>2. AtModel /\ pc = "model" /\ pc' = "journal" /\ state' = Responded /\ UNCHANGED <<checkpoints, next>>
      BY <1>6, AtModelFacts DEF BeginBatch, OnlyMemory, disk
    <2>3. next = 1 /\ n \in Nat
      BY <2>2, ConstantsAssumption DEF IInv, Journaled
    <2>4. DOMAIN batch' = 1..n /\ \A k \in 1..n : batch'[k].tool = tools[k]
      BY <1>6, <2>1 DEF BeginBatch
    <2>5. TestsLeft(batch', 1) = {k \in DOMAIN tools : tools[k] = "run_tests"}
      BY <2>1, <2>4 DEF TestsLeft
    <2>6. Len(tools) = n
      BY <2>1, <2>3
    <2>7. state.tool_calls_used \in Nat /\ MaxToolCalls \in Nat
      BY <1>3, <2>2, ConstantsAssumption DEF States
    <2>8. /\ state'.tool_calls_used + n <= MaxToolCalls
          /\ state'.test_runs + Cardinality(TestsLeft(batch', 1)) <= MaxTestRuns
      BY <1>3, <1>6, <2>2, <2>5, <2>6, RespondedCounts DEF BeginBatch, Admitted
    <2>9. \A k \in 1..n : state'.tool_calls_used + (k - 1 + 1) <= MaxToolCalls
      <3>1. state'.tool_calls_used = state.tool_calls_used
        BY <1>3, <2>2, RespondedCounts
      <3>2. QED
        BY <2>3, <2>7, <2>8, <3>1
    <2>10. QED
      BY <1>3, <2>2, <2>3, <2>4, <2>8, <2>9 DEF Tallied, Tally
  <1>7. QED
    BY <1>1, <1>2, <1>4, <1>5, <1>6 DEF Model

LEMMA TalliedTool == ASSUME IInv, Tallied, Tool PROVE Tallied'
  <1>1. CASE WriteJournal
    BY <1>1, TalliedInBatch DEF WriteJournal, memory
  <1>2. ASSUME NEW k \in 1..MaxBatch, Call(k) PROVE Tallied'
    <2>1. CASE BlockCall(k) \/ StartCall(k) \/ ApplyCall(k) \/ \E ok \in BOOLEAN : ReturnCall(k, ok)
      <3>1. /\ pc = "batch" /\ pc' = "batch" /\ UNCHANGED <<checkpoints, state, next>>
            /\ \E status \in Statuses, seen \in Nat :
                 batch' \in {[batch EXCEPT ![k].status = status], [batch EXCEPT ![k].status = status, ![k].seen = seen]}
        <4>1. version \in Nat /\ InFlight(k)
          BY <2>1 DEF IInv, TypeOK, BlockCall, StartCall, ApplyCall, ReturnCall
        <4>2. QED
          BY <2>1, <4>1 DEF BlockCall, StartCall, ApplyCall, ReturnCall, InFlight, disk, Statuses
      <3>2. PICK n \in 0..MaxBatch : batch \in [1..n -> Calls]
        BY DEF IInv, TypeOK
      <3>3. DOMAIN batch' = DOMAIN batch /\ \A j \in DOMAIN batch : batch'[j].tool = batch[j].tool
        BY <3>1, <3>2 DEF Calls
      <3>4. QED
        BY <3>1, <3>3, TalliedInBatch
    <2>2. CASE UnknownOutcome(k) \/ QuotaInTool(k)
      BY <2>2, TalliedAway DEF UnknownOutcome, QuotaInTool, Detach
    <2>3. QED
      BY <1>2, <2>1, <2>2 DEF Call
  <1>3. ASSUME NEW identical \in BOOLEAN, NEW status \in {"none", "blocked"}, Consume(identical, status)
        PROVE  Tallied'
    <2> DEFINE s == Recorded(batch[next], <<state.iteration, next>>, identical)
    <2>1. /\ pc = "batch" /\ state \in States /\ next \in DOMAIN batch /\ UNCHANGED checkpoints
      BY <1>3 DEF IInv, TypeOK, Consume, Journaled, OnlyMemory, disk
    <2>2. PICK n \in 0..MaxBatch : batch \in [1..n -> Calls]
      BY DEF IInv, TypeOK
    <2>3. /\ s.iteration = state.iteration /\ s.model_calls = state.model_calls
          /\ s.summary_calls = state.summary_calls
          /\ s.tool_calls_used = state.tool_calls_used + 1
          /\ s.test_runs = IF batch[next].tool = "run_tests" THEN state.test_runs + 1 ELSE state.test_runs
      <3>1. batch[next] \in Calls
        BY <2>1, <2>2
      <3> HIDE DEF s
      <3>2. s = Recorded(batch[next], <<state.iteration, next>>, identical)
        BY DEF s
      <3>3. QED
        BY <2>1, <3>1, <3>2, RecordedCounts
    <2> HIDE DEF s
    <2>4. n \in Nat /\ next \in 1..n /\ DOMAIN batch = 1..n
      BY <2>1, <2>2, ConstantsAssumption
    <2>5. /\ state.tool_calls_used \in Nat /\ state.test_runs \in Nat /\ MaxToolCalls \in Nat /\ MaxTestRuns \in Nat
          /\ Cardinality(TestsLeft(batch, next)) \in Nat /\ Cardinality(TestsLeft(batch, next + 1)) \in Nat
      BY <2>1, <2>4, ConstantsAssumption, TestsLeftAreFinite DEF States
    <2>6. /\ Tally(state)
          /\ \A k \in 1..n : state.tool_calls_used + (k - next + 1) <= MaxToolCalls
          /\ state.test_runs + Cardinality(TestsLeft(batch, next)) <= MaxTestRuns
      BY <2>1, <2>4 DEF Tallied
    <2>7. s.test_runs + Cardinality(TestsLeft(batch, next + 1)) <= MaxTestRuns
      <3>1. Cardinality(TestsLeft(batch, next + 1)) =
              IF batch[next].tool = "run_tests" THEN Cardinality(TestsLeft(batch, next)) - 1
              ELSE Cardinality(TestsLeft(batch, next))
        BY <2>4, OneTestLess
      <3>2. QED
        BY <2>3, <2>5, <2>6, <3>1
    <2>8. s.tool_calls_used <= MaxToolCalls
      BY <2>3, <2>4, <2>5, <2>6
    <2>9. s.test_runs <= MaxTestRuns
      <3>1. s.test_runs \in Nat
        BY <2>3, <2>5
      <3>2. QED
        BY <2>5, <2>7, <3>1
    <2>10. Tally(s)
      BY <2>3, <2>6, <2>8, <2>9 DEF Tally
    <2>11. CASE pc' \in {"finish", "save"} /\ (pc' = "save" => state' = s)
      BY <2>1, <2>10, <2>11, TalliedAway, TalliedAt
    <2>12. CASE state' = s /\ next' = next + 1 /\ UNCHANGED <<pc, batch>>
      <3>1. \A k \in 1..n : s.tool_calls_used + (k - (next + 1) + 1) <= MaxToolCalls
        <4>1. SUFFICES ASSUME NEW k \in 1..n PROVE s.tool_calls_used + (k - (next + 1) + 1) <= MaxToolCalls
          OBVIOUS
        <4>2. /\ state.tool_calls_used + (k - next + 1) <= MaxToolCalls
              /\ s.tool_calls_used = state.tool_calls_used + 1
          BY <2>3, <2>6
        <4>3. state.tool_calls_used \in Int /\ MaxToolCalls \in Int /\ k \in Int /\ next \in Int
          BY <2>4, <2>5
        <4>4. QED
          BY <4>2, <4>3
      <3>2. QED
        BY <2>1, <2>4, <2>7, <2>10, <2>12, <3>1 DEF Tallied, Tally
    <2>13. QED
      BY <1>3, <2>11, <2>12 DEF Consume, Finish, Boundary, s
  <1>4. QED
    BY <1>1, <1>2, <1>3 DEF Tool

LEMMA TalliedSteps == IInv /\ Tallied /\ [Next]_vars => Tallied'
  <1> SUFFICES ASSUME IInv, Tallied, [Next]_vars PROVE Tallied'
    OBVIOUS
  <1>1. CASE Start
    <2>1. Tally(InitialState)
      BY ConstantsAssumption DEF Tally, InitialState
    <2>2. QED
      BY <1>1, <2>1, TalliedAt DEF Start, Boundary, OnlyMemory, disk
  <1>2. CASE SaveCheckpoint
    <2>1. state \in States /\ pc = "save" /\ pc' = "clear" /\ state' = state
      BY <1>2 DEF IInv, TypeOK, SaveCheckpoint, memory
    <2>2. Tally(state) /\ \A c \in checkpoints : Tally(c)
      BY <2>1 DEF Tallied
    <2>3. Tally([state EXCEPT !.hash = Fingerprint(state)])
      BY <2>1, <2>2, SavedCounts DEF Tally
    <2>4. \A c \in checkpoints' : Tally(c)
      BY <1>2, <2>2, <2>3 DEF SaveCheckpoint
    <2>5. QED
      BY <2>1, <2>2, <2>4 DEF Tallied, Tally
  <1>3. CASE ClearJournal
    <2>1. UNCHANGED checkpoints /\ Tally(state) /\ (pc' = "off" \/ (pc' \in {"model", "finish"} /\ state' = state))
      BY <1>3 DEF ClearJournal, Detach, memory, Tallied
    <2>2. QED
      BY <2>1, TalliedAway, TalliedAt
  <1>4. CASE WriteFinal \/ ReturnSaved \/ RefuseBoundary \/ RefuseFiles \/ Recover \/ Interrupt
    BY <1>4, TalliedAway DEF WriteFinal, ReturnSaved, RefuseBoundary, RefuseFiles, Recover, Interrupt, Detach,
                             OnlyMemory, disk
  <1>5. CASE AcceptBoundary
    <2>1. state' = state /\ UNCHANGED checkpoints /\ pc' = "checked" /\ Tally(state)
      BY <1>5 DEF AcceptBoundary, memory, IInv, Remembers, Tallied
    <2>2. QED
      BY <2>1, TalliedAt
  <1>6. CASE Continue
    BY <1>6, TalliedAt DEF Continue, memory, OnlyMemory, disk, Tallied
  <1>7. CASE UserEdit \/ (\E s \in Slots : LateWrite(s)) \/ UNCHANGED vars
    <2>1. UNCHANGED <<checkpoints, pc, state, batch, next>>
      BY <1>7 DEF UserEdit, LateWrite, vars, disk, memory
    <2>2. QED
      BY <2>1 DEF Tallied, Tally, TestsLeft
  <1>8. QED
    BY <1>1, <1>2, <1>3, <1>4, <1>5, <1>6, <1>7, TalliedModel, TalliedTool DEF Next, Process, Save, Resume, ProcessDies, CancelRun

(* Whatever interrupts the loop, each non-terminal boundary it saved passes *)
(* the validation of the next process, for any limits: no run locks itself  *)
(* out (agents/base.py validate_resume).                                    *)
THEOREM BoundariesAreResumable == Spec => []SavedBoundariesAreResumable
  <1>1. Init => Tallied
    BY DEF Init, Tallied
  <1>2. IInv /\ Tallied => SavedBoundariesAreResumable
    <2> SUFFICES ASSUME IInv, Tallied, NEW c \in checkpoints, c.phase # "failed" PROVE ValidBoundary(c)
      BY DEF SavedBoundariesAreResumable
    <2>1. c \in States /\ Tally(c)
      BY DEF IInv, TypeOK, Tallied
    <2>2. c.model_calls \in Nat /\ c.summary_calls \in Nat /\ c.iteration \in 0..MaxIterations
          /\ c.tool_calls_used \in Nat /\ c.test_runs \in Nat
      BY <2>1 DEF States
    <2>3. QED
      BY <2>1, <2>2, ConstantsAssumption DEF Tally, ValidBoundary
  <1>3. QED
    BY <1>1, <1>2, TalliedSteps, Invariant, PTL DEF Spec

-----------------------------------------------------------------------------
(* What the loop knows of the last test run.  A test is alone in its group: *)
(* it is the next call to be recorded, and those after it have not begun.   *)
Judged(s) == lastTest = "failed" => ~s.tests_passed

TestsAreAlone ==
    /\ InGroup(next)
    /\ \A k \in DOMAIN batch : k > next /\ batch[k].tool = "run_tests" => batch[k].status = "pending"
    /\ IF batch[next].tool = "run_tests" /\ batch[next].status \in {"ok", "failed"}
       THEN batch[next].status = "ok" => lastTest = "passed"
       ELSE Judged(state)

(* The boundary that a process would continue from has the verdict, unless  *)
(* the journal says that calls after it may have run.                       *)
VerdictIsSaved ==
    \A c \in checkpoints :
        pending.iteration <= c.iteration /\ (\A d \in checkpoints : d.iteration <= c.iteration) => Judged(c)

Verdict ==
    /\ pc = "new" => lastTest = "none"
    /\ pc \in {"model", "journal", "save", "clear", "checked"} => Judged(state)
    /\ pc = "batch" => TestsAreAlone
    /\ pc \in {"save", "clear"} => response # "completed"
    /\ pc = "finish" /\ response = "completed" => lastTest # "failed"
    /\ VerdictIsSaved
    /\ CompletedMeansTestsPass

LEMMA VerdictAway ==
  ASSUME Verdict, UNCHANGED <<checkpoints, lastTest>>, pending'.iteration = pending.iteration,
         \/ pc' \in {"off", "done", "recovered"} /\ (final' = final \/ (final' = "completed" => lastTest # "failed"))
         \/ pc' = "finish" /\ UNCHANGED final /\ (response' = "completed" => lastTest # "failed")
  PROVE  Verdict'
  BY DEF Verdict, VerdictIsSaved, Judged, CompletedMeansTestsPass

LEMMA VerdictAt ==
  ASSUME Verdict, UNCHANGED <<checkpoints, final, lastTest>>, pending'.iteration = pending.iteration,
         pc' \in {"model", "journal", "save", "clear", "checked"}, Judged(state'),
         pc' \in {"save", "clear"} => response' # "completed"
  PROVE  Verdict'
  BY DEF Verdict, VerdictIsSaved, Judged, CompletedMeansTestsPass

LEMMA VerdictModel == ASSUME IInv, Verdict, Model PROVE Verdict'
  <1>1. UNCHANGED <<checkpoints, pending, final, lastTest>>
    BY DEF Model, Compact, ContextStop, GenerationFails, QuotaPause, TerminalResponse, FinalAnswer, RejectBatch,
           IterationLimit, BeginBatch, OnlyMemory, disk, history
  <1>2. CASE Compact
    BY <1>1, <1>2, VerdictAt, AtModelFacts DEF Compact, Verdict, Judged, States
  <1>3. CASE ContextStop \/ GenerationFails \/ RejectBatch \/ IterationLimit
    BY <1>1, <1>3, VerdictAway DEF ContextStop, GenerationFails, RejectBatch, IterationLimit, Finish
  <1>4. ASSUME AtModel
        PROVE  /\ Judged(state) /\ Judged(Responded) /\ Judged(Failed(Responded))
               /\ Judged([Responded EXCEPT !.strategy_attempts = @ + 1])
    <2>1. state \in States /\ Responded \in States /\ Judged(state)
      BY <1>4, AtModelFacts DEF Verdict
    <2>2. QED
      BY <2>1, RespondedCounts, FailedCounts, StrategyCounts DEF Judged
  <1>5. CASE QuotaPause \/ TerminalResponse
    BY <1>1, <1>4, <1>5, VerdictAt DEF QuotaPause, TerminalResponse, Boundary
  <1>6. ASSUME NEW incomplete \in BOOLEAN, NEW protected \in BOOLEAN, FinalAnswer(incomplete, protected)
        PROVE  Verdict'
    <2>1. AtModel /\ state.tests_passed \in BOOLEAN
      BY <1>6, AtModelFacts DEF FinalAnswer, States
    <2>2. CASE Boundary([Responded EXCEPT !.strategy_attempts = @ + 1], "none")
      BY <1>1, <1>4, <2>1, <2>2, VerdictAt DEF Boundary
    <2>3. CASE Finish(Responded, IF incomplete \/ ~state.tests_passed THEN "failed" ELSE "completed")
      <3>1. response' = "completed" => state.tests_passed
        BY <2>3 DEF Finish
      <3>2. QED
        BY <1>1, <1>4, <2>1, <2>3, <3>1, VerdictAway DEF Finish, Judged
    <2>4. QED
      BY <1>6, <2>2, <2>3 DEF FinalAnswer
  <1>7. ASSUME NEW tools \in Batches, BeginBatch(tools) PROVE Verdict'
    BY <1>1, <1>4, <1>7, VerdictAt DEF BeginBatch
  <1>8. QED
    BY <1>2, <1>3, <1>5, <1>6, <1>7 DEF Model

\* While a round is open its journal covers whatever a test says.
LEMMA VerdictInBatch ==
  ASSUME IInv, Verdict, pc = "batch", pc' = "batch", UNCHANGED <<checkpoints, final>>,
         pending'.iteration = pending.iteration, TestsAreAlone'
  PROVE  Verdict'
  <1>1. \A c \in checkpoints : ~(pending.iteration <= c.iteration)
    BY DEF IInv, Journaled, Covered
  <1>2. VerdictIsSaved'
    BY <1>1 DEF VerdictIsSaved
  <1>3. final = "none"
    BY DEF IInv, Lifetime
  <1>4. QED
    BY <1>2, <1>3 DEF Verdict, CompletedMeansTestsPass

LEMMA CallInBatch ==
  ASSUME IInv, Verdict, NEW k \in 1..MaxBatch, InFlight(k), NEW status \in Statuses, NEW n \in Nat,
         DOMAIN batch = 1..n, DOMAIN batch' = 1..n, \A j \in 1..n : batch'[j].tool = batch[j].tool,
         batch'[k].status = status, \A j \in (1..n) \ {k} : batch'[j].status = batch[j].status,
         UNCHANGED <<checkpoints, final, pc, state, next, first>>, pending'.iteration = pending.iteration,
         \/ UNCHANGED lastTest /\ (batch[k].tool = "run_tests" => status # "ok" /\ batch[k].status \notin {"ok", "failed"})
         \/ batch[k].tool = "run_tests" /\ lastTest' = (IF status = "ok" THEN "passed" ELSE "failed")
              /\ status \in {"ok", "failed"}
  PROVE  Verdict'
  <1>1. pc = "batch" /\ TestsAreAlone /\ k \in 1..n /\ k >= next /\ next \in 1..n /\ first \in 1..next
    BY InFlightFacts DEF Verdict, IInv, Journaled, TypeOK
  <1>2. batch[k].tool = "run_tests" => k = next
    <2>1. k > first => Concurrent(batch[k].tool)
      BY <1>1 DEF InFlight, InGroup
    <2>2. QED
      BY <1>1, <2>1 DEF Concurrent
  <1>3. InGroup(next)'
    BY <1>1 DEF TestsAreAlone, InGroup
  <1>4. TestsAreAlone'
    BY <1>1, <1>2, <1>3 DEF TestsAreAlone, Judged
  <1>5. QED
    BY <1>1, <1>4, VerdictInBatch

LEMMA VerdictTool == ASSUME IInv, Verdict, Tool PROVE Verdict'
  <1>1. CASE WriteJournal
    <2>1. pc = "journal" /\ pc' = "batch" /\ UNCHANGED <<checkpoints, final, state, batch, next, lastTest>>
          /\ pending'.iteration = state.iteration
      BY <1>1 DEF WriteJournal, memory, history
    <2>6. InGroup(next)'
      <3>1. next = 1 /\ first = 1 /\ next \in DOMAIN batch
        BY <2>1 DEF IInv, Journaled
      <3>2. QED
        BY <1>1, <3>1 DEF InGroup, WriteJournal, memory
    <2>2. /\ \A k \in DOMAIN batch : batch[k].status = "pending"
          /\ next \in DOMAIN batch /\ Judged(state) /\ ~Covered(state.iteration)
      BY <2>1 DEF IInv, Journaled, Verdict
    <2>3. TestsAreAlone'
      BY <2>1, <2>2, <2>6 DEF TestsAreAlone, Judged
    <2>4. VerdictIsSaved'
      BY <2>1, <2>2 DEF VerdictIsSaved, Covered
    <2>5. QED
      BY <2>1, <2>3, <2>4 DEF Verdict, CompletedMeansTestsPass
  <1>2. ASSUME NEW k \in 1..MaxBatch, Call(k) PROVE Verdict'
    <2>1. InFlight(k) /\ state.iteration = pending.iteration /\ pending \in Journals
      BY <1>2, InFlightFacts DEF Call, BlockCall, StartCall, ApplyCall, ReturnCall, UnknownOutcome, QuotaInTool,
                                 IInv, TypeOK, Journals
    <2>2. PICK n \in 0..MaxBatch : batch \in [1..n -> Calls]
      BY DEF IInv, TypeOK
    <2>3. n \in Nat /\ k \in 1..n
      <3>1. k \in DOMAIN batch
        BY <2>1, InFlightFacts
      <3>2. QED
        BY <2>2, <3>1, ConstantsAssumption
    <2>4. ASSUME NEW row, Mark(k, row) PROVE pending'.iteration = pending.iteration
      BY <2>1, <2>4 DEF Mark, Journals
    <2>5. ASSUME NEW status \in Statuses, batch' = [batch EXCEPT ![k].status = status]
          PROVE  /\ DOMAIN batch' = 1..n /\ \A j \in 1..n : batch'[j].tool = batch[j].tool
                 /\ batch'[k].status = status /\ \A j \in (1..n) \ {k} : batch'[j].status = batch[j].status
      BY <2>2, <2>3, <2>5 DEF Calls
    <2>6. CASE BlockCall(k)
      <3>1. batch' = [batch EXCEPT ![k].status = "failed"] /\ batch[k].status = "pending" /\ UNCHANGED lastTest
            /\ UNCHANGED <<checkpoints, final, pc, state, next, first>> /\ Mark(k, "completed")
        BY <2>6 DEF BlockCall, history
      <3>2. QED
        BY <2>1, <2>2, <2>3, <2>4, <2>5, <3>1, CallInBatch DEF Statuses
    <2>7. CASE StartCall(k)
      <3>1. batch' = [batch EXCEPT ![k].status = "started"] /\ batch[k].status = "pending" /\ UNCHANGED lastTest
            /\ UNCHANGED <<checkpoints, final, pc, state, next, first>> /\ Mark(k, "started")
        BY <2>7 DEF StartCall
      <3>2. QED
        BY <2>1, <2>2, <2>3, <2>4, <2>5, <3>1, CallInBatch DEF Statuses
    <2>8. CASE ApplyCall(k)
      <3>1. /\ \E seen : batch' = [batch EXCEPT ![k].status = "applied", ![k].seen = seen]
            /\ batch[k].status = "started"
            /\ UNCHANGED <<checkpoints, final, pc, state, next, first, pending, lastTest>>
        BY <2>8 DEF ApplyCall, disk
      <3>2. /\ DOMAIN batch' = 1..n /\ \A j \in 1..n : batch'[j].tool = batch[j].tool
            /\ batch'[k].status = "applied" /\ \A j \in (1..n) \ {k} : batch'[j].status = batch[j].status
        BY <2>2, <2>3, <3>1 DEF Calls
      <3>3. QED
        BY <2>1, <2>2, <2>3, <3>1, <3>2, CallInBatch DEF Statuses
    <2>9. ASSUME NEW ok \in BOOLEAN, ReturnCall(k, ok) PROVE Verdict'
      <3>1. /\ batch' = [batch EXCEPT ![k].status = IF ok THEN "ok" ELSE "failed"]
            /\ batch[k].status \in {"started", "applied"}
            /\ UNCHANGED <<checkpoints, final, pc, state, next, first>> /\ Mark(k, "completed")
            /\ lastTest' = (IF batch[k].tool # "run_tests" THEN lastTest ELSE IF ok THEN "passed" ELSE "failed")
        BY <2>9 DEF ReturnCall
      <3>2. CASE ok
        BY <2>1, <2>2, <2>3, <2>4, <2>5, <3>1, <3>2, CallInBatch DEF Statuses
      <3>3. CASE ~ok
        BY <2>1, <2>2, <2>3, <2>4, <2>5, <3>1, <3>3, CallInBatch DEF Statuses
      <3>4. QED
        BY <3>2, <3>3
    <2>10. CASE UnknownOutcome(k) \/ QuotaInTool(k)
      BY <2>4, <2>10, VerdictAway DEF UnknownOutcome, QuotaInTool, Detach, history
    <2>11. QED
      BY <1>2, <2>6, <2>7, <2>8, <2>9, <2>10 DEF Call
  <1>3. ASSUME NEW identical \in BOOLEAN, NEW status \in {"none", "blocked"}, Consume(identical, status)
        PROVE  Verdict'
    <2> DEFINE s == Recorded(batch[next], <<state.iteration, next>>, identical)
    <2>1. /\ pc = "batch" /\ state \in States /\ next \in DOMAIN batch
          /\ UNCHANGED <<checkpoints, pending, final, lastTest>> /\ TestsAreAlone
      BY <1>3 DEF IInv, TypeOK, Consume, Journaled, OnlyMemory, disk, history, Verdict
    <2>2. PICK n \in 0..MaxBatch : batch \in [1..n -> Calls]
      BY DEF IInv, TypeOK
    <2>3. n \in Nat /\ next \in 1..n /\ batch[next] \in Calls
      BY <2>1, <2>2, ConstantsAssumption
    <2>4. s.tests_passed = IF batch[next].tool = "run_tests" THEN batch[next].status = "ok" ELSE state.tests_passed
      <3> HIDE DEF s
      <3>1. s = Recorded(batch[next], <<state.iteration, next>>, identical)
        BY DEF s
      <3>2. QED
        BY <2>1, <2>3, <3>1, RecordedCounts
    <2>5. batch[next].status \in {"ok", "failed"}
      <3>1. InFlight(next)
        BY <2>1, <2>3 DEF TestsAreAlone, InFlight
      <3>2. QED
        BY <1>3, <2>1, <3>1 DEF Consume
    <2>6. Judged(s)
      BY <2>1, <2>4, <2>5 DEF TestsAreAlone, Judged
    <2> HIDE DEF s
    <2>7. CASE Finish(Failed(s), "failed")
      BY <2>1, <2>7, VerdictAway DEF Finish
    <2>8. CASE Boundary(s, status)
      BY <2>1, <2>6, <2>8, VerdictAt DEF Boundary
    <2>9. CASE /\ next + 1 \in DOMAIN batch /\ state' = s /\ next' = next + 1 /\ UNCHANGED <<pc, batch>>
               /\ first' = IF InGroup(next + 1) THEN first ELSE next + 1
      <3>1. batch[next + 1].tool = "run_tests" => batch[next + 1].status = "pending"
        BY <2>1, <2>3, <2>9 DEF TestsAreAlone
      <3>2. \A k \in 1..n : k > next + 1 => k > next
        BY <2>3
      <3>3. InGroup(next)'
        BY <2>2, <2>3, <2>9 DEF InGroup
      <3>4. TestsAreAlone'
        BY <2>1, <2>2, <2>6, <2>9, <3>1, <3>2, <3>3 DEF TestsAreAlone, Judged
      <3>5. QED
        BY <2>1, <2>9, <3>4, VerdictInBatch
    <2>10. QED
      BY <1>3, <2>7, <2>8, <2>9 DEF Consume, s
  <1>4. QED
    BY <1>1, <1>2, <1>3 DEF Tool

LEMMA VerdictSave == ASSUME IInv, Verdict, SaveCheckpoint PROVE Verdict'
  <1> DEFINE saved == [state EXCEPT !.hash = Fingerprint(state)]
  <1>1. /\ pc = "save" /\ pc' = "clear" /\ state \in States /\ Judged(state)
        /\ checkpoints' = {c \in checkpoints : c.iteration # state.iteration} \union {saved}
        /\ UNCHANGED <<pending, final, state, response, lastTest>>
    BY DEF SaveCheckpoint, IInv, TypeOK, Verdict, memory, history
  <1>2. Judged(saved) /\ saved.iteration = state.iteration
    BY <1>1, SavedCounts DEF Judged
  <1>3. \A c \in checkpoints : c.iteration \in Nat /\ c.iteration <= state.iteration
    BY <1>1 DEF IInv, Based, TypeOK, States
  <1>4. state.iteration \in Nat
    BY <1>1 DEF States
  <1> HIDE DEF saved
  <1>5. \A c \in checkpoints' : (\A d \in checkpoints' : d.iteration <= c.iteration) => c = saved
    BY <1>1, <1>2, <1>3, <1>4
  <1>6. VerdictIsSaved'
    BY <1>1, <1>2, <1>5 DEF VerdictIsSaved, Judged
  <1>7. QED
    BY <1>1, <1>6 DEF Verdict, Judged, CompletedMeansTestsPass

\* A journal that the last boundary covers is forgotten: that boundary has the verdict.
LEMMA VerdictClear ==
  ASSUME IInv, Verdict, pending' = NoJournal, UNCHANGED <<checkpoints, final, lastTest>>,
         Covered(pending.iteration),
         pc' \in {"off", "model", "checked", "finish"},
         pc' \in {"model", "checked"} => Judged(state'),
         pc' = "finish" => response' # "completed"
  PROVE  Verdict'
  <1>1. VerdictIsSaved'
    <2>1. SUFFICES ASSUME NEW c \in checkpoints, \A d \in checkpoints : d.iteration <= c.iteration PROVE Judged(c)
      BY DEF VerdictIsSaved, Judged
    <2>2. /\ pending.iteration \in Nat /\ \A d \in checkpoints : d.iteration \in Nat
          /\ \E d \in checkpoints : pending.iteration <= d.iteration
      <3>1. pending \in [iteration : 0..MaxIterations, calls : RowLists] /\ checkpoints \subseteq States
        BY DEF IInv, TypeOK
      <3>2. QED
        BY <3>1 DEF States, Covered
    <2>3. pending.iteration <= c.iteration
      BY <2>1, <2>2
    <2>4. QED
      BY <2>1, <2>3 DEF Verdict, VerdictIsSaved
  <1>2. QED
    BY <1>1 DEF Verdict, Judged, CompletedMeansTestsPass

LEMMA VerdictSteps == IInv /\ Verdict /\ [Next]_vars => Verdict'
  <1> SUFFICES ASSUME IInv, Verdict, [Next]_vars PROVE Verdict'
    OBVIOUS
  <1>1. CASE Start
    <2>1. lastTest = "none" /\ UNCHANGED <<checkpoints, final, pending, lastTest>> /\ pc' = "save"
          /\ state' = InitialState /\ response' = "none"
      BY <1>1 DEF Start, Boundary, OnlyMemory, disk, history, Verdict
    <2>2. QED
      BY <2>1, VerdictAt DEF Judged
  <1>2. CASE ClearJournal
    <2>1. /\ pending' = NoJournal /\ UNCHANGED <<checkpoints, final, lastTest>> /\ Judged(state)
          /\ response # "completed" /\ pc = "clear"
      BY <1>2 DEF ClearJournal, history, Verdict
    <2>2. Covered(pending.iteration)
      <3>1. pending.iteration <= state.iteration /\ Covered(state.iteration)
        BY <2>1 DEF IInv, Journaled
      <3>2. pending.iteration \in Nat /\ state.iteration \in Nat /\ \A c \in checkpoints : c.iteration \in Nat
        BY DEF IInv, TypeOK, States
      <3>3. QED
        BY <3>1, <3>2 DEF Covered
    <2>3. pc' = "off" \/ (pc' \in {"model", "finish"} /\ state' = state /\ response' = response)
      BY <1>2 DEF ClearJournal, Detach, memory
    <2>4. QED
      <3>1. CASE pc' = "off"
        BY <2>1, <2>2, <3>1, VerdictClear
      <3>2. CASE pc' \in {"model", "finish"} /\ state' = state /\ response' = response
        <4>1. Judged(state') /\ response' # "completed"
          BY <2>1, <3>2
        <4>2. QED
          BY <2>1, <2>2, <3>2, <4>1, VerdictClear
      <3>3. QED
        BY <2>3, <3>1, <3>2
  <1>3. CASE AcceptBoundary
    <2>1. /\ pc = "recovered" /\ pc' = "checked" /\ pending' = NoJournal /\ ~Ambiguous(state) /\ state' = state
          /\ UNCHANGED <<checkpoints, final, lastTest>>
      BY <1>3 DEF AcceptBoundary, memory, history
    <2>2. state \in checkpoints /\ \A c \in checkpoints : c.iteration <= state.iteration
      BY <2>1 DEF IInv, Remembers
    <2>3. pending.iteration <= state.iteration
      BY <2>1 DEF Ambiguous, IInv, TypeOK, States
    <2>4. Judged(state) /\ Covered(pending.iteration)
      BY <2>2, <2>3 DEF Verdict, VerdictIsSaved, Covered
    <2>5. QED
      BY <2>1, <2>4, VerdictClear DEF Judged
  <1>4. CASE WriteFinal
    <2>1. pc = "finish" /\ pc' = "done" /\ final' = response /\ UNCHANGED <<checkpoints, pending, lastTest>>
      BY <1>4 DEF WriteFinal, Detach, history
    <2>2. QED
      BY <2>1, VerdictAway DEF Verdict
  <1>5. CASE ReturnSaved \/ RefuseBoundary \/ RefuseFiles \/ Recover \/ Interrupt
    BY <1>5, VerdictAway DEF ReturnSaved, RefuseBoundary, RefuseFiles, Recover, Interrupt, Detach,
                             OnlyMemory, disk, history
  <1>6. CASE Continue
    BY <1>6, VerdictAt DEF Continue, memory, OnlyMemory, disk, history, Verdict
  <1>7. CASE UserEdit \/ (\E s \in Slots : LateWrite(s)) \/ UNCHANGED vars
    <2>1. UNCHANGED <<checkpoints, pending, final, pc, state, batch, next, first, response, lastTest>>
      BY <1>7 DEF UserEdit, LateWrite, vars, disk, memory, history
    <2>2. QED
      BY <2>1 DEF Verdict, TestsAreAlone, InGroup, Judged, VerdictIsSaved, CompletedMeansTestsPass
  <1>8. QED
    BY <1>1, <1>2, <1>3, <1>4, <1>5, <1>6, <1>7, VerdictModel, VerdictTool, VerdictSave DEF Next, Process, Save, Resume, ProcessDies, CancelRun

(* A run is reported as completed only if the last test run that finished,  *)
(* in whatever process, did not fail (agents/base.py, core/runtime.py).     *)
THEOREM CompletedRunsPassed == Spec => []CompletedMeansTestsPass
  <1>1. Init => Verdict
    BY DEF Init, Verdict, VerdictIsSaved, CompletedMeansTestsPass
  <1>2. Verdict => CompletedMeansTestsPass
    BY DEF Verdict
  <1>3. QED
    BY <1>1, <1>2, VerdictSteps, Invariant, PTL DEF Spec

-----------------------------------------------------------------------------
(* What is saved again is what was saved: a round has one boundary, and the *)
(* loop comes back to it with the same counters; unless grep is a tool, it  *)
(* knows the digest of what the model was shown.                            *)
SameCounts(c, s) ==
    /\ c.tool_calls_used = s.tool_calls_used /\ c.test_runs = s.test_runs
    /\ c.strategy_attempts = s.strategy_attempts

Digested(s) == "grep" \notin Tools => s.shown = s.hash

Resaved ==
    /\ \A c, d \in checkpoints : c.iteration = d.iteration => c = d
    /\ \A c \in checkpoints : Digested(c)
    /\ pc \in {"model", "journal", "batch", "save", "clear", "recovered", "checked"} => Digested(state)
    /\ pc \in {"model", "save", "clear", "recovered", "checked"} =>
        \A c \in checkpoints : c.iteration = state.iteration => SameCounts(c, state)
    /\ pc \in {"journal", "batch"} => \A k \in DOMAIN batch : batch[k].tool \in Tools

LEMMA ResavedAway ==
  ASSUME Resaved, UNCHANGED checkpoints, pc' \in {"off", "done", "finish"}
  PROVE  Resaved'
  BY DEF Resaved, Digested, SameCounts

LEMMA ResavedAt ==
  ASSUME Resaved, UNCHANGED checkpoints, pc' \in {"model", "save", "clear", "recovered", "checked"}, Digested(state'),
         \A c \in checkpoints : c.iteration = state'.iteration => SameCounts(c, state')
  PROVE  Resaved'
  BY DEF Resaved, Digested, SameCounts

LEMMA ResavedInBatch ==
  ASSUME Resaved, UNCHANGED checkpoints, pc \in {"journal", "batch"}, pc' \in {"journal", "batch"}, Digested(state'),
         DOMAIN batch' = DOMAIN batch, \A k \in DOMAIN batch : batch'[k].tool = batch[k].tool
  PROVE  Resaved'
  BY DEF Resaved, Digested, SameCounts

LEMMA ResavedModel == ASSUME IInv, Resaved, Model PROVE Resaved'
  <1>1. UNCHANGED checkpoints
    BY DEF Model, Compact, ContextStop, GenerationFails, QuotaPause, TerminalResponse, FinalAnswer, RejectBatch,
           IterationLimit, BeginBatch, OnlyMemory, disk
  <1>2. ASSUME AtModel
        PROVE  /\ state \in States /\ Responded \in States /\ pc = "model" /\ Digested(state) /\ Digested(Responded)
               /\ \A c \in checkpoints : c.iteration = state.iteration => SameCounts(c, state)
               /\ Responded.iteration = state.iteration + 1
               /\ \A c \in checkpoints : c.iteration # state.iteration + 1
    <2>1. /\ state \in States /\ Responded \in States /\ pc = "model" /\ state.iteration \in Nat
          /\ Responded.iteration = state.iteration + 1
          /\ \A c \in checkpoints : c.iteration \in Nat /\ c.iteration <= state.iteration
      BY <1>2, AtModelFacts
    <2>2. Digested(state) /\ \A c \in checkpoints : c.iteration = state.iteration => SameCounts(c, state)
      BY <2>1 DEF Resaved
    <2>3. Digested(Responded)
      BY <2>1, <2>2, RespondedCounts DEF Digested
    <2>4. QED
      BY <2>1, <2>2, <2>3
  <1>3. CASE Compact
    <2>1. AtModel /\ pc' = "model"
      BY <1>3, AtModelFacts DEF Compact
    <2>2. /\ state'.iteration = state.iteration /\ state'.shown = state.shown /\ state'.hash = state.hash
          /\ state'.tool_calls_used = state.tool_calls_used /\ state'.test_runs = state.test_runs
          /\ state'.strategy_attempts = state.strategy_attempts
      BY <1>2, <1>3, <2>1 DEF Compact, States
    <2>3. Digested(state') /\ \A c \in checkpoints : c.iteration = state'.iteration => SameCounts(c, state')
      BY <1>2, <2>1, <2>2 DEF Digested, SameCounts
    <2>4. QED
      BY <1>1, <2>1, <2>3, ResavedAt
  <1>4. CASE ContextStop \/ GenerationFails \/ RejectBatch \/ IterationLimit
    BY <1>1, <1>4, ResavedAway DEF ContextStop, GenerationFails, RejectBatch, IterationLimit, Finish
  <1>5. CASE QuotaPause
    BY <1>1, <1>2, <1>5, ResavedAt DEF QuotaPause, Boundary
  <1>6. ASSUME NEW s \in {Failed(Responded), [Responded EXCEPT !.strategy_attempts = @ + 1]}, AtModel,
               pc' = "save", state' = s
        PROVE  Resaved'
    <2>1. s.iteration = Responded.iteration /\ s.shown = Responded.shown /\ s.hash = Responded.hash
      BY <1>2, <1>6, FailedCounts, StrategyCounts
    <2>2. Digested(s) /\ \A c \in checkpoints : c.iteration # s.iteration
      BY <1>2, <1>6, <2>1 DEF Digested
    <2>3. QED
      BY <1>1, <1>6, <2>2, ResavedAt
  <1>7. CASE TerminalResponse
    BY <1>6, <1>7 DEF TerminalResponse, Boundary
  <1>8. ASSUME NEW incomplete \in BOOLEAN, NEW protected \in BOOLEAN, FinalAnswer(incomplete, protected)
        PROVE  Resaved'
    BY <1>1, <1>6, <1>8, ResavedAway DEF FinalAnswer, Boundary, Finish
  <1>9. ASSUME NEW tools \in Batches, BeginBatch(tools) PROVE Resaved'
    <2>1. PICK n \in 1..MaxBatch : tools \in [1..n -> Tools]
      BY DEF Batches
    <2>2. AtModel /\ pc' = "journal" /\ state' = Responded
      BY <1>9 DEF BeginBatch
    <2>3. \A k \in DOMAIN batch' : batch'[k].tool \in Tools
      BY <1>9, <2>1 DEF BeginBatch
    <2>4. QED
      BY <1>1, <1>2, <2>2, <2>3 DEF Resaved, Digested
  <1>10. QED
    BY <1>3, <1>4, <1>5, <1>7, <1>8, <1>9 DEF Model

LEMMA ResavedTool == ASSUME IInv, Resaved, Tool PROVE Resaved'
  <1>1. CASE WriteJournal
    BY <1>1, ResavedInBatch DEF WriteJournal, memory, Resaved
  <1>2. ASSUME NEW k \in 1..MaxBatch, Call(k) PROVE Resaved'
    <2>1. CASE BlockCall(k) \/ StartCall(k) \/ ApplyCall(k) \/ \E ok \in BOOLEAN : ReturnCall(k, ok)
      <3>1. /\ pc = "batch" /\ pc' = "batch" /\ UNCHANGED <<checkpoints, state>>
            /\ \E status \in Statuses, seen \in Nat :
                 batch' \in {[batch EXCEPT ![k].status = status], [batch EXCEPT ![k].status = status, ![k].seen = seen]}
        <4>1. version \in Nat /\ InFlight(k)
          BY <2>1 DEF IInv, TypeOK, BlockCall, StartCall, ApplyCall, ReturnCall
        <4>2. QED
          BY <2>1, <4>1 DEF BlockCall, StartCall, ApplyCall, ReturnCall, InFlight, disk, Statuses
      <3>2. PICK n \in 0..MaxBatch : batch \in [1..n -> Calls]
        BY DEF IInv, TypeOK
      <3>3. DOMAIN batch' = DOMAIN batch /\ \A j \in DOMAIN batch : batch'[j].tool = batch[j].tool
        BY <3>1, <3>2 DEF Calls
      <3>4. Digested(state')
        BY <3>1 DEF Resaved, Digested
      <3>5. QED
        BY <3>1, <3>3, <3>4, ResavedInBatch
    <2>2. CASE UnknownOutcome(k) \/ QuotaInTool(k)
      BY <2>2, ResavedAway DEF UnknownOutcome, QuotaInTool, Detach
    <2>3. QED
      BY <1>2, <2>1, <2>2 DEF Call
  <1>3. ASSUME NEW identical \in BOOLEAN, NEW status \in {"none", "blocked"}, Consume(identical, status)
        PROVE  Resaved'
    <2> DEFINE s == Recorded(batch[next], <<state.iteration, next>>, identical)
    <2>1. /\ pc = "batch" /\ state \in States /\ next \in DOMAIN batch /\ UNCHANGED checkpoints
          /\ Digested(state) /\ batch[next].tool \in Tools /\ ~Covered(state.iteration)
      BY <1>3 DEF IInv, TypeOK, Consume, Journaled, OnlyMemory, disk, Resaved
    <2>2. PICK n \in 0..MaxBatch : batch \in [1..n -> Calls]
      BY DEF IInv, TypeOK
    <2>3. s.iteration = state.iteration /\ Digested(s)
      <3>1. batch[next] \in Calls
        BY <2>1, <2>2
      <3> HIDE DEF s
      <3>2. s = Recorded(batch[next], <<state.iteration, next>>, identical)
        BY DEF s
      <3>3. QED
        BY <2>1, <3>1, <3>2, RecordedCounts DEF Digested
    <2> HIDE DEF s
    <2>4. \A c \in checkpoints : c.iteration # s.iteration
      BY <2>1, <2>3 DEF Covered, States
    <2>5. CASE Finish(Failed(s), "failed")
      BY <2>1, <2>5, ResavedAway DEF Finish
    <2>6. CASE Boundary(s, status)
      BY <2>1, <2>3, <2>4, <2>6, ResavedAt DEF Boundary
    <2>7. CASE state' = s /\ UNCHANGED <<pc, batch>>
      BY <2>1, <2>3, <2>7, ResavedInBatch
    <2>8. QED
      BY <1>3, <2>5, <2>6, <2>7 DEF Consume, s
  <1>4. QED
    BY <1>1, <1>2, <1>3 DEF Tool

LEMMA ResavedSteps == IInv /\ Resaved /\ [Next]_vars => Resaved'
  <1> SUFFICES ASSUME IInv, Resaved, [Next]_vars PROVE Resaved'
    OBVIOUS
  <1>1. CASE Start
    <2>1. UNCHANGED checkpoints /\ pc' = "save" /\ state' = InitialState /\ checkpoints = {} /\ Digested(InitialState)
      BY <1>1 DEF Start, Boundary, OnlyMemory, disk, IInv, Lifetime, Digested, InitialState
    <2>2. QED
      BY <2>1, ResavedAt
  <1>2. CASE SaveCheckpoint
    <2> DEFINE saved == [state EXCEPT !.hash = Fingerprint(state)]
    <2>1. /\ pc' = "clear" /\ state \in States /\ Digested(state) /\ state' = state
          /\ checkpoints' = {c \in checkpoints : c.iteration # state.iteration} \union {saved}
      BY <1>2 DEF SaveCheckpoint, IInv, TypeOK, Resaved, memory
    <2>2. /\ saved.iteration = state.iteration /\ SameCounts(saved, state)
          /\ saved.shown = state.shown /\ saved.hash = Fingerprint(state)
      BY <2>1, SavedCounts DEF SameCounts
    <2> HIDE DEF saved
    <2>3. Digested(saved)
      BY <2>1, <2>2 DEF Digested, Fingerprint
    <2>4. /\ \A c, d \in checkpoints' : c.iteration = d.iteration => c = d
          /\ \A c \in checkpoints' : Digested(c)
          /\ \A c \in checkpoints' : c.iteration = state.iteration => SameCounts(c, state)
      BY <2>1, <2>2, <2>3 DEF Resaved
    <2>5. QED
      BY <2>1, <2>4 DEF Resaved, Digested, SameCounts
  <1>3. CASE ClearJournal
    <2>1. UNCHANGED checkpoints /\ pc = "clear" /\ (pc' = "off" \/ (pc' \in {"model", "finish"} /\ state' = state))
      BY <1>3 DEF ClearJournal, Detach, memory
    <2>2. Digested(state) /\ \A c \in checkpoints : c.iteration = state.iteration => SameCounts(c, state)
      BY <2>1 DEF Resaved
    <2>3. QED
      BY <2>1, <2>2, ResavedAway, ResavedAt
  <1>4. CASE WriteFinal \/ ReturnSaved \/ RefuseBoundary \/ RefuseFiles \/ Interrupt
    BY <1>4, ResavedAway DEF WriteFinal, ReturnSaved, RefuseBoundary, RefuseFiles, Interrupt, Detach,
                             OnlyMemory, disk
  <1>5. CASE Recover
    <2>1. UNCHANGED checkpoints /\ pc' = "recovered" /\ state' \in checkpoints
      BY <1>5, LatestFacts DEF Recover, OnlyMemory, disk
    <2>2. Digested(state') /\ \A c \in checkpoints : c.iteration = state'.iteration => SameCounts(c, state')
      BY <2>1 DEF Resaved, SameCounts
    <2>3. QED
      BY <2>1, <2>2, ResavedAt
  <1>6. CASE AcceptBoundary \/ Continue
    <2>1. UNCHANGED <<checkpoints, state>> /\ pc \in {"recovered", "checked"} /\ pc' \in {"model", "checked"}
      BY <1>6 DEF AcceptBoundary, Continue, memory, OnlyMemory, disk
    <2>2. Digested(state') /\ \A c \in checkpoints : c.iteration = state'.iteration => SameCounts(c, state')
      BY <2>1 DEF Resaved, Digested, SameCounts
    <2>3. QED
      BY <2>1, <2>2, ResavedAt
  <1>7. CASE UserEdit \/ (\E s \in Slots : LateWrite(s)) \/ UNCHANGED vars
    <2>1. UNCHANGED <<checkpoints, pc, state, batch>>
      BY <1>7 DEF UserEdit, LateWrite, vars, disk, memory
    <2>2. QED
      BY <2>1 DEF Resaved, Digested, SameCounts
  <1>8. QED
    BY <1>1, <1>2, <1>3, <1>4, <1>5, <1>6, <1>7, ResavedModel, ResavedTool DEF Next, Process, Save, Resume, ProcessDies, CancelRun

(* What is saved again, in every behaviour of the run.                      *)
THEOREM ResavedInvariant == Spec => []Resaved
  <1>1. Init => Resaved
    BY DEF Init, Resaved
  <1>2. QED
    BY <1>1, ResavedSteps, Invariant, PTL DEF Spec

LEMMA ProgressStep ==
  ASSUME IInv, Resaved, [Next]_vars, checkpoints # {}
  PROVE  /\ checkpoints' # {}
         /\ \A c \in checkpoints : \E d \in checkpoints' :
              /\ d.iteration >= c.iteration
              /\ d.tool_calls_used >= c.tool_calls_used
              /\ d.strategy_attempts >= c.strategy_attempts
              /\ c.known \subseteq d.known
              /\ d.iteration = c.iteration => d.test_runs = c.test_runs
  <1>0. checkpoints \subseteq States
    BY DEF IInv, TypeOK
  <1>1. CASE SaveCheckpoint
    <2> DEFINE saved == [state EXCEPT !.hash = Fingerprint(state)]
    <2>1. /\ pc = "save" /\ state \in States /\ Based
          /\ checkpoints' = {c \in checkpoints : c.iteration # state.iteration} \union {saved}
      BY <1>1 DEF SaveCheckpoint, IInv, TypeOK
    <2>2. /\ saved.iteration = state.iteration /\ saved.known = state.known /\ SameCounts(saved, state)
      BY <2>1, SavedCounts DEF SameCounts, States
    <2> HIDE DEF saved
    <2>3. ASSUME NEW c \in checkpoints
          PROVE  \E d \in checkpoints' :
              /\ d.iteration >= c.iteration
              /\ d.tool_calls_used >= c.tool_calls_used
              /\ d.strategy_attempts >= c.strategy_attempts
              /\ c.known \subseteq d.known
              /\ d.iteration = c.iteration => d.test_runs = c.test_runs
      <3>1. c.iteration \in Nat /\ c.tool_calls_used \in Nat /\ c.strategy_attempts \in Nat
        BY <1>0 DEF States
      <3>2. CASE c.iteration # state.iteration
        BY <2>1, <3>1, <3>2
      <3>3. CASE c.iteration = state.iteration
        <4>1. SameCounts(c, state) /\ c.known \subseteq state.known
          BY <2>1, <3>3 DEF Resaved, Based
        <4>2. saved \in checkpoints'
          BY <2>1
        <4>3. QED
          BY <2>2, <3>1, <3>3, <4>1, <4>2 DEF SameCounts
      <3>4. QED
        BY <3>2, <3>3
    <2>4. QED
      BY <2>1, <2>3
  <1>2. CASE ~SaveCheckpoint
    <2>1. UNCHANGED checkpoints
      <3>1. CASE Model
        BY <3>1 DEF Model, Compact, ContextStop, GenerationFails, QuotaPause, TerminalResponse, FinalAnswer,
                    RejectBatch, IterationLimit, BeginBatch, OnlyMemory, disk
      <3>2. CASE Tool
        BY <3>2 DEF Tool, WriteJournal, Call, BlockCall, StartCall, ApplyCall, ReturnCall, UnknownOutcome,
                    QuotaInTool, Consume, OnlyMemory, disk
      <3>3. CASE Save \/ Resume
        BY <1>2, <3>3 DEF Save, ClearJournal, WriteFinal, Resume, ReturnSaved, RefuseBoundary, AcceptBoundary,
                          RefuseFiles, Continue, OnlyMemory, disk
      <3>4. QED
        BY <3>1, <3>2, <3>3 DEF Next, Process, Start, Recover, ProcessDies, CancelRun, Interrupt, UserEdit, LateWrite, OnlyMemory, disk, vars
    <2>2. \A c \in checkpoints : c.iteration \in Nat /\ c.tool_calls_used \in Nat /\ c.strategy_attempts \in Nat
      BY <1>0 DEF States
    <2>3. QED
      BY <2>1, <2>2
  <1>3. QED
    BY <1>1, <1>2

(* However often a run is interrupted and resumed, the last boundary on     *)
(* disk never goes back: no round, call, strategy or effect is regained.    *)
THEOREM ProgressStays == Spec => ProgressIsNeverLost
  <1>1. IInv /\ Resaved /\ [Next]_vars =>
          [ checkpoints # {} =>
              /\ checkpoints' # {}
              /\ \A c \in checkpoints : \E d \in checkpoints' :
                   /\ d.iteration >= c.iteration
                   /\ d.tool_calls_used >= c.tool_calls_used
                   /\ d.strategy_attempts >= c.strategy_attempts
                   /\ c.known \subseteq d.known
                   /\ d.iteration = c.iteration => d.test_runs = c.test_runs ]_vars
    BY ProgressStep
  <1>2. QED
    BY <1>1, Invariant, ResavedInvariant, PTL DEF Spec, ProgressIsNeverLost

(* Without grep, whose digests are not recorded, a run goes on only with    *)
(* the content the model was shown (validate_resume compares the hashes).   *)
THEOREM RunsContinueOnCurrentFiles ==
  ASSUME "grep" \notin Tools
  PROVE  Spec => ContinuesOnCurrentFiles
  <1>1. IInv /\ Resaved /\ [Next]_vars => [pc = "checked" /\ pc' = "model" => state.shown \in {0, version}]_vars
    <2> SUFFICES ASSUME IInv, Resaved, Next, pc = "checked", pc' = "model" PROVE state.shown \in {0, version}
      OBVIOUS
    <2>1. state.shown = state.hash
      BY DEF Resaved, Digested
    <2>2. CASE Continue
      BY <2>1, <2>2 DEF Continue
    <2>3. CASE ~Continue
      <3>1. ~Model
        BY DEF Model, Compact, ContextStop, GenerationFails, QuotaPause, TerminalResponse,
                    FinalAnswer, RejectBatch, IterationLimit, BeginBatch, AtModel
      <3>2. ~Tool
        BY DEF Tool, WriteJournal, Call, BlockCall, StartCall, ApplyCall, ReturnCall,
                    UnknownOutcome, QuotaInTool, Consume, InFlight
      <3>3. QED
        BY <2>3, <3>1, <3>2 DEF Next, Process, Save, SaveCheckpoint, ClearJournal, WriteFinal, Start, Resume, ReturnSaved,
              RefuseBoundary, AcceptBoundary, RefuseFiles, Recover, ProcessDies, CancelRun, Interrupt, UserEdit, LateWrite, Detach
    <2>4. QED
      BY <2>2, <2>3
  <1>2. QED
    BY <1>1, Invariant, ResavedInvariant, PTL DEF Spec, ContinuesOnCurrentFiles

-----------------------------------------------------------------------------
(* The run implements atomic rounds.  First: an effect has a call that did  *)
(* its work, so that none is applied twice.                                 *)
EffectsAreCalled ==
    /\ \A s \in effects \union threads : runs[s] > 0
    /\ effects \intersect threads = {}
    /\ pc = "batch" =>
        \A k \in DOMAIN batch :
            /\ batch[k].status \in {"pending", "started"} => <<state.iteration, k>> \notin effects
            /\ batch[k].status = "started" => runs[<<state.iteration, k>>] > 0

LEMMA CalledAway ==
  ASSUME EffectsAreCalled, UNCHANGED <<effects, runs>>, threads' \subseteq threads, pc' # "batch"
  PROVE  EffectsAreCalled'
  BY DEF EffectsAreCalled

LEMMA CalledInBatch ==
  ASSUME IInv, Loose, EffectsAreCalled, NEW k \in 1..MaxBatch, Call(k)
  PROVE  EffectsAreCalled'
  <1>1. CASE UnknownOutcome(k) \/ QuotaInTool(k)
    BY <1>1, CalledAway DEF UnknownOutcome, QuotaInTool, Detach, history
  <1>2. CASE BlockCall(k) \/ StartCall(k) \/ ApplyCall(k) \/ \E ok \in BOOLEAN : ReturnCall(k, ok)
    <2> DEFINE slot == <<state.iteration, k>>
    <2>1. InFlight(k)
      BY <1>2 DEF BlockCall, StartCall, ApplyCall, ReturnCall
    <2>2. pc = "batch" /\ slot \in Slots /\ runs \in [Slots -> Nat] /\ effects \subseteq Slots
      BY <2>1, InFlightFacts DEF TypeOK
    <2>3. PICK n \in 0..MaxBatch : batch \in [1..n -> Calls]
      BY DEF IInv, TypeOK
    <2>4. k \in 1..n /\ state.iteration \in 1..MaxIterations
      BY <2>1, <2>3, InFlightFacts
    <2>5. \A j \in (1..n) \ {k} : <<state.iteration, j>> # slot
      OBVIOUS
    <2>6. \A j \in 1..n : /\ batch[j].status \in {"pending", "started"} => <<state.iteration, j>> \notin effects
                          /\ batch[j].status = "started" => runs[<<state.iteration, j>>] > 0
      BY <2>2, <2>3 DEF EffectsAreCalled
    <2>7. (\A s \in effects : runs[s] > 0) /\ threads = {} /\ threads' = {}
      BY <1>2, <2>2 DEF EffectsAreCalled, Loose, BlockCall, StartCall, ApplyCall, ReturnCall
    <2> HIDE DEF slot
    <2>8. CASE BlockCall(k) \/ \E ok \in BOOLEAN : ReturnCall(k, ok)
      <3>1. /\ UNCHANGED <<pc, state, runs, effects>>
            /\ \E status \in {"ok", "failed"} : batch' = [batch EXCEPT ![k].status = status]
        BY <2>8 DEF BlockCall, ReturnCall, history
      <3>2. /\ batch'[k].status \in {"ok", "failed"} /\ DOMAIN batch' = 1..n
            /\ \A j \in (1..n) \ {k} : batch'[j].status = batch[j].status
        BY <2>3, <2>4, <3>1 DEF Calls
      <3>3. QED
        BY <2>6, <2>7, <3>1, <3>2 DEF EffectsAreCalled
    <2>9. CASE StartCall(k)
      <3>1. /\ UNCHANGED <<pc, state, effects>> /\ runs' = [runs EXCEPT ![slot] = @ + 1]
            /\ batch' = [batch EXCEPT ![k].status = "started"] /\ batch[k].status = "pending"
        BY <2>9 DEF StartCall, slot
      <3>2. /\ batch'[k].status = "started" /\ DOMAIN batch' = 1..n
            /\ \A j \in (1..n) \ {k} : batch'[j].status = batch[j].status
        BY <2>3, <2>4, <3>1 DEF Calls
      <3>3. runs'[slot] > 0 /\ \A s \in Slots : runs[s] > 0 => runs'[s] > 0
        BY <2>2, <3>1
      <3>4. \A j \in 1..n : <<state.iteration, j>> \in Slots
        BY <2>4, <2>3, ConstantsAssumption DEF Slots
      <3>5. slot \notin effects
        BY <2>4, <2>6, <3>1 DEF slot
      <3>6. ASSUME NEW j \in 1..n
            PROVE  /\ batch'[j].status \in {"pending", "started"} => <<state.iteration, j>> \notin effects
                   /\ batch'[j].status = "started" => runs'[<<state.iteration, j>>] > 0
        <4>1. CASE j = k
          BY <3>3, <3>5, <4>1 DEF slot
        <4>2. CASE j # k
          BY <2>6, <3>2, <3>3, <3>4, <4>2
        <4>3. QED
          BY <4>1, <4>2
      <3>7. QED
        BY <2>2, <2>7, <3>1, <3>2, <3>3, <3>6 DEF EffectsAreCalled
    <2>10. CASE ApplyCall(k)
      <3>1. /\ UNCHANGED <<pc, state, runs>> /\ effects' \subseteq effects \union {slot} /\ batch[k].status = "started"
            /\ \E seen : batch' = [batch EXCEPT ![k].status = "applied", ![k].seen = seen]
        BY <2>10 DEF ApplyCall, slot
      <3>2. /\ batch'[k].status = "applied" /\ DOMAIN batch' = 1..n
            /\ \A j \in (1..n) \ {k} : batch'[j].status = batch[j].status
        BY <2>3, <2>4, <3>1 DEF Calls
      <3>3. runs[slot] > 0
        BY <2>4, <2>6, <3>1 DEF slot
      <3>4. QED
        BY <2>5, <2>6, <2>7, <3>1, <3>2, <3>3 DEF EffectsAreCalled
    <2>11. QED
      BY <1>2, <2>8, <2>9, <2>10
  <1>3. QED
    BY <1>1, <1>2 DEF Call

LEMMA CalledSteps == IInv /\ Loose /\ EffectsAreCalled /\ [Next]_vars => EffectsAreCalled'
  <1> SUFFICES ASSUME IInv, Loose, EffectsAreCalled, [Next]_vars PROVE EffectsAreCalled'
    OBVIOUS
  <1>1. CASE Model
    BY <1>1, CalledAway, AtModelFacts
       DEF Model, Compact, ContextStop, GenerationFails, QuotaPause, TerminalResponse, FinalAnswer, RejectBatch,
           IterationLimit, BeginBatch, Finish, Boundary, OnlyMemory, history
  <1>2. CASE WriteJournal
    <2>1. /\ pc = "journal" /\ UNCHANGED <<state, batch, effects, runs, threads>>
      BY <1>2 DEF WriteJournal, memory, history
    <2>2. /\ \A s \in Slots : runs[s] > 0 => s[1] < state.iteration
          /\ \A k \in DOMAIN batch : batch[k].status = "pending"
          /\ effects \subseteq Slots /\ state.iteration \in Int
      BY <2>1 DEF IInv, TypeOK, Journaled, States
    <2>3. \A k : <<state.iteration, k>> \notin effects
      BY <2>2 DEF EffectsAreCalled
    <2>4. QED
      BY <2>1, <2>2, <2>3 DEF EffectsAreCalled
  <1>3. ASSUME NEW k \in 1..MaxBatch, Call(k) PROVE EffectsAreCalled'
    BY <1>3, CalledInBatch
  <1>4. ASSUME NEW identical \in BOOLEAN, NEW status \in {"none", "blocked"}, Consume(identical, status)
        PROVE  EffectsAreCalled'
    <2> DEFINE s == Recorded(batch[next], <<state.iteration, next>>, identical)
    <2>1. pc = "batch" /\ state \in States /\ UNCHANGED <<effects, runs, threads>> /\ next \in DOMAIN batch
      BY <1>4 DEF IInv, TypeOK, Consume, OnlyMemory, history, Journaled
    <2>2. CASE state' = s /\ UNCHANGED <<pc, batch>>
      <3>1. batch[next] \in Calls
        BY <2>1 DEF IInv, TypeOK
      <3>2. s.iteration = state.iteration
        BY <2>1, <3>1, RecordedCounts
      <3> HIDE DEF s
      <3>3. QED
        BY <2>1, <2>2, <3>2 DEF EffectsAreCalled
    <2>3. CASE pc' \in {"finish", "save"}
      BY <2>1, <2>3, CalledAway
    <2>4. QED
      BY <1>4, <2>2, <2>3 DEF Consume, Finish, Boundary
  <1>5. CASE Save \/ Resume \/ Start \/ Recover \/ ProcessDies
    BY <1>5, CalledAway
       DEF Save, SaveCheckpoint, ClearJournal, WriteFinal, Resume, ReturnSaved, RefuseBoundary, AcceptBoundary,
           RefuseFiles, Continue, Start, Recover, ProcessDies, Interrupt, Detach, Boundary, OnlyMemory, history, memory
  <1>6. CASE CancelRun
    <2>1. UNCHANGED <<effects, runs>> /\ threads' = threads \union OngoingWrites /\ pc' = "off"
      BY <1>6 DEF CancelRun, Interrupt, Detach, history
    <2>2. ASSUME NEW s \in OngoingWrites PROVE runs[s] > 0 /\ s \notin effects
      <3>1. pc = "batch" /\ s \in Slots /\ s[1] = state.iteration /\ s[2] \in DOMAIN batch
            /\ batch[s[2]].status = "started"
        BY UnfinishedFacts
      <3>2. s = <<state.iteration, s[2]>>
        BY <3>1 DEF Slots
      <3>3. QED
        BY <3>1, <3>2 DEF EffectsAreCalled
    <2>3. QED
      BY <2>1, <2>2 DEF EffectsAreCalled
  <1>7. ASSUME NEW s \in Slots, LateWrite(s) PROVE EffectsAreCalled'
    <2>1. /\ UNCHANGED <<pc, runs>> /\ effects' = effects \union {s} /\ s \in threads /\ threads' = threads \ {s}
          /\ pc # "batch"
      BY <1>7 DEF LateWrite, Loose
    <2>2. QED
      BY <2>1 DEF EffectsAreCalled
  <1>8. CASE UserEdit \/ UNCHANGED vars
    <2>1. UNCHANGED <<pc, state, batch, effects, runs, threads>>
      BY <1>8 DEF UserEdit, vars, memory, history
    <2>2. QED
      BY <2>1 DEF EffectsAreCalled
  <1>9. QED
    BY <1>1, <1>2, <1>3, <1>4, <1>5, <1>6, <1>7, <1>8 DEF Next, Process, Tool

(* The mapping.  Between rounds, the saved conversations know every effect. *)
Known == UNION {c.known : c \in checkpoints}

Torn == pending.iteration > 0 /\ Uncovered

Mode ==
    IF final # "none" THEN "over"
    ELSE IF ~Torn THEN "open"
    ELSE IF pc \in {"batch", "save", "finish"} THEN "round" ELSE "torn"

LEMMA TornIsUncovered == ASSUME TypeOK PROVE Uncovered <=> ~Covered(pending.iteration)
  <1>1. pending.iteration \in Int /\ \A c \in checkpoints : c.iteration \in Int
    <2>1. pending \in [iteration : 0..MaxIterations, calls : RowLists] /\ checkpoints \subseteq States
      BY DEF TypeOK
    <2>2. QED
      BY <2>1 DEF States
  <1>2. QED
    BY <1>1 DEF Uncovered, Covered

LEMMA OpenIsRecorded == ASSUME IInv, ~Torn PROVE Known = effects
  <1>1. Known \subseteq effects
    BY DEF IInv, Chain, Known
  <1>2. ASSUME NEW s \in effects PROVE s \in Known
    <2>1. CASE \E c \in checkpoints : s \in c.known
      BY <2>1 DEF Known
    <2>2. CASE pending.iteration = s[1] /\ ~Covered(pending.iteration)
      <3>1. s[1] > 0
        BY DEF IInv, TypeOK, Slots
      <3>2. QED
        BY <2>2, <3>1, TornIsUncovered DEF IInv, Torn
    <2>3. QED
      BY <2>1, <2>2 DEF IInv, Accounted
  <1>3. QED
    BY <1>1, <1>2

\* A step that leaves the effects, the files and the place in the round.
LEMMA ModeStays ==
  ASSUME UNCHANGED <<final, effects, checkpoints>>, pending'.iteration = pending.iteration,
         \/ ~Torn
         \/ pc \in {"batch", "save", "finish"} /\ pc' \in {"batch", "save", "finish"}
         \/ pc \notin {"batch", "save", "finish"} /\ pc' \notin {"batch", "save", "finish"}
         \/ final # "none"
  PROVE  UNCHANGED <<effects, Known, Mode>>
  <1>1. Torn' = Torn /\ Known' = Known
    BY DEF Torn, Uncovered, Known
  <1>2. QED
    BY <1>1 DEF Mode

LEMMA ModeLetsGo ==
  ASSUME UNCHANGED <<final, effects, checkpoints>>, pending'.iteration = pending.iteration,
         final = "none", pc' = "off"
  PROVE  /\ UNCHANGED <<effects, Known>>
         /\ Mode' = Mode \/ (Mode = "round" /\ Mode' = "torn")
  <1>1. Torn' = Torn /\ Known' = Known
    BY DEF Torn, Uncovered, Known
  <1>2. QED
    BY <1>1 DEF Mode

RoundsStep ==
    \/ UNCHANGED <<effects, Known, Mode, threads>>
    \/ Mode = "open" /\ Mode' = "round" /\ UNCHANGED <<effects, Known, threads>>
    \/ \E e \in Slots : /\ Mode = "round" /\ e \notin effects /\ effects' = effects \union {e}
                        /\ UNCHANGED <<Known, Mode, threads>>
    \/ Mode = "round" /\ Known' = effects /\ Mode' = "open" /\ UNCHANGED <<effects, threads>>
    \/ /\ Mode = "round" /\ Mode' = "torn" /\ UNCHANGED <<effects, Known>>
       /\ threads' = {} \/ \E e \in Slots \ effects : threads' = {e}
    \/ /\ Mode = "torn" /\ threads # {} /\ threads' = {} /\ effects' \in {effects, effects \union threads}
       /\ UNCHANGED <<Known, Mode>>
    \/ Mode \in {"open", "round"} /\ Mode' = "over" /\ UNCHANGED <<effects, Known, threads>>

LEMMA CoveredIsOpen == ASSUME IInv, Covered(pending.iteration) PROVE ~Torn
  BY TornIsUncovered DEF IInv, Torn

LEMMA RoundOfCall ==
  ASSUME IInv, Loose, EffectsAreCalled, NEW k \in 1..MaxBatch, Call(k)
  PROVE  RoundsStep
  <1>1. /\ InFlight(k) /\ pc = "batch" /\ state.iteration = pending.iteration /\ pending \in Journals
        /\ state.iteration \in 1..MaxIterations /\ <<state.iteration, k>> \in Slots /\ k \in DOMAIN batch
    BY InFlightFacts DEF Call, BlockCall, StartCall, ApplyCall, ReturnCall, UnknownOutcome, QuotaInTool,
                         IInv, TypeOK, Journals
  <1>2. final = "none" /\ Torn /\ Mode = "round"
    <2>1. final = "none" /\ ~Covered(pending.iteration)
      BY <1>1 DEF IInv, Lifetime, Journaled
    <2>2. QED
      BY <1>1, <2>1, TornIsUncovered DEF IInv, Torn, Mode
  <1>3. ASSUME NEW row, Mark(k, row) PROVE pending'.iteration = pending.iteration
    BY <1>1, <1>3 DEF Mark, Journals
  <1>4. CASE BlockCall(k) \/ StartCall(k) \/ \E ok \in BOOLEAN : ReturnCall(k, ok)
    <2>1. UNCHANGED <<final, effects, checkpoints, pc, threads>> /\ pending'.iteration = pending.iteration
      BY <1>3, <1>4 DEF BlockCall, StartCall, ReturnCall, history
    <2>2. QED
      BY <1>1, <2>1, ModeStays DEF RoundsStep
  <1>5. CASE UnknownOutcome(k) \/ QuotaInTool(k)
    <2>1. UNCHANGED <<final, effects, checkpoints, threads>> /\ pending'.iteration = pending.iteration /\ pc' = "off"
          /\ threads = {}
      BY <1>1, <1>3, <1>5 DEF UnknownOutcome, QuotaInTool, Detach, history, Loose
    <2>2. QED
      BY <1>2, <2>1, ModeLetsGo DEF RoundsStep
  <1>6. CASE ApplyCall(k)
    <2>1. /\ UNCHANGED <<final, checkpoints, pending, pc, threads>> /\ batch[k].status = "started"
          /\ effects' \in {effects, effects \union {<<state.iteration, k>>}}
      BY <1>6 DEF ApplyCall, disk
    <2>2. Known' = Known /\ Mode' = Mode
      BY <2>1 DEF Known, Mode, Torn, Uncovered
    <2>3. <<state.iteration, k>> \notin effects
      BY <1>1, <2>1 DEF EffectsAreCalled
    <2>4. QED
      BY <1>1, <1>2, <2>1, <2>2, <2>3 DEF RoundsStep
  <1>7. QED
    BY <1>4, <1>5, <1>6 DEF Call

LEMMA RoundOfJournal == ASSUME IInv, WriteJournal PROVE RoundsStep
  <1>1. /\ pc = "journal" /\ pc' = "batch" /\ UNCHANGED <<checkpoints, final, effects, threads>>
        /\ pending'.iteration = state.iteration
    BY DEF WriteJournal, history
  <1>2. final = "none" /\ pending.iteration = 0 /\ ~Covered(state.iteration) /\ Based /\ state \in States
        /\ checkpoints \subseteq States
    BY <1>1 DEF IInv, TypeOK, Lifetime, Journaled
  <1>3. state.iteration \in Nat /\ \A c \in checkpoints : c.iteration \in Nat
    BY <1>2 DEF States
  <1>4. state.iteration > 0 /\ \A c \in checkpoints : state.iteration > c.iteration
    BY <1>1, <1>2, <1>3 DEF Based, Covered
  <1>5. ~Torn /\ Torn'
    BY <1>1, <1>2, <1>4 DEF Torn, Uncovered
  <1>6. Mode = "open" /\ Mode' = "round" /\ Known' = Known
    BY <1>1, <1>2, <1>5 DEF Mode, Known
  <1>7. QED
    BY <1>1, <1>6 DEF RoundsStep

LEMMA RoundOfSave == ASSUME IInv, SaveCheckpoint PROVE RoundsStep
  <1> DEFINE saved == [state EXCEPT !.hash = Fingerprint(state)]
  <1>1. /\ pc = "save" /\ checkpoints' = {c \in checkpoints : c.iteration # state.iteration} \union {saved}
        /\ state \in States /\ UNCHANGED <<pending, final, effects, threads>>
    BY DEF SaveCheckpoint, IInv, TypeOK, history
  <1>2. /\ state.known = effects /\ final = "none" /\ pending.iteration <= state.iteration
        /\ \A c \in checkpoints : c.known \subseteq effects
    BY <1>1 DEF IInv, Remembers, Lifetime, Journaled, Chain
  <1>3. saved.known = effects /\ saved.iteration = state.iteration
    BY <1>1, <1>2 DEF States
  <1> HIDE DEF saved
  <1>4. Known' = effects
    BY <1>1, <1>2, <1>3 DEF Known
  <1>5. ~Torn'
    <2>1. pending.iteration \in Int /\ state.iteration \in Int
      BY DEF IInv, TypeOK, States
    <2>2. ~(pending.iteration > saved.iteration) /\ saved \in checkpoints'
      BY <1>1, <1>2, <1>3, <2>1
    <2>3. QED
      BY <1>1, <2>2 DEF Torn, Uncovered
  <1>6. Mode' = "open"
    BY <1>1, <1>2, <1>5 DEF Mode
  <1>7. CASE Torn
    BY <1>1, <1>2, <1>4, <1>6, <1>7 DEF Mode, RoundsStep
  <1>8. CASE ~Torn
    BY <1>1, <1>2, <1>4, <1>6, <1>8, OpenIsRecorded DEF Mode, RoundsStep
  <1>9. QED
    BY <1>7, <1>8

\* A covered journal is forgotten.
LEMMA RoundOfClear == ASSUME IInv, ClearJournal \/ AcceptBoundary PROVE RoundsStep
  <1>1. pending' = NoJournal /\ UNCHANGED <<checkpoints, final, effects, threads>>
    BY DEF ClearJournal, AcceptBoundary, history
  <1>2. /\ pending.iteration \in Int /\ state.iteration \in Int /\ \A c \in checkpoints : c.iteration \in Int
    <2>1. pending \in [iteration : 0..MaxIterations, calls : RowLists] /\ checkpoints \subseteq States /\ state \in States
      BY DEF IInv, TypeOK
    <2>2. QED
      BY <2>1 DEF States
  <1>3. pending.iteration <= state.iteration /\ Covered(state.iteration)
    <2>1. CASE ClearJournal
      BY <2>1 DEF ClearJournal, IInv, Journaled
    <2>2. CASE AcceptBoundary
      BY <1>2, <2>2 DEF AcceptBoundary, Ambiguous, IInv, Remembers, Covered
    <2>3. QED
      BY <2>1, <2>2
  <1>4. ~Torn
    BY <1>2, <1>3, CoveredIsOpen DEF Covered
  <1>5. ~Torn' /\ Known' = Known
    BY <1>1 DEF Torn, NoJournal, Known
  <1>6. QED
    BY <1>1, <1>4, <1>5 DEF Mode, RoundsStep

\* A write goes on only in a torn round.
LEMMA LooseIsTorn == ASSUME IInv, Loose, threads # {} PROVE Mode = "torn" /\ final = "none"
  <1>1. PICK s \in threads : TRUE
    OBVIOUS
  <1>2. pc \in {"off", "recovered"} /\ final = "none" /\ pending.iteration = s[1] /\ ~Covered(pending.iteration)
    BY <1>1 DEF Loose
  <1>3. s[1] > 0
    BY <1>1 DEF IInv, TypeOK, Slots
  <1>4. QED
    BY <1>2, <1>3, TornIsUncovered DEF IInv, Torn, Mode

LEMMA RoundOfInterrupt ==
  ASSUME IInv, Loose, EffectsAreCalled, ProcessDies \/ CancelRun
  PROVE  RoundsStep
  <1>1. /\ UNCHANGED <<final, effects, checkpoints, pending>> /\ pc' = "off" /\ pc \in Running
        /\ threads' = {} \/ threads' = threads \union OngoingWrites
    BY DEF ProcessDies, CancelRun, Interrupt, Detach, disk, history
  <1>2. CASE threads # {}
    <2>1. Mode = "torn" /\ final = "none" /\ pc # "batch"
      BY <1>2, LooseIsTorn DEF Loose
    <2>2. Mode' = Mode /\ Known' = Known
      BY <1>1, <2>1, ModeLetsGo
    <2>3. threads' = {} \/ threads' = threads
      BY <1>1, <2>1, UnfinishedFacts
    <2>4. QED
      BY <1>1, <1>2, <2>1, <2>2, <2>3 DEF RoundsStep
  <1>3. CASE threads = {} /\ pc = "batch"
    <2>1. final = "none" /\ Torn /\ Mode = "round"
      <3>1. final = "none" /\ ~Covered(pending.iteration) /\ pending.iteration = state.iteration /\ state \in States
        BY <1>3 DEF IInv, TypeOK, Lifetime, Journaled
      <3>2. pending.iteration > 0
        <4>1. checkpoints # {} /\ checkpoints \subseteq States
          BY <1>3 DEF IInv, Based, TypeOK
        <4>2. pending.iteration # 0
          BY <3>1, <4>1 DEF Covered, States
        <4>3. QED
          BY <3>1, <4>2 DEF States
      <3>3. QED
        BY <1>3, <3>1, <3>2, TornIsUncovered DEF IInv, Torn, Mode
    <2>2. Mode' = "torn" /\ Known' = Known
      BY <1>1, <2>1 DEF Mode, Torn, Uncovered, Known
    <2>3. ASSUME NEW s \in OngoingWrites PROVE s \in Slots \ effects
      <3>1. s \in Slots /\ s[1] = state.iteration /\ s[2] \in DOMAIN batch /\ batch[s[2]].status = "started"
        BY UnfinishedFacts
      <3>2. s = <<state.iteration, s[2]>>
        BY <3>1 DEF Slots
      <3>3. QED
        BY <1>3, <3>1, <3>2 DEF EffectsAreCalled
    <2>4. threads' = {} \/ \E e \in Slots \ effects : threads' = {e}
      <3>1. CASE threads' = OngoingWrites
        BY <2>3, <3>1, UnfinishedFacts
      <3>2. QED
        BY <1>1, <1>3, <3>1
    <2>5. QED
      BY <1>1, <2>1, <2>2, <2>4 DEF RoundsStep
  <1>4. CASE threads = {} /\ pc # "batch"
    <2>1. threads' = {}
      BY <1>1, <1>4, UnfinishedFacts
    <2>2. CASE final = "none"
      BY <1>1, <1>4, <2>1, <2>2, ModeLetsGo DEF RoundsStep
    <2>3. CASE final # "none"
      BY <1>1, <1>4, <2>1, <2>3, ModeStays DEF RoundsStep
    <2>4. QED
      BY <2>2, <2>3
  <1>5. QED
    BY <1>2, <1>3, <1>4

LEMMA Refines == IInv /\ Loose /\ EffectsAreCalled /\ [Next]_vars => RoundsStep
  <1> SUFFICES ASSUME IInv, Loose, EffectsAreCalled, [Next]_vars PROVE RoundsStep
    OBVIOUS
  <1>1. CASE Model \/ Start
    <2>1. UNCHANGED <<final, effects, checkpoints, pending, threads>>
      BY <1>1 DEF Model, Compact, ContextStop, GenerationFails, QuotaPause, TerminalResponse, FinalAnswer,
                  RejectBatch, IterationLimit, BeginBatch, Start, OnlyMemory, disk, history
    <2>2. pc \in {"model", "new"}
      BY <1>1 DEF Model, Compact, ContextStop, GenerationFails, QuotaPause, TerminalResponse, FinalAnswer,
                  RejectBatch, IterationLimit, BeginBatch, Start, AtModel
    <2>3. ~Torn
      BY <2>2 DEF IInv, Journaled, Torn
    <2>4. QED
      BY <2>1, <2>3, ModeStays DEF RoundsStep
  <1>2. ASSUME NEW k \in 1..MaxBatch, Call(k) PROVE RoundsStep
    BY <1>2, RoundOfCall
  <1>3. ASSUME NEW identical \in BOOLEAN, NEW status \in {"none", "blocked"}, Consume(identical, status)
        PROVE  RoundsStep
    <2>1. UNCHANGED <<final, effects, checkpoints, pending, threads>> /\ pc = "batch" /\ pc' \in {"batch", "save", "finish"}
      BY <1>3 DEF Consume, Finish, Boundary, OnlyMemory, disk, history
    <2>2. QED
      BY <2>1, ModeStays DEF RoundsStep
  <1>4. CASE WriteJournal \/ SaveCheckpoint \/ ClearJournal \/ AcceptBoundary
    BY <1>4, RoundOfJournal, RoundOfSave, RoundOfClear
  <1>5. CASE WriteFinal
    <2>1. /\ pc = "finish" /\ final' = response /\ UNCHANGED <<checkpoints, pending, effects, threads>>
      BY <1>5 DEF WriteFinal, history
    <2>2. final = "none" /\ response # "none"
      BY <2>1 DEF IInv, Lifetime
    <2>3. Mode \in {"open", "round"} /\ Mode' = "over" /\ Known' = Known
      BY <2>1, <2>2 DEF Mode, Known
    <2>4. QED
      BY <2>1, <2>3 DEF RoundsStep
  <1>6. CASE ReturnSaved \/ RefuseBoundary \/ RefuseFiles \/ Continue \/ Recover
    <2>1. /\ UNCHANGED <<final, effects, checkpoints, pending, threads>>
          /\ pc \notin {"batch", "save", "finish"} /\ pc' \notin {"batch", "save", "finish"}
      BY <1>6 DEF ReturnSaved, RefuseBoundary, RefuseFiles, Continue, Recover, Detach, OnlyMemory, disk, history
    <2>2. QED
      BY <2>1, ModeStays DEF RoundsStep
  <1>7. CASE ProcessDies \/ CancelRun
    BY <1>7, RoundOfInterrupt
  <1>8. ASSUME NEW s \in Slots, LateWrite(s) PROVE RoundsStep
    <2>1. /\ UNCHANGED <<final, checkpoints, pending, pc>> /\ threads # {} /\ effects' = effects \union threads
          /\ threads' = {}
      BY <1>8 DEF LateWrite, Loose, disk
    <2>2. Mode = "torn" /\ Mode' = Mode /\ Known' = Known
      BY <2>1, LooseIsTorn DEF Mode, Torn, Uncovered, Known
    <2>3. QED
      BY <2>1, <2>2 DEF RoundsStep
  <1>9. CASE UserEdit \/ UNCHANGED vars
    <2>1. UNCHANGED <<final, effects, checkpoints, pending, pc, threads>>
      BY <1>9 DEF UserEdit, vars, disk, history
    <2>2. QED
      BY <2>1, ModeStays DEF RoundsStep
  <1>10. QED
    BY <1>1, <1>2, <1>3, <1>4, <1>5, <1>6, <1>7, <1>8, <1>9 DEF Next, Process, Tool, Save, Resume

(* A run, with its files, journal and crashes, implements atomic rounds:    *)
(* each round is recorded as a whole with everything before it, or torn;    *)
(* of a torn round at most the write that was under way when the run was    *)
(* cancelled is still applied, and no round follows it.                     *)
THEOREM RunsAreAtomicRounds == Spec => ImplementsAtomicRounds
  <1>1. Init => EffectsAreCalled /\ Rounds!AInit
    BY DEF Init, EffectsAreCalled, Rounds!AInit, NoJournal
  <1>2. IInv /\ Loose /\ EffectsAreCalled /\ [Next]_vars => [Rounds!ANext]_Rounds!avars
    <2> SUFFICES ASSUME IInv, Loose, EffectsAreCalled, [Next]_vars PROVE [Rounds!ANext]_Rounds!avars
      OBVIOUS
    <2>1. RoundsStep
      BY Refines
    <2>2. QED
      BY <2>1 DEF RoundsStep, Known, Mode, Torn, Rounds!ANext, Rounds!avars, Rounds!BeginRound, Rounds!Apply,
                  Rounds!CommitRound, Rounds!Tear, Rounds!ApplyLate, Rounds!End
  <1>3. QED
    BY <1>1, <1>2, CalledSteps, Invariant, PTL DEF Spec, ImplementsAtomicRounds, Rounds!ASpec
=============================================================================
