------------------------ MODULE DagValidationProofs ------------------------
(***************************************************************************)
(* TaskDAG.validate is exact for every dependency graph: it returns no     *)
(* error just when the plan is valid.                                      *)
(***************************************************************************)
EXTENDS DagValidation, SequenceTheorems, TLAPS

(* Nodes whose visit has returned.                                         *)
Finished == visited \ Path

(* The stack is a path of the graph.                                       *)
IsPath ==
    \A i \in 1..(Len(stack) - 1) :
        stack[i].id \in DOMAIN deps /\ stack[i + 1].id \in deps[stack[i].id]

(* A dependency an active call has dealt with: it is finished, it is the   *)
(* call above, or it closed a cycle.                                       *)
Consumed ==
    \A i \in 1..Len(stack) :
        /\ stack[i].left \subseteq DependsOn(stack[i].id)
        /\ \A e \in DependsOn(stack[i].id) \ stack[i].left :
              \/ e \in Finished
              \/ cycles # {}
              \/ i < Len(stack) /\ e = stack[i + 1].id

(* As long as no cycle is reported, the finished nodes depend on finished  *)
(* nodes only, and none of them wait for each other.                       *)
FinishedIsAcyclic ==
    cycles = {} =>
        /\ \A f \in Finished : DependsOn(f) \subseteq Finished
        /\ \A c \in SUBSET (Finished \cap DOMAIN deps) : ~Knot(deps, c)

IInv ==
    /\ DagTypeOK
    /\ Path \subseteq visited
    /\ DOMAIN deps \subseteq roots \union visited
    /\ missing = {} <=> ~Missing(deps)
    /\ IsPath
    /\ Consumed
    /\ FinishedIsAcyclic
    /\ EveryReportIsACycle
-----------------------------------------------------------------------------
(* Where a search begins.                                                  *)
LEMMA Initially == DagInit => IInv
  <1> SUFFICES ASSUME DagInit PROVE IInv
    OBVIOUS
  <1>1. PICK nodes \in SUBSET Ids : deps \in [nodes -> SUBSET Ids]
    BY DEF DagInit
  <1>2. DOMAIN deps = nodes /\ \A t \in DOMAIN deps : deps[t] \subseteq Ids
    BY <1>1
  <1>3. stack = <<>> /\ Len(stack) = 0 /\ Path = {}
    BY DEF DagInit, Path
  <1>4. DagTypeOK
    BY <1>2, <1>3 DEF DagInit, DagTypeOK
  <1>5. missing = {} <=> ~Missing(deps)
    <2>1. missing = {} => ~Missing(deps)
      <3> SUFFICES ASSUME missing = {}, NEW t \in DOMAIN deps, NEW d \in deps[t], d \notin DOMAIN deps
                   PROVE  FALSE
        BY DEF Missing
      <3>1. <<t, d>> \in missing
        BY DEF DagInit
      <3>2. QED
        BY <3>1
    <2>2. ~Missing(deps) => missing = {}
      BY DEF DagInit, Missing
    <2>3. QED
      BY <2>1, <2>2
  <1>6. FinishedIsAcyclic
    BY DEF FinishedIsAcyclic, Finished, DagInit, Knot
  <1>7. QED
    BY <1>3, <1>4, <1>5, <1>6 DEF DagInit, IInv, IsPath, Consumed, EveryReportIsACycle

(* The stack after a call of visit: what it held, and one frame more.      *)
LEMMA Pushed ==
  ASSUME NEW F, NEW calls \in Seq(F), NEW f \in F
  PROVE  /\ Append(calls, f) \in Seq(F)
         /\ Len(Append(calls, f)) = Len(calls) + 1
         /\ \A i \in 1..Len(calls) : Append(calls, f)[i] = calls[i]
         /\ Append(calls, f)[Len(calls) + 1] = f
  OBVIOUS

(* The stack in the loop over the dependencies: the last frame has one     *)
(* dependency less.                                                        *)
LEMMA Advanced ==
  ASSUME DagTypeOK, stack # <<>>, NEW d
  PROVE  /\ Without(d) \in Seq([id : Ids, left : SUBSET Ids])
         /\ Len(Without(d)) = Len(stack)
         /\ \A i \in 1..Len(stack) : Without(d)[i].id = stack[i].id
         /\ \A i \in 1..(Len(stack) - 1) : Without(d)[i].left = stack[i].left
         /\ Without(d)[Len(stack)].left = Top.left \ {d}
  <1> DEFINE n == Len(stack)
             f == [id |-> Top.id, left |-> Top.left \ {d}]
             F == [id : Ids, left : SUBSET Ids]
  <1>1. stack \in Seq(F)
    BY DEF DagTypeOK
  <1> HIDE DEF F
  <1>2. n \in Nat \ {0} /\ DOMAIN stack = 1..n /\ Top \in F
    BY <1>1 DEF Top
  <1>3. f \in F /\ f.id = Top.id /\ f.left = Top.left \ {d}
    BY <1>2 DEF F
  <1> HIDE DEF f
  <1>4. Without(d) = [stack EXCEPT ![n] = f]
    BY DEF Without, f
  <1>5. Without(d) \in Seq(F) /\ Len(Without(d)) = n
    BY <1>1, <1>2, <1>3, <1>4
  <1>6. \A i \in 1..n : Without(d)[i] = IF i = n THEN f ELSE stack[i]
    BY <1>1, <1>2, <1>4
  <1>7. Without(d) \in Seq([id : Ids, left : SUBSET Ids])
    BY <1>5 DEF F
  <1> HIDE DEF n
  <1>8. n \in 1..n /\ Without(d)[n] = f
    BY <1>2, <1>6
  <1>9. \A i \in 1..n : Without(d)[i].id = stack[i].id
    BY <1>3, <1>6 DEF Top, n
  <1>10. \A i \in 1..(n - 1) : i \in 1..n /\ i # n
    BY <1>2
  <1>11. \A i \in 1..(n - 1) : Without(d)[i].left = stack[i].left
    BY <1>6, <1>10
  <1>12. QED
    BY <1>3, <1>5, <1>7, <1>8, <1>9, <1>11 DEF n
-----------------------------------------------------------------------------
(* A dependency found on the stack closes a cycle of the graph: the part   *)
(* of the stack from there on.                                             *)
LEMMA CycleOnStack ==
  ASSUME IInv, stack # <<>>, NEW d \in Top.left, d \in Path
  PROVE  \E c \in SUBSET DOMAIN deps : d \in c /\ Knot(deps, c)
  <1> DEFINE n == Len(stack)
  <1>1. stack \in Seq([id : Ids, left : SUBSET Ids])
    BY DEF IInv, DagTypeOK
  <1>2. n \in Nat \ {0}
    BY <1>1
  <1>3. PICK k \in 1..n : d = stack[k].id
    BY DEF Path
  <1> DEFINE c == {stack[i].id : i \in k..n}
  <1>4. n \in 1..n /\ d \in DependsOn(stack[n].id)
    BY <1>2 DEF IInv, Consumed, Top
  <1>5. stack[n].id \in DOMAIN deps /\ d \in deps[stack[n].id]
    BY <1>4 DEF DependsOn
  <1>6. \A i \in k..n : i = n \/ (i \in 1..(n - 1) /\ i + 1 \in k..n)
    BY <1>2, <1>3
  <1>7. \A i \in k..n : stack[i].id \in DOMAIN deps
    BY <1>5, <1>6 DEF IInv, IsPath
  <1>8. \A i \in k..n : deps[stack[i].id] \cap c # {}
    <2> SUFFICES ASSUME NEW i \in k..n PROVE \E e \in c : e \in deps[stack[i].id]
      OBVIOUS
    <2>1. CASE i = n
      <3>1. k \in k..n
        BY <1>2, <1>3
      <3>2. QED
        BY <1>3, <1>5, <2>1, <3>1
    <2>2. CASE i # n
      BY <1>6, <2>2 DEF IInv, IsPath
    <2>3. QED
      BY <2>1, <2>2
  <1>9. d \in c
    BY <1>2, <1>3
  <1>10. c \in SUBSET DOMAIN deps /\ Knot(deps, c)
    BY <1>7, <1>8, <1>9 DEF Knot
  <1>11. QED
    BY <1>9, <1>10

(* The nodes a step leaves finished when it leaves the stack's ids and the *)
(* visited nodes alone.                                                    *)
LEMMA SamePath ==
  ASSUME DagTypeOK, stack # <<>>, NEW d, stack' = Without(d)
  PROVE  /\ Path' = Path
         /\ Len(stack') = Len(stack)
         /\ \A i \in 1..Len(stack) : stack'[i].id = stack[i].id
  <1>1. /\ Len(stack') = Len(stack)
        /\ \A i \in 1..Len(stack) : stack'[i].id = stack[i].id
    BY Advanced
  <1>2. QED
    BY <1>1 DEF Path

(* A dependency that is on the stack or finished is taken off the list.    *)
LEMMA TakenOff ==
  ASSUME IInv, stack # <<>>, NEW d \in Top.left, stack' = Without(d),
         UNCHANGED <<deps, missing, visited, roots>>,
         \/ d \in Path /\ cycles' = cycles \union {d}
         \/ d \in visited \ Path /\ UNCHANGED cycles
  PROVE  IInv'
  <1> DEFINE n == Len(stack)
  <1>1. DagTypeOK /\ n \in Nat \ {0} /\ d \in DependsOn(stack[n].id) /\ Top = stack[n]
    BY DEF IInv, DagTypeOK, Consumed, Top
  <1>2. Path' = Path /\ Len(stack') = n /\ \A i \in 1..n : stack'[i].id = stack[i].id
    BY <1>1, SamePath
  <1>3. Finished' = Finished
    BY <1>2 DEF Finished
  <1>4. d \in Ids
    BY <1>1 DEF DagTypeOK, IInv, Consumed
  <1>5. DagTypeOK'
    BY <1>1, <1>2, <1>4, Advanced DEF DagTypeOK
  <1>6. IsPath'
    BY <1>2 DEF IInv, IsPath
  <1>7. Consumed'
    <2>1. /\ \A i \in 1..(n - 1) : stack'[i].left = stack[i].left
          /\ stack'[n].left = Top.left \ {d}
      BY <1>1, Advanced
    <2>2. d \in Finished \/ cycles' # {}
      BY DEF Finished
    <2>3. \A e : DependsOn(e)' = DependsOn(e)
      BY DEF DependsOn
    <2> SUFFICES ASSUME NEW i \in 1..n
                 PROVE  /\ stack'[i].left \subseteq DependsOn(stack[i].id)
                        /\ \A e \in DependsOn(stack[i].id) \ stack'[i].left :
                              \/ e \in Finished
                              \/ cycles' # {}
                              \/ i < n /\ e = stack'[i + 1].id
      BY <1>2, <1>3, <2>3 DEF Consumed
    <2>4. CASE i = n
      BY <1>1, <2>1, <2>2, <2>4 DEF IInv, Consumed
    <2>5. CASE i # n
      <3>1. i \in 1..(n - 1) /\ i + 1 \in 1..n /\ i < n
        BY <1>1, <2>5
      <3>2. stack'[i].left = stack[i].left /\ stack'[i + 1].id = stack[i + 1].id
        BY <1>2, <2>1, <3>1
      <3>3. QED
        BY <3>1, <3>2 DEF IInv, Consumed
    <2>6. QED
      BY <2>4, <2>5
  <1>8. FinishedIsAcyclic'
    BY <1>3 DEF IInv, FinishedIsAcyclic, DependsOn
  <1>9. EveryReportIsACycle'
    BY CycleOnStack DEF IInv, EveryReportIsACycle
  <1>10. QED
    BY <1>2, <1>5, <1>6, <1>7, <1>8, <1>9 DEF IInv

(* A call that is entered: d was not visited; calls is the stack it is     *)
(* pushed on, the list of its last frame without d.                        *)
LEMMA Entered ==
  ASSUME IInv, NEW d \in Ids, d \notin visited,
         NEW calls \in Seq([id : Ids, left : SUBSET Ids]),
         Len(calls) = Len(stack),
         \A i \in 1..Len(stack) : calls[i].id = stack[i].id,
         \A i \in 1..(Len(stack) - 1) : calls[i].left = stack[i].left,
         stack # <<>> =>
            d \in Top.left /\ calls[Len(stack)].left = Top.left \ {d},
         stack' = Append(calls, Frame(d)),
         visited' = visited \union {d},
         DOMAIN deps \subseteq roots' \union visited',
         roots' \subseteq roots,
         UNCHANGED <<deps, missing, cycles>>
  PROVE  IInv'
  <1> DEFINE n == Len(stack)
             F == [id : Ids, left : SUBSET Ids]
  <1>1. DagTypeOK /\ n \in Nat
    BY DEF IInv, DagTypeOK
  <1>2. \A e : DependsOn(e) \subseteq Ids /\ DependsOn(e)' = DependsOn(e)
    BY <1>1 DEF DagTypeOK, DependsOn
  <1>3. Frame(d) \in F /\ Frame(d).id = d /\ Frame(d).left = DependsOn(d)
    BY <1>2 DEF Frame
  <1>4. /\ stack' \in Seq(F) /\ Len(stack') = n + 1
        /\ \A i \in 1..n : stack'[i] = calls[i]
        /\ stack'[n + 1] = Frame(d)
    BY <1>3, Pushed
  <1> HIDE DEF n
  <1>5. \A i \in 1..(n + 1) : i \in 1..n \/ i = n + 1
    BY <1>1
  <1>6. n + 1 \in 1..(n + 1) /\ \A i \in 1..n : i \in 1..(n + 1) /\ i # n + 1
    BY <1>1
  <1>7. \A i \in 1..n : stack'[i].id = stack[i].id
    BY <1>4 DEF n
  <1>8. Path' = Path \union {d}
    BY <1>3, <1>4, <1>5, <1>6, <1>7 DEF Path, n
  <1>9. d \notin Path
    BY DEF IInv
  <1>10. Finished' = Finished
    BY <1>8, <1>9 DEF Finished
  <1>11. DagTypeOK'
    <2>1. \A i, j \in 1..(n + 1) : i # j => stack'[i].id # stack'[j].id
      BY <1>1, <1>3, <1>4, <1>5, <1>7, <1>9 DEF DagTypeOK, Path, n
    <2>2. QED
      BY <1>1, <1>4, <2>1 DEF DagTypeOK
  <1>12. stack # <<>> => n \in 1..n /\ stack[n] = Top
    BY <1>1 DEF Top, DagTypeOK, n
  <1>13. stack = <<>> => n = 0
    BY DEF n
  <1>14. IsPath'
    <2> SUFFICES ASSUME NEW i \in 1..n
                 PROVE  stack'[i].id \in DOMAIN deps /\ stack'[i + 1].id \in deps[stack'[i].id]
      BY <1>1, <1>4 DEF IsPath
    <2>1. CASE i = n
      <3>1. d \in DependsOn(stack[n].id)
        BY <1>1, <1>12, <1>13, <2>1 DEF IInv, Consumed, n
      <3>2. QED
        BY <1>3, <1>4, <1>7, <2>1, <3>1 DEF DependsOn
    <2>2. CASE i # n
      <3>1. i \in 1..(n - 1) /\ i + 1 \in 1..n
        BY <1>1, <2>2
      <3>2. QED
        BY <1>7, <3>1 DEF IInv, IsPath, n
    <2>3. QED
      BY <2>1, <2>2
  <1>15. Consumed'
    <2> SUFFICES ASSUME NEW i \in 1..(n + 1)
                 PROVE  /\ stack'[i].left \subseteq DependsOn(stack'[i].id)
                        /\ \A e \in DependsOn(stack'[i].id) \ stack'[i].left :
                              \/ e \in Finished
                              \/ cycles' # {}
                              \/ i < n + 1 /\ e = stack'[i + 1].id
      <3>1. \A e : DependsOn(e)' = DependsOn(e)
        BY <1>2
      <3>2. Len(stack') = n + 1
        BY <1>4
      <3>3. QED
        BY <1>10, <3>1, <3>2 DEF Consumed
    <2>1. CASE i = n + 1
      BY <1>3, <1>4, <2>1
    <2>2. CASE i = n
      <3>1. n \in 1..n /\ stack # <<>>
        BY <1>1, <1>13, <2>2
      <3>2. stack'[n].id = stack[n].id /\ stack'[n].left = stack[n].left \ {d}
        BY <1>4, <1>7, <1>12, <3>1 DEF n
      <3>3. stack'[n + 1].id = d /\ n < n + 1
        BY <1>1, <1>3, <1>4
      <3>4. QED
        BY <2>2, <3>1, <3>2, <3>3 DEF IInv, Consumed, n
    <2>3. CASE i \in 1..(n - 1)
      <3>1. i \in 1..n /\ i + 1 \in 1..n /\ i < n + 1 /\ i < n
        BY <1>1, <2>3
      <3>2. stack'[i].id = stack[i].id /\ stack'[i].left = stack[i].left /\ stack'[i + 1].id = stack[i + 1].id
        BY <1>4, <1>7, <2>3, <3>1 DEF n
      <3>3. QED
        BY <3>1, <3>2 DEF IInv, Consumed, n
    <2>4. i = n + 1 \/ i = n \/ i \in 1..(n - 1)
      BY <1>1
    <2>5. QED
      BY <2>1, <2>2, <2>3, <2>4
  <1>16. FinishedIsAcyclic'
    BY <1>2, <1>10 DEF IInv, FinishedIsAcyclic
  <1>17. EveryReportIsACycle' /\ (missing = {} <=> ~Missing(deps))'
    BY DEF IInv, EveryReportIsACycle
  <1>18. Path' \subseteq visited'
    BY <1>8 DEF IInv
  <1>19. QED
    BY <1>11, <1>14, <1>15, <1>16, <1>17, <1>18 DEF IInv

(* The stack without its last frame.                                       *)
LEMMA Popped ==
  ASSUME NEW F, NEW s \in Seq(F), s # <<>>
  PROVE  /\ SubSeq(s, 1, Len(s) - 1) \in Seq(F)
         /\ Len(SubSeq(s, 1, Len(s) - 1)) = Len(s) - 1
         /\ \A i \in 1..(Len(s) - 1) : SubSeq(s, 1, Len(s) - 1)[i] = s[i]
  <1>1. Len(s) \in Nat \ {0} /\ \A i \in 1..Len(s) : s[i] \in F
    BY EmptySeq
  <1> DEFINE n == Len(s) - 1
  <1>2. n \in Nat /\ \A i \in 1..n : i \in 1..Len(s)
    BY <1>1
  <1> HIDE DEF n
  <1>3. /\ SubSeq(s, 1, n) \in Seq(F)
        /\ Len(SubSeq(s, 1, n)) = IF 1 <= n THEN n - 1 + 1 ELSE 0
        /\ \A i \in 1..(n - 1 + 1) : SubSeq(s, 1, n)[i] = s[1 + i - 1]
    BY <1>1, <1>2, SubSeqProperties
  <1>4. n - 1 + 1 = n /\ (~(1 <= n) => n = 0) /\ \A i \in 1..n : 1 + i - 1 = i
    BY <1>2
  <1>5. /\ SubSeq(s, 1, n) \in Seq(F) /\ Len(SubSeq(s, 1, n)) = n
        /\ \A i \in 1..n : SubSeq(s, 1, n)[i] = s[i]
    BY <1>3, <1>4
  <1>6. QED
    BY <1>5 DEF n

(* A call returns: its node and those below it are finished.               *)
LEMMA Returned ==
  ASSUME IInv, Return
  PROVE  IInv'
  <1> DEFINE n == Len(stack)
             F == [id : Ids, left : SUBSET Ids]
             x == stack[n].id
  <1>1. DagTypeOK /\ stack \in Seq(F) /\ n \in Nat \ {0}
    BY DEF IInv, DagTypeOK, Return
  <1>2. /\ stack' \in Seq(F) /\ Len(stack') = n - 1
        /\ \A i \in 1..(n - 1) : stack'[i] = stack[i]
    BY <1>1, Popped DEF Return
  <1>3. Top = stack[n] /\ stack[n].left = {}
    BY DEF Top, Return
  <1> HIDE DEF n
  <1>4. n \in 1..n /\ \A i \in 1..n : i = n \/ i \in 1..(n - 1)
    BY <1>1
  <1>5. \A i \in 1..(n - 1) : i \in 1..n /\ i # n
    BY <1>1
  <1>6. Path = Path' \union {x} /\ x \notin Path'
    <2>1. Path = {stack[i].id : i \in 1..n} /\ Path' = {stack[i].id : i \in 1..(n - 1)}
      BY <1>2 DEF Path, n
    <2>2. \A i \in 1..(n - 1) : stack[i].id # x
      BY <1>1, <1>4, <1>5 DEF DagTypeOK, n
    <2>3. QED
      BY <1>4, <1>5, <2>1, <2>2
  <1>7. x \in visited /\ Finished' = Finished \union {x} /\ x \notin Finished
    BY <1>6 DEF IInv, Finished, Return
  <1>8. DagTypeOK'
    <2>1. \A i, j \in 1..(n - 1) : i # j => stack'[i].id # stack'[j].id
      BY <1>1, <1>2, <1>5 DEF DagTypeOK, n
    <2>2. QED
      BY <1>1, <1>2, <2>1 DEF DagTypeOK, Return
  <1>9. IsPath'
    <2>1. \A i \in 1..(n - 1 - 1) : i \in 1..(n - 1) /\ i + 1 \in 1..(n - 1)
      BY <1>1
    <2>2. QED
      BY <1>2, <2>1 DEF IInv, IsPath, Return, n
  <1>10. \A e : DependsOn(e)' = DependsOn(e)
    BY DEF DependsOn, Return
  <1>11. Consumed'
    <2> SUFFICES ASSUME NEW i \in 1..(n - 1)
                 PROVE  /\ stack[i].left \subseteq DependsOn(stack[i].id)
                        /\ \A e \in DependsOn(stack[i].id) \ stack[i].left :
                              \/ e \in Finished'
                              \/ cycles # {}
                              \/ i < n - 1 /\ e = stack'[i + 1].id
      BY <1>2, <1>10 DEF Consumed, Return
    <2>1. i \in 1..n /\ (i = n - 1 \/ (i < n - 1 /\ i + 1 \in 1..(n - 1)))
      BY <1>1
    <2>2. i = n - 1 => i + 1 = n
      BY <1>1
    <2>3. QED
      BY <1>2, <1>7, <2>1, <2>2 DEF IInv, Consumed, n
  <1>12. FinishedIsAcyclic'
    <2> SUFFICES ASSUME cycles = {}
                 PROVE  /\ \A f \in Finished' : DependsOn(f) \subseteq Finished'
                        /\ \A c \in SUBSET (Finished' \cap DOMAIN deps) : ~Knot(deps, c)
      BY <1>10 DEF FinishedIsAcyclic, Return
    <2>1. DependsOn(x) \subseteq Finished
      BY <1>1, <1>3, <1>4 DEF IInv, Consumed, n
    <2>2. \A f \in Finished' : DependsOn(f) \subseteq Finished
      BY <1>7, <2>1 DEF IInv, FinishedIsAcyclic
    <2>3. ASSUME NEW c \in SUBSET (Finished' \cap DOMAIN deps), Knot(deps, c)
          PROVE  FALSE
      <3> DEFINE r == c \ {x}
      <3>1. \A t \in c : deps[t] \subseteq Finished
        BY <2>2 DEF DependsOn
      <3>2. \A t \in c : deps[t] \cap r # {}
        BY <1>7, <2>3, <3>1 DEF Knot
      <3>3. r # {} /\ r \in SUBSET (Finished \cap DOMAIN deps)
        BY <1>7, <2>3, <3>2 DEF Knot
      <3>4. Knot(deps, r)
        BY <3>2, <3>3 DEF Knot
      <3>5. QED
        BY <3>3, <3>4 DEF IInv, FinishedIsAcyclic
    <2>4. QED
      BY <1>7, <2>2, <2>3
  <1>13. EveryReportIsACycle' /\ (missing = {} <=> ~Missing(deps))'
    BY DEF IInv, EveryReportIsACycle, Return
  <1>14. Path' \subseteq visited'
    BY <1>6 DEF IInv, Return
  <1>15. QED
    BY <1>8, <1>9, <1>11, <1>12, <1>13, <1>14 DEF IInv, Return
-----------------------------------------------------------------------------
LEMMA Inductive == IInv /\ [DagNext]_dagVars => IInv'
  <1> SUFFICES ASSUME IInv, [DagNext]_dagVars PROVE IInv'
    OBVIOUS
  <1>1. DagTypeOK
    BY DEF IInv
  <1>2. ASSUME NEW t \in Ids, VisitRoot(t) PROVE IInv'
    <2>1. Path = {} /\ Len(stack) = 0 /\ stack \in Seq([id : Ids, left : SUBSET Ids])
      BY <1>1, <1>2 DEF VisitRoot, Path, DagTypeOK
    <2>2. DOMAIN deps \subseteq roots' \union visited'
      BY <1>2 DEF VisitRoot, Visit, IInv
    <2>3. CASE t \in visited
      <3>1. UNCHANGED <<deps, missing, cycles, visited, stack>> /\ roots' \subseteq roots
        BY <1>2, <2>1, <2>3 DEF VisitRoot, Visit
      <3>2. DagTypeOK' /\ Path' = Path
        BY <1>1, <3>1 DEF DagTypeOK, Path
      <3>3. Finished' = Finished
        BY <3>1, <3>2 DEF Finished
      <3>4. \A e : DependsOn(e)' = DependsOn(e)
        BY <3>1 DEF DependsOn
      <3>5. Consumed' /\ IsPath'
        BY <2>1, <3>1 DEF Consumed, IsPath
      <3>6. FinishedIsAcyclic' /\ EveryReportIsACycle'
        BY <3>1, <3>3, <3>4 DEF IInv, FinishedIsAcyclic, EveryReportIsACycle
      <3>7. QED
        BY <2>2, <3>1, <3>2, <3>5, <3>6 DEF IInv
    <2>4. CASE t \notin visited
      <3>1. /\ stack' = Append(stack, Frame(t)) /\ visited' = visited \union {t}
            /\ UNCHANGED <<deps, missing, cycles>> /\ roots' \subseteq roots
            /\ stack = <<>>
        BY <1>2, <2>1, <2>4 DEF VisitRoot, Visit
      <3>2. QED
        BY <2>1, <2>2, <2>4, <3>1, Entered
    <2>5. QED
      BY <2>3, <2>4
  <1>3. ASSUME NEW d \in Ids, VisitDependency(d) PROVE IInv'
    <2>1. /\ stack # <<>> /\ d \in Top.left
          /\ UNCHANGED <<deps, missing, roots>>
      BY <1>3 DEF VisitDependency
    <2>2. CASE d \in visited
      <3>1. /\ stack' = Without(d) /\ UNCHANGED visited
            /\ \/ d \in Path /\ cycles' = cycles \union {d}
               \/ d \in visited \ Path /\ UNCHANGED cycles
        BY <1>3, <2>2 DEF VisitDependency, Visit
      <3>2. QED
        BY <2>1, <3>1, TakenOff
    <2>3. CASE d \notin visited
      <3>1. d \notin Path
        BY <2>3 DEF IInv
      <3>2. /\ stack' = Append(Without(d), Frame(d)) /\ visited' = visited \union {d}
            /\ UNCHANGED cycles
        BY <1>3, <2>3, <3>1 DEF VisitDependency, Visit
      <3>3. DOMAIN deps \subseteq roots' \union visited' /\ roots' \subseteq roots
        BY <2>1, <3>2 DEF IInv
      <3>4. /\ Without(d) \in Seq([id : Ids, left : SUBSET Ids])
            /\ Len(Without(d)) = Len(stack)
            /\ \A i \in 1..Len(stack) : Without(d)[i].id = stack[i].id
            /\ \A i \in 1..(Len(stack) - 1) : Without(d)[i].left = stack[i].left
            /\ Without(d)[Len(stack)].left = Top.left \ {d}
        BY <1>1, <2>1, Advanced
      <3>5. QED
        BY <2>1, <2>3, <3>2, <3>3, <3>4, Entered
    <2>4. QED
      BY <2>2, <2>3
  <1>4. CASE Return
    BY <1>4, Returned
  <1>5. CASE UNCHANGED dagVars
    BY <1>5 DEF dagVars, IInv, DagTypeOK, IsPath, Consumed, FinishedIsAcyclic, Finished, Path,
                EveryReportIsACycle, DependsOn
  <1>6. QED
    BY <1>2, <1>3, <1>4, <1>5 DEF DagNext

(* The inductive invariant holds in every behaviour of the search.           *)
THEOREM Invariant == DagSpec => []IInv
  <1>1. QED
    BY Initially, Inductive, PTL DEF DagSpec

(* Every variable keeps its type and the recursion never re-enters a call, *)
(* for every set of ids.                                                   *)
THEOREM TypeCorrect == DagSpec => []DagTypeOK
  <1>1. IInv => DagTypeOK
    BY DEF IInv
  <1>2. QED
    BY <1>1, Invariant, PTL

(* validate returns no error exactly for the valid plans: whatever the     *)
(* ids, the dependencies, and the order in which they are listed.          *)
THEOREM ValidationIsExact == DagSpec => []ValidateIsExact
  <1>1. IInv => ValidateIsExact
    <2> SUFFICES ASSUME IInv, Done PROVE NoError <=> Valid(deps)
      BY DEF ValidateIsExact
    <2>1. Path = {} /\ DOMAIN deps \subseteq Finished
      BY DEF IInv, Done, Path, Finished
    <2>2. cycles = {} => ~Cyclic(deps)
      BY <2>1 DEF IInv, FinishedIsAcyclic, Cyclic
    <2>3. cycles # {} => Cyclic(deps)
      BY DEF IInv, EveryReportIsACycle, Cyclic
    <2>4. QED
      BY <2>2, <2>3 DEF IInv, NoError, Valid
  <1>2. QED
    BY <1>1, Invariant, PTL

(* Every cycle that is reported is one.                                    *)
THEOREM ReportsAreCycles == DagSpec => []EveryReportIsACycle
  <1>1. IInv => EveryReportIsACycle
    BY DEF IInv
  <1>2. QED
    BY <1>1, Invariant, PTL
=============================================================================
