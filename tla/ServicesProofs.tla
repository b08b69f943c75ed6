--------------------------- MODULE ServicesProofs ---------------------------
(***************************************************************************)
(* The services that parallel agents share, for any number of requests,    *)
(* days, credits, calls, connections and files: no free request is sent    *)
(* that the server has not granted, and no request escapes the ledger; no  *)
(* MCP call runs that was not approved, and none gets the answer of        *)
(* another; and the index of the sources misses no change.                 *)
(***************************************************************************)
EXTENDS RequestAdmission, McpClient, CodeIndex, FiniteSetTheorems, TLAPS

-----------------------------------------------------------------------------
(* Sums.  SumFunctionOnSet is a recursive function over the parts of a set. *)
(* The library's induction theorems cannot be applied here, so the facts   *)
(* about it are shown by the smallest part for which they would fail.      *)

(* Induction over the subsets of a finite set: what fails for one of them  *)
(* fails for a smallest one.                                               *)
LEMMA SmallestSubset ==
  ASSUME NEW S, IsFiniteSet(S), NEW bad, bad \subseteq SUBSET S, bad # {}
  PROVE  \E T \in bad : \A U \in SUBSET T : U # T => U \notin bad
  <1>1. bad \subseteq FiniteSubsetsOf(S)
    BY FS_Subset DEF FiniteSubsetsOf
  <1>2. PICK T \in bad : \A U \in bad : <<U, T>> \notin StrictSubsetOrdering(S)
    BY <1>1, FS_StrictSubsetOrderingWellFounded, WFMin
  <1> QED BY <1>2 DEF StrictSubsetOrdering

Chosen(s) == CHOOSE x \in s : TRUE

(* What SumFunctionOnSet computes of w, for every part of S.               *)
SumsOf(w, S) == CHOOSE f : f = [s \in SUBSET S |-> IF s = {} THEN 0 ELSE w[Chosen(s)] + f[s \ {Chosen(s)}]]

LEMMA SumIsRecursive ==
  ASSUME NEW w, NEW S
  PROVE  SumFunctionOnSet(w, S) = SumsOf(w, S)[S]
  BY DEF SumFunctionOnSet, FoldFunctionOnSet, MapThenFoldSet, SumsOf, Chosen

Adds(f, w, S) ==
  /\ f \in [SUBSET S -> Nat]
  /\ \A s \in SUBSET S : f[s] = IF s = {} THEN 0 ELSE w[Chosen(s)] + f[s \ {Chosen(s)}]

LEMMA ChosenIsIn == ASSUME NEW s, s # {} PROVE Chosen(s) \in s
  BY DEF Chosen

LEMMA SumsAgree ==
  ASSUME NEW S, IsFiniteSet(S), NEW v, NEW w, NEW U \in SUBSET S, NEW V \in SUBSET S,
         \A x \in U \cap V : v[x] = w[x],
         NEW f, NEW g, Adds(f, v, U), Adds(g, w, V)
  PROVE  \A s \in SUBSET (U \cap V) : f[s] = g[s]
  <1> DEFINE bad == {s \in SUBSET (U \cap V) : f[s] # g[s]}
  <1> SUFFICES ASSUME bad # {} PROVE FALSE
    OBVIOUS
  <1>1. PICK s \in bad : \A t \in SUBSET s : t # s => t \notin bad
    <2>1. bad \subseteq SUBSET S
      OBVIOUS
    <2> HIDE DEF bad
    <2> QED BY <2>1, SmallestSubset
  <1>2. s \in SUBSET U /\ s \in SUBSET V
    BY <1>1
  <1>3. s # {}
    BY <1>1, <1>2 DEF Adds
  <1> DEFINE x == Chosen(s)
             t == s \ {x}
  <1>4. x \in s
    BY <1>3, ChosenIsIn
  <1> HIDE DEF x
  <1>5. f[t] = g[t]
    BY <1>1, <1>4
  <1>6. f[s] = v[x] + f[t]
    BY <1>2, <1>3 DEF Adds, x
  <1>7. g[s] = w[x] + g[t]
    BY <1>2, <1>3 DEF Adds, x
  <1>8. v[x] = w[x]
    BY <1>2, <1>4
  <1> QED BY <1>1, <1>5, <1>6, <1>7, <1>8

LEMMA SumsExist ==
  ASSUME NEW S, IsFiniteSet(S), NEW w, \A x \in S : w[x] \in Nat
  PROVE  \E f : Adds(f, w, S)
  <1> DEFINE bad == {U \in SUBSET S : ~\E f : Adds(f, w, U)}
  <1> SUFFICES ASSUME bad # {} PROVE FALSE
    BY Zenon
  <1>1. PICK U \in bad : \A T \in SUBSET U : T # U => T \notin bad
    <2>1. bad \subseteq SUBSET S
      OBVIOUS
    <2> HIDE DEF bad
    <2> QED BY <2>1, SmallestSubset
  <1>2. U \in SUBSET S
    OBVIOUS
  <1> DEFINE F(T) == CHOOSE f : Adds(f, w, T)
  <1>3. ASSUME NEW T \in SUBSET U, T # U PROVE Adds(F(T), w, T)
    <2>1. T \in SUBSET S /\ T \notin bad
      BY <1>1, <1>2, <1>3
    <2>2. \E f : Adds(f, w, T)
      BY <2>1
    <2> QED BY <2>2
  <1> HIDE DEF F
  <1> DEFINE G(s) == IF s = {} THEN 0 ELSE w[Chosen(s)] + F(s \ {Chosen(s)})[s \ {Chosen(s)}]
             g == [s \in SUBSET U |-> G(s)]
  <1>4. ASSUME NEW s \in SUBSET U, s # {}
        PROVE  /\ s \ {Chosen(s)} \in SUBSET U /\ s \ {Chosen(s)} # U
               /\ Chosen(s) \in S
    BY <1>2, <1>4, ChosenIsIn
  <1>5. \A s \in SUBSET U : G(s) \in Nat
    <2> SUFFICES ASSUME NEW s \in SUBSET U, s # {} PROVE G(s) \in Nat
      BY Zenon
    <2> DEFINE t == s \ {Chosen(s)}
    <2>1. Adds(F(t), w, t) /\ Chosen(s) \in S
      BY <1>3, <1>4
    <2>2. F(t)[t] \in Nat /\ w[Chosen(s)] \in Nat
      BY <2>1 DEF Adds
    <2>3. G(s) = w[Chosen(s)] + F(t)[t]
      OBVIOUS
    <2> HIDE DEF G, t
    <2> QED BY <2>2, <2>3
  <1>6. ASSUME NEW s \in SUBSET U, s # {} PROVE g[s] = w[Chosen(s)] + g[s \ {Chosen(s)}]
    <2> DEFINE x == Chosen(s)
               t == s \ {x}
    <2>1. t \in SUBSET U /\ t # U /\ x \in S
      BY <1>4, <1>6
    <2>2. Adds(F(t), w, t)
      BY <1>3, <2>1
    <2>3. F(t)[t] = G(t)
      <3>1. CASE t = {}
        BY <2>2, <3>1 DEF Adds
      <3>2. CASE t # {}
        <4> DEFINE y == Chosen(t)
                   r == t \ {y}
        <4>1. r \in SUBSET U /\ r # U /\ y \in t
          BY <1>4, <2>1, <3>2, ChosenIsIn
        <4>2. Adds(F(r), w, r)
          BY <1>3, <4>1
        <4>3. F(t)[r] = F(r)[r]
          <5>1. r \in SUBSET S /\ t \in SUBSET S /\ r \in SUBSET (t \cap r)
            BY <1>2, <2>1, <4>1
          <5> HIDE DEF r, t
          <5> QED BY <2>2, <4>2, <5>1, SumsAgree
        <4>4. F(t)[t] = w[y] + F(t)[r]
          BY <2>2, <3>2 DEF Adds
        <4>5. G(t) = w[y] + F(r)[r]
          BY <3>2
        <4> QED BY <4>3, <4>4, <4>5
      <3> QED BY <3>1, <3>2
    <2>4. g[s] = w[x] + F(t)[t]
      BY <1>6
    <2>5. g[t] = G(t)
      BY <2>1
    <2> QED BY <2>3, <2>4, <2>5
  <1>7. g \in [SUBSET U -> Nat]
    BY <1>5
  <1>8. g[{}] = 0
    OBVIOUS
  <1> HIDE DEF g
  <1>9. Adds(g, w, U)
    BY <1>6, <1>7, <1>8 DEF Adds
  <1> QED BY <1>1, <1>9

(* The sums of a function of naturals over a finite set satisfy their      *)
(* recursion.                                                              *)
LEMMA SumsAdd ==
  ASSUME NEW S, IsFiniteSet(S), NEW w, \A x \in S : w[x] \in Nat
  PROVE  Adds(SumsOf(w, S), w, S) /\ SumFunctionOnSet(w, S) = SumsOf(w, S)[S]
  <1>1. PICK f : Adds(f, w, S)
    BY SumsExist
  <1>2. f = [s \in SUBSET S |-> IF s = {} THEN 0 ELSE w[Chosen(s)] + f[s \ {Chosen(s)}]]
    BY <1>1 DEF Adds
  <1>3. SumsOf(w, S) = [s \in SUBSET S |-> IF s = {} THEN 0
                          ELSE w[Chosen(s)] + SumsOf(w, S)[s \ {Chosen(s)}]]
    BY <1>2 DEF SumsOf
  <1>4. \A s \in SUBSET S : SumsOf(w, S)[s] = IF s = {} THEN 0
                               ELSE w[Chosen(s)] + SumsOf(w, S)[s \ {Chosen(s)}]
    BY <1>3
  <1>5. DOMAIN SumsOf(w, S) = SUBSET S
    BY <1>3
  <1>6. SumsOf(w, S) = [s \in SUBSET S |-> SumsOf(w, S)[s]]
    BY <1>3
  <1>7. \A s \in SUBSET S : SumsOf(w, S)[s] = f[s]
    <2> DEFINE bad == {s \in SUBSET S : SumsOf(w, S)[s] # f[s]}
    <2> SUFFICES ASSUME bad # {} PROVE FALSE
      OBVIOUS
    <2>1. PICK s \in bad : \A t \in SUBSET s : t # s => t \notin bad
      <3>1. bad \subseteq SUBSET S
        OBVIOUS
      <3> HIDE DEF bad
      <3> QED BY <3>1, SmallestSubset
    <2>2. CASE s = {}
      BY <1>1, <1>4, <2>1, <2>2 DEF Adds
    <2>3. CASE s # {}
      <3>1. Chosen(s) \in s
        BY <2>3, ChosenIsIn
      <3>2. s \ {Chosen(s)} \notin bad
        BY <2>1, <3>1
      <3>3. SumsOf(w, S)[s \ {Chosen(s)}] = f[s \ {Chosen(s)}]
        BY <2>1, <3>2
      <3> QED BY <1>1, <1>4, <2>1, <2>3, <3>3 DEF Adds
    <2> QED BY <2>2, <2>3
  <1>8. SumsOf(w, S) \in [SUBSET S -> Nat]
    BY <1>1, <1>6, <1>7 DEF Adds
  <1> QED BY <1>4, <1>8, SumIsRecursive DEF Adds

(* Any element may be the one that is counted apart.                       *)
LEMMA AnyFirst ==
  ASSUME NEW S, IsFiniteSet(S), NEW w, \A x \in S : w[x] \in Nat, NEW f, Adds(f, w, S)
  PROVE  \A s \in SUBSET S : \A r \in s : f[s] = w[r] + f[s \ {r}]
  <1> DEFINE bad == {s \in SUBSET S : ~\A r \in s : f[s] = w[r] + f[s \ {r}]}
  <1> SUFFICES ASSUME bad # {} PROVE FALSE
    OBVIOUS
  <1>1. PICK s \in bad : \A t \in SUBSET s : t # s => t \notin bad
    <2>1. bad \subseteq SUBSET S
      OBVIOUS
    <2> HIDE DEF bad
    <2> QED BY <2>1, SmallestSubset
  <1>2. PICK r \in s : f[s] # w[r] + f[s \ {r}]
    BY <1>1
  <1> DEFINE x == Chosen(s)
  <1>3. x \in s /\ f[s] = w[x] + f[s \ {x}] /\ s \in SUBSET S
    BY <1>1, <1>2, ChosenIsIn DEF Adds
  <1> HIDE DEF x
  <1>4. r # x
    BY <1>2, <1>3
  <1>5. f[s \ {x}] = w[r] + f[(s \ {x}) \ {r}]
    <2>1. s \ {x} \in SUBSET s /\ s \ {x} # s /\ r \in s \ {x}
      BY <1>2, <1>3, <1>4
    <2> QED BY <1>1, <2>1
  <1>6. f[s \ {r}] = w[x] + f[(s \ {r}) \ {x}]
    <2>1. s \ {r} \in SUBSET s /\ s \ {r} # s /\ x \in s \ {r}
      BY <1>2, <1>3, <1>4
    <2> QED BY <1>1, <2>1
  <1>7. (s \ {r}) \ {x} = (s \ {x}) \ {r}
    OBVIOUS
  <1>8. f[(s \ {x}) \ {r}] \in Nat /\ w[r] \in Nat /\ w[x] \in Nat
    BY <1>2, <1>3 DEF Adds
  <1>9. f[s \ {r}] = w[x] + f[(s \ {x}) \ {r}]
    BY <1>6, <1>7
  <1> HIDE DEF bad
  <1> QED BY <1>2, <1>3, <1>5, <1>8, <1>9

LEMMA SumWithout ==
  ASSUME NEW S, IsFiniteSet(S), NEW w, \A x \in S : w[x] \in Nat, NEW r \in S
  PROVE  /\ SumFunctionOnSet(w, S) \in Nat /\ SumFunctionOnSet(w, S \ {r}) \in Nat
         /\ SumFunctionOnSet(w, S) = w[r] + SumFunctionOnSet(w, S \ {r})
  <1> DEFINE R == S \ {r}
             f == SumsOf(w, S)
             g == SumsOf(w, R)
  <1>1. IsFiniteSet(R)
    BY FS_RemoveElement
  <1>2. Adds(f, w, S) /\ SumFunctionOnSet(w, S) = f[S]
    BY SumsAdd
  <1>3. Adds(g, w, R) /\ SumFunctionOnSet(w, R) = g[R]
    BY <1>1, SumsAdd
  <1> HIDE DEF f, g
  <1>4. f[R] = g[R]
    <2>1. R \in SUBSET S /\ S \in SUBSET S /\ R \in SUBSET (S \cap R)
      OBVIOUS
    <2>2. \A x \in S \cap R : w[x] = w[x]
      OBVIOUS
    <2> HIDE DEF R
    <2>3. \A s \in SUBSET (S \cap R) : f[s] = g[s]
      BY <1>2, <1>3, <2>1, <2>2, SumsAgree
    <2> QED BY <2>1, <2>3
  <1>5. f[S] = w[r] + f[R]
    BY <1>2, AnyFirst
  <1> QED BY <1>2, <1>3, <1>4, <1>5 DEF Adds

LEMMA SumIsLocal ==
  ASSUME NEW S, IsFiniteSet(S), NEW v, NEW w, \A x \in S : v[x] = w[x] /\ w[x] \in Nat
  PROVE  SumFunctionOnSet(v, S) = SumFunctionOnSet(w, S)
  <1> DEFINE f == SumsOf(v, S)
             g == SumsOf(w, S)
  <1>1. /\ Adds(f, v, S) /\ SumFunctionOnSet(v, S) = f[S]
        /\ Adds(g, w, S) /\ SumFunctionOnSet(w, S) = g[S]
    BY SumsAdd
  <1> HIDE DEF f, g
  <1>2. PICK T \in SUBSET S : T = S
    OBVIOUS
  <1>3. T \in SUBSET (S \cap T) /\ \A x \in S \cap T : v[x] = w[x]
    BY <1>2
  <1>4. Adds(g, w, T)
    BY <1>1, <1>2
  <1>5. \A s \in SUBSET (S \cap T) : f[s] = g[s]
    BY <1>1, <1>3, <1>4, SumsAgree
  <1> QED BY <1>1, <1>2, <1>3, <1>5

(* A sum changes by what one of its terms changes.                         *)
LEMMA SumChanges ==
  ASSUME NEW S, IsFiniteSet(S), NEW v, NEW w, NEW r \in S, v[r] \in Nat,
         \A x \in S : w[x] \in Nat /\ (x # r => v[x] = w[x])
  PROVE  /\ SumFunctionOnSet(w, S) \in Nat /\ SumFunctionOnSet(v, S) \in Nat
         /\ SumFunctionOnSet(v, S) + w[r] = SumFunctionOnSet(w, S) + v[r]
  <1>1. IsFiniteSet(S \ {r}) /\ \A x \in S : v[x] \in Nat
    BY FS_RemoveElement
  <1>2. SumFunctionOnSet(v, S \ {r}) = SumFunctionOnSet(w, S \ {r})
    BY <1>1, SumIsLocal
  <1>3. /\ SumFunctionOnSet(w, S) \in Nat /\ SumFunctionOnSet(w, S \ {r}) \in Nat
        /\ SumFunctionOnSet(w, S) = w[r] + SumFunctionOnSet(w, S \ {r})
    BY SumWithout
  <1>4. /\ SumFunctionOnSet(v, S) \in Nat
        /\ SumFunctionOnSet(v, S) = v[r] + SumFunctionOnSet(v, S \ {r})
    BY <1>1, SumWithout
  <1> QED BY <1>2, <1>3, <1>4

LEMMA SumIsNatural ==
  ASSUME NEW S, IsFiniteSet(S), NEW w, \A x \in S : w[x] \in Nat
  PROVE  SumFunctionOnSet(w, S) \in Nat
  <1> DEFINE f == SumsOf(w, S)
  <1>1. Adds(f, w, S) /\ SumFunctionOnSet(w, S) = f[S]
    BY SumsAdd
  <1> HIDE DEF f
  <1> QED BY <1>1 DEF Adds

(* Smaller terms, smaller sum.                                             *)
LEMMA SumIsMonotone ==
  ASSUME NEW S, IsFiniteSet(S), NEW v, NEW w, \A x \in S : v[x] \in Nat /\ w[x] \in Nat /\ v[x] <= w[x]
  PROVE  SumFunctionOnSet(v, S) <= SumFunctionOnSet(w, S)
  <1> DEFINE f == SumsOf(v, S)
             g == SumsOf(w, S)
             bad == {s \in SUBSET S : ~(f[s] <= g[s])}
  <1>1. /\ Adds(f, v, S) /\ SumFunctionOnSet(v, S) = f[S]
        /\ Adds(g, w, S) /\ SumFunctionOnSet(w, S) = g[S]
    BY SumsAdd
  <1> HIDE DEF f, g
  <1> SUFFICES ASSUME bad # {} PROVE FALSE
    BY <1>1
  <1>2. PICK s \in bad : \A t \in SUBSET s : t # s => t \notin bad
    <2>1. bad \subseteq SUBSET S
      OBVIOUS
    <2> HIDE DEF bad
    <2> QED BY <2>1, SmallestSubset
  <1>3. s # {}
    <2>1. f[{}] = 0 /\ g[{}] = 0
      BY <1>1 DEF Adds
    <2>2. ~(f[s] <= g[s])
      BY <1>2
    <2> HIDE DEF bad
    <2> SUFFICES ASSUME s = {} PROVE FALSE
      OBVIOUS
    <2>3. f[s] = 0 /\ g[s] = 0
      BY <2>1
    <2> QED BY <2>2, <2>3
  <1> DEFINE x == Chosen(s)
             t == s \ {x}
  <1>4. x \in s /\ x \in S
    BY <1>2, <1>3, ChosenIsIn
  <1>5. f[s] = v[x] + f[t] /\ g[s] = w[x] + g[t]
    BY <1>1, <1>2, <1>3 DEF Adds
  <1> HIDE DEF x
  <1>6. f[t] \in Nat /\ g[t] \in Nat
    BY <1>1, <1>2 DEF Adds
  <1>7. f[t] <= g[t]
    BY <1>2, <1>4
  <1>8. ~(f[s] <= g[s])
    BY <1>2
  <1>9. v[x] \in Nat /\ w[x] \in Nat /\ v[x] <= w[x]
    BY <1>4
  <1> HIDE DEF t, bad
  <1> QED BY <1>5, <1>6, <1>7, <1>8, <1>9

LEMMA SumOfNothing ==
  ASSUME NEW S, IsFiniteSet(S), NEW w, \A x \in S : w[x] = 0
  PROVE  SumFunctionOnSet(w, S) = 0
  <1> DEFINE f == SumsOf(w, S)
             bad == {s \in SUBSET S : f[s] # 0}
  <1>1. Adds(f, w, S) /\ SumFunctionOnSet(w, S) = f[S]
    BY SumsAdd
  <1> HIDE DEF f
  <1> SUFFICES ASSUME bad # {} PROVE FALSE
    BY <1>1
  <1>2. PICK s \in bad : \A t \in SUBSET s : t # s => t \notin bad
    <2>1. bad \subseteq SUBSET S
      OBVIOUS
    <2> HIDE DEF bad
    <2> QED BY <2>1, SmallestSubset
  <1>3. s \in SUBSET S /\ f[s] # 0
    BY <1>2
  <1>4. s # {}
    BY <1>1, <1>3 DEF Adds
  <1>5. Chosen(s) \in s
    BY <1>4, ChosenIsIn
  <1>6. f[s \ {Chosen(s)}] = 0
    BY <1>2, <1>3, <1>5
  <1>7. f[s] = w[Chosen(s)] + f[s \ {Chosen(s)}]
    BY <1>1, <1>3, <1>4 DEF Adds
  <1> QED BY <1>3, <1>5, <1>6, <1>7
-----------------------------------------------------------------------------

(* What the guard g may still give away was granted; while a denial stands *)
(* it is blocked, and on the day of the denial nothing is left.            *)
Backed(g, grant, denial) ==
    /\ g.remaining = Unknown => grant = Unknown
    /\ g.remaining > 0 => g.attempted + g.remaining <= grant
    /\ denial # 0 => g.blocked
    /\ denial # 0 /\ denial = g.day => g.remaining = 0
    /\ denial <= g.day

Guards == [day : 0 .. MaxDays, remaining : 0 .. Limit \cup {Unknown}, attempted : Nat,
           blocked : BOOLEAN, cached : BOOLEAN]

GuardInv ==
    /\ guard \in Guards /\ day \in 1 .. MaxDays /\ guard.day <= day
    /\ granted \in 0 .. Limit \cup {Unknown} /\ denied \in 0 .. MaxDays
    /\ Backed(guard, granted, denied)

Places == {"new", "waiting", "orphaned", "admitted", "sent", "denied", "unheard", "over"}
Entries == [status : {"none", "reserved", "completed", "failed"}, tokens : 0 .. Bound + Excess]

(* Where a request is says what its entry is.                              *)
Fitting(place, entry) ==
    /\ place \in {"new", "orphaned"} => entry = NoEntry
    /\ place \in {"waiting", "admitted", "sent", "denied"} => entry = Reserved
    /\ place = "unheard" => entry.status = "failed"
    /\ entry.status = "failed" => entry.tokens = Bound

RequestsAreLimited == Cardinality(Charged) <= MaxRequests

LedgerInv ==
    /\ entries \in [Requests -> Entries] /\ progress \in [Requests -> Places]
    /\ \A r \in Requests : Fitting(progress[r], entries[r])
    /\ RequestsAreLimited

IInv == GuardInv /\ LedgerInv
-----------------------------------------------------------------------------
LEMMA Extremes ==
  ASSUME NEW x \in Int, NEW y \in Int
  PROVE  /\ Max({x, y}) = IF x >= y THEN x ELSE y
         /\ Min({x, y}) = IF x <= y THEN x ELSE y
  <1>1. \A m \in {x, y} : (\A z \in {x, y} : m >= z) => m = IF x >= y THEN x ELSE y
    OBVIOUS
  <1>2. \E m \in {x, y} : \A z \in {x, y} : m >= z
    OBVIOUS
  <1>3. \A m \in {x, y} : (\A z \in {x, y} : m =< z) => m = IF x <= y THEN x ELSE y
    OBVIOUS
  <1>4. \E m \in {x, y} : \A z \in {x, y} : m =< z
    OBVIOUS
  <1> QED BY <1>1, <1>2, <1>3, <1>4 DEF Max, Min

(* The rollover forgets what was granted on an earlier day.                *)
LEMMA RolledIsBacked ==
  ASSUME GuardInv
  PROVE  LET grant == IF guard.day = day THEN granted ELSE Unknown
         IN  Rolled \in Guards /\ Rolled.day = day /\ Backed(Rolled, grant, denied)
  <1>1. guard \in Guards /\ day \in 1 .. MaxDays /\ granted \in 0 .. Limit \cup {Unknown}
        /\ denied \in 0 .. MaxDays /\ MaxDays \in Nat /\ Limit \in Nat
    BY AdmissionAssumption DEF GuardInv, Guards
  <1>2. Backed(guard, granted, denied) /\ guard.day <= day
    BY DEF GuardInv
  <1>3. CASE guard.day = day
    BY <1>1, <1>2, <1>3 DEF Rolled
  <1>4. CASE guard.day # day
    <2>1. Rolled = [day |-> day, remaining |-> Unknown, attempted |-> 0,
                    blocked |-> guard.blocked, cached |-> FALSE]
      BY <1>1, <1>4 DEF Rolled, Guards
    <2>2. denied < day
      BY <1>1, <1>2, <1>4 DEF Backed, Guards
    <2>3. Rolled \in Guards
      BY <1>1, <2>1 DEF Guards
    <2> QED BY <1>1, <1>2, <1>4, <2>1, <2>2, <2>3 DEF Backed, Unknown
  <1> QED BY <1>3, <1>4

(* A counter of the server, whatever it says, gives away nothing that the  *)
(* first one of the day did not grant.                                     *)
LEMMA FetchedIsBacked ==
  ASSUME GuardInv, NEW c \in 0 .. Limit \cup {Unknown}, Hear(c)
  PROVE  /\ Fetched(Rolled, c) \in Guards /\ Fetched(Rolled, c).day = day
         /\ Backed(Fetched(Rolled, c), granted', denied')
         /\ granted' \in 0 .. Limit \cup {Unknown} /\ denied' \in 0 .. MaxDays
  <1> DEFINE grant == IF guard.day = day THEN granted ELSE Unknown
             g == Rolled
             first == g.remaining = Unknown
             left == IF first THEN Max({0, c - g.attempted}) ELSE Min({g.remaining, c})
  <1>1. g \in Guards /\ g.day = day /\ Backed(g, grant, denied)
    BY RolledIsBacked
  <1>2. day \in 1 .. MaxDays /\ grant \in 0 .. Limit \cup {Unknown} /\ denied \in 0 .. MaxDays
        /\ MaxDays \in Nat /\ Limit \in Nat
    BY AdmissionAssumption DEF GuardInv
  <1>3. /\ granted' = IF grant = Unknown THEN c ELSE grant
        /\ denied' = IF c = 0 THEN day ELSE IF c > 0 /\ denied < day THEN 0 ELSE denied
    BY DEF Hear
  <1>4. /\ g.day \in 0 .. MaxDays /\ g.remaining \in 0 .. Limit \cup {Unknown} /\ g.attempted \in Nat
        /\ g.blocked \in BOOLEAN /\ g.cached \in BOOLEAN
        /\ g = [day |-> g.day, remaining |-> g.remaining, attempted |-> g.attempted,
                blocked |-> g.blocked, cached |-> g.cached]
    BY <1>1 DEF Guards
  <1>5. granted' \in 0 .. Limit \cup {Unknown} /\ denied' \in 0 .. MaxDays
    BY <1>2, <1>3
  <1>6. CASE c = Unknown
    <2>1. Fetched(g, c) = [day |-> g.day, remaining |-> g.remaining, attempted |-> g.attempted,
                           blocked |-> g.blocked, cached |-> TRUE]
      BY <1>4, <1>6 DEF Fetched
    <2>2. denied' = denied /\ granted' = grant
      BY <1>2, <1>3, <1>6 DEF Unknown
    <2>3. Fetched(g, c) \in Guards
      BY <1>4, <2>1 DEF Guards
    <2> QED BY <1>1, <1>5, <2>1, <2>2, <2>3 DEF Backed
  <1>7. CASE c # Unknown
    <2> HIDE DEF g
    <2>1. Fetched(g, c) = [day |-> g.day, remaining |-> left, attempted |-> g.attempted,
                           blocked |-> (g.blocked /\ ~first) \/ left = 0, cached |-> TRUE]
      BY <1>4, <1>7 DEF Fetched
    <2>2. c \in 0 .. Limit
      BY <1>7
    <2>3. left = IF first THEN (IF 0 >= c - g.attempted THEN 0 ELSE c - g.attempted)
                          ELSE (IF g.remaining <= c THEN g.remaining ELSE c)
      <3>1. c \in Int /\ 0 \in Int /\ c - g.attempted \in Int /\ g.remaining \in Int
        BY <1>2, <1>4, <2>2 DEF Unknown
      <3>2. Max({0, c - g.attempted}) = IF 0 >= c - g.attempted THEN 0 ELSE c - g.attempted
        BY <3>1, Extremes
      <3>3. Min({g.remaining, c}) = IF g.remaining <= c THEN g.remaining ELSE c
        BY <3>1, Extremes
      <3> QED BY <3>2, <3>3
    <2> HIDE DEF left
    <2>4. left \in 0 .. Limit
      BY <1>2, <1>4, <2>2, <2>3 DEF Unknown
    <2>5. left > 0 => g.attempted + left <= granted'
      BY <1>1, <1>2, <1>3, <1>4, <2>2, <2>3 DEF Backed, Unknown
    <2>6. denied' # 0 => left = 0 \/ (g.blocked /\ ~first)
      BY <1>1, <1>2, <1>3, <1>4, <2>2, <2>3 DEF Backed, Unknown
    <2>7. denied' # 0 /\ denied' = g.day => left = 0
      BY <1>1, <1>2, <1>3, <1>4, <2>2, <2>3 DEF Backed, Unknown
    <2>8. denied' <= g.day
      BY <1>1, <1>2, <1>3, <1>4, <2>2 DEF Backed
    <2>9. left # Unknown
      BY <2>4, <1>2 DEF Unknown
    <2>10. Fetched(g, c) \in Guards
      BY <1>4, <2>1, <2>4 DEF Guards
    <2>11. Backed(Fetched(g, c), granted', denied')
      <3> DEFINE f == Fetched(g, c)
      <3>1. f.day = g.day /\ f.remaining = left /\ f.attempted = g.attempted
        BY <2>1
      <3>2. f.blocked = ((g.blocked /\ ~first) \/ left = 0)
        BY <2>1
      <3>3. denied' # 0 => f.blocked
        BY <2>6, <3>2
      <3> HIDE DEF f
      <3>4. Backed(f, granted', denied')
        BY <2>5, <2>7, <2>8, <2>9, <3>1, <3>3 DEF Backed
      <3> QED BY <3>4 DEF f
    <2>12. Fetched(g, c).day = day
      BY <1>1, <2>1
    <2> QED BY <1>5, <2>10, <2>11, <2>12 DEF g
  <1> QED BY <1>6, <1>7

(* Deciding keeps the guard backed, and admits only what was granted.      *)
LEMMA DecisionIsBacked ==
  ASSUME NEW r \in Requests, NEW g \in Guards, g.day = day, day \in Nat, Limit \in Nat, Decide(r, g),
         Backed(g, granted', denied'), granted' \in 0 .. Limit \cup {Unknown}, r \in DOMAIN progress
  PROVE  /\ guard' \in Guards /\ guard'.day = day /\ Backed(guard', granted', denied')
         /\ progress[r] = "waiting" /\ progress'[r] = "admitted" =>
               /\ guard'.remaining # Unknown => guard'.attempted <= granted'
               /\ denied' = 0
  <1>1. CASE guard' = g /\ (g.blocked \/ g.remaining = 0) /\ ~(~g.blocked /\ g.remaining # 0)
    BY <1>1 DEF Decide, Advance
  <1>2. CASE ~g.blocked /\ g.remaining # 0 /\ guard' = Counted(g)
    <2> DEFINE rest == IF g.remaining = Unknown THEN Unknown ELSE g.remaining - 1
    <2>1. /\ g.day \in 0 .. MaxDays /\ g.remaining \in 0 .. Limit \cup {Unknown} /\ g.attempted \in Nat
          /\ g.cached \in BOOLEAN
      BY DEF Guards
    <2>2. guard' = [day |-> g.day, remaining |-> rest, attempted |-> g.attempted + 1,
                    blocked |-> g.blocked, cached |-> g.cached]
      BY <1>2 DEF Counted, Guards
    <2>3. rest \in 0 .. Limit \cup {Unknown} /\ (rest = Unknown <=> g.remaining = Unknown)
      BY <1>2, <2>1 DEF Unknown
    <2>4. denied' = 0
      BY <1>2 DEF Backed
    <2>5. rest # Unknown => g.attempted + 1 + rest <= granted' /\ g.attempted + 1 <= granted'
      BY <1>2, <2>1, <2>3 DEF Backed, Unknown
    <2>6. guard' \in Guards
      BY <2>1, <2>2, <2>3 DEF Guards
    <2>7. Backed(guard', granted', denied')
      <3>1. rest > 0 => g.attempted + 1 + rest <= granted'
        BY <2>1, <2>5 DEF Unknown
      <3>2. denied' <= g.day
        BY DEF Backed
      <3>3. rest = Unknown => granted' = Unknown
        BY <2>3 DEF Backed
      <3> QED BY <2>2, <2>4, <3>1, <3>2, <3>3 DEF Backed
    <2> QED BY <2>2, <2>4, <2>5, <2>6, <2>7
  <1> QED BY <1>1, <1>2 DEF Decide
-----------------------------------------------------------------------------
(* One request moves on with its entry.                                    *)
LEMMA Moves ==
  ASSUME LedgerInv, NEW r \in Requests, NEW to \in Places, NEW e \in Entries,
         progress' = [progress EXCEPT ![r] = to], entries' = [entries EXCEPT ![r] = e], Fitting(to, e),
         e.status = "none" \/ r \in Charged \/ Cardinality(Charged) < MaxRequests
  PROVE  LedgerInv'
  <1>1. entries' \in [Requests -> Entries] /\ progress' \in [Requests -> Places]
    BY DEF LedgerInv
  <1>2. \A q \in Requests : Fitting(progress'[q], entries'[q])
    <2> SUFFICES ASSUME NEW q \in Requests PROVE Fitting(progress'[q], entries'[q])
      OBVIOUS
    <2>1. CASE q = r
      <3>1. progress'[q] = to /\ entries'[q] = e
        BY <2>1 DEF LedgerInv
      <3> QED BY <3>1
    <2>2. CASE q # r
      <3>1. progress'[q] = progress[q] /\ entries'[q] = entries[q]
        BY <2>2 DEF LedgerInv
      <3> QED BY <3>1 DEF LedgerInv
    <2> QED BY <2>1, <2>2
  <1>3. RequestsAreLimited'
    <2>1. IsFiniteSet(Charged) /\ Cardinality(Charged) \in Nat /\ MaxRequests \in Nat
          /\ Cardinality(Charged) <= MaxRequests
      <3>1. Charged \subseteq Requests /\ IsFiniteSet(Requests) /\ MaxRequests \in Nat
        BY AdmissionAssumption DEF Charged
      <3>2. IsFiniteSet(Charged)
        BY <3>1, FS_Subset
      <3>3. Cardinality(Charged) \in Nat
        BY <3>2, FS_CardinalityType
      <3> QED BY <3>1, <3>2, <3>3 DEF LedgerInv, RequestsAreLimited
    <2>2. IsFiniteSet(Charged \cup {r})
          /\ Cardinality(Charged \cup {r}) = IF r \in Charged THEN Cardinality(Charged) ELSE Cardinality(Charged) + 1
      BY <2>1, FS_AddElement
    <2>3. Charged' \subseteq (IF e.status = "none" THEN Charged ELSE Charged \cup {r})
      <3> SUFFICES ASSUME NEW q \in Charged'
                   PROVE  q \in IF e.status = "none" THEN Charged ELSE Charged \cup {r}
        OBVIOUS
      <3>1. q \in Requests /\ entries'[q].status # "none"
        BY DEF Charged
      <3>2. CASE q = r
        <4>1. entries'[q] = e
          BY <3>2 DEF LedgerInv
        <4> QED BY <3>1, <3>2, <4>1
      <3>3. CASE q # r
        <4>1. entries'[q] = entries[q]
          BY <3>3 DEF LedgerInv
        <4> QED BY <3>1, <4>1 DEF Charged
      <3> QED BY <3>2, <3>3
    <2>4. CASE e.status = "none"
      <3>1. Cardinality(Charged') <= Cardinality(Charged) /\ Cardinality(Charged') \in Nat
        BY <2>1, <2>3, <2>4, FS_Subset, FS_CardinalityType
      <3> QED BY <2>1, <3>1 DEF RequestsAreLimited
    <2>5. CASE e.status # "none"
      <3>1. Cardinality(Charged') <= Cardinality(Charged \cup {r}) /\ Cardinality(Charged') \in Nat
        BY <2>2, <2>3, <2>5, FS_Subset, FS_CardinalityType
      <3>2. Cardinality(Charged \cup {r}) <= MaxRequests
        BY <2>1, <2>2, <2>5
      <3>3. Cardinality(Charged \cup {r}) \in Nat
        BY <2>2, FS_CardinalityType
      <3> QED BY <2>1, <3>1, <3>2, <3>3 DEF RequestsAreLimited
    <2> QED BY <2>4, <2>5
  <1> QED BY <1>1, <1>2, <1>3 DEF LedgerInv

(* A request moves on and its entry stays.                                 *)
LEMMA MovesAlone ==
  ASSUME LedgerInv, NEW r \in Requests, NEW to \in Places,
         progress' = [progress EXCEPT ![r] = to], UNCHANGED entries, Fitting(to, entries[r])
  PROVE  LedgerInv'
  <1>1. entries' = [entries EXCEPT ![r] = entries[r]] /\ entries[r] \in Entries
    BY DEF LedgerInv
  <1>2. entries[r].status = "none" \/ r \in Charged
    BY DEF Charged
  <1> QED BY <1>1, <1>2, Moves

LEMMA EntriesAreTyped ==
  /\ Bound \in Nat /\ Excess \in Nat /\ NoEntry \in Entries /\ Reserved \in Entries
  /\ NoEntry.status = "none" /\ Reserved.status = "reserved" /\ Reserved.tokens = Bound
  <1>1. Bound \in Nat /\ Excess \in Nat
    BY AdmissionAssumption
  <1>2. 0 \in 0 .. Bound + Excess /\ Bound \in 0 .. Bound + Excess
    BY <1>1
  <1> QED BY <1>1, <1>2 DEF NoEntry, Reserved, Entries

LEMMA InFlight ==
  ASSUME LedgerInv, NEW r \in Requests
  PROVE  /\ Fitting(progress[r], entries[r]) /\ r \in DOMAIN progress /\ entries[r] \in Entries
         /\ progress[r] \in {"waiting", "admitted", "sent", "denied"} => r \in Charged /\ entries[r] = Reserved
  BY EntriesAreTyped DEF LedgerInv, Fitting, Charged

(* The steps of a request that do not reach the guard.                     *)
LEMMA LedgerActions ==
  ASSUME LedgerInv, NEW r \in Requests,
         \/ Reserve(r) \/ AdmitPaid(r) \/ Send(r) \/ Fail(r) \/ Deny(r) \/ Cancel(r)
         \/ \E tokens \in 0 .. Bound + Excess : Return(r, tokens)
  PROVE  LedgerInv'
  <1>1. CASE Reserve(r)
    <2>1. CASE Fits
      <3>1. Advance(r, "new", "waiting") /\ entries' = [entries EXCEPT ![r] = Reserved]
        BY <1>1, <2>1 DEF Reserve
      <3>2. Fitting("waiting", Reserved) /\ Cardinality(Charged) < MaxRequests
        BY <2>1, EntriesAreTyped DEF Fitting, Fits
      <3> QED BY <3>1, <3>2, EntriesAreTyped, Moves DEF Advance, Places
    <2>2. CASE ~Fits
      <3>1. Advance(r, "new", "over") /\ UNCHANGED entries
        BY <1>1, <2>2 DEF Reserve
      <3>2. Fitting("over", entries[r])
        BY InFlight DEF Fitting
      <3> QED BY <3>1, <3>2, MovesAlone DEF Advance, Places
    <2> QED BY <2>1, <2>2
  <1>2. CASE AdmitPaid(r)
    <2>1. CASE Advance(r, "waiting", "admitted")
      <3>1. Fitting("admitted", entries[r])
        BY <2>1, InFlight DEF Fitting, Advance
      <3> QED BY <1>2, <2>1, <3>1, MovesAlone DEF AdmitPaid, Advance, Places
    <2>2. CASE Advance(r, "orphaned", "over")
      <3>1. Fitting("over", entries[r])
        BY InFlight DEF Fitting
      <3> QED BY <1>2, <2>2, <3>1, MovesAlone DEF AdmitPaid, Advance, Places
    <2> QED BY <1>2, <2>1, <2>2 DEF AdmitPaid
  <1>3. CASE Send(r)
    <2>1. Fitting("sent", entries[r])
      BY <1>3, InFlight DEF Fitting, Send, Advance
    <2> QED BY <1>3, <2>1, MovesAlone DEF Send, Advance, Places
  <1>4. CASE Fail(r)
    <2> DEFINE e == [status |-> "failed", tokens |-> entries[r].tokens]
    <2>1. r \in Charged /\ entries[r] = Reserved
      BY <1>4, InFlight DEF Fail, Advance
    <2>2. e \in Entries /\ Fitting("over", e)
      BY <2>1, EntriesAreTyped DEF Entries, Fitting
    <2> QED BY <1>4, <2>1, <2>2, Moves DEF Fail, Settle, Advance, Places
  <1>5. CASE Deny(r)
    <2>1. Fitting("denied", entries[r])
      BY <1>5, InFlight DEF Fitting, Deny, Advance
    <2> QED BY <1>5, <2>1, MovesAlone DEF Deny, Advance, Places
  <1>6. CASE Cancel(r)
    <2>1. Fitting("orphaned", NoEntry) /\ Fitting("over", NoEntry)
      BY EntriesAreTyped DEF Fitting
    <2>2. CASE Advance(r, "waiting", "orphaned") /\ ReleaseEntry(r)
      BY <2>1, <2>2, EntriesAreTyped, Moves DEF ReleaseEntry, Advance, Places
    <2>3. CASE Advance(r, "admitted", "over") /\ ReleaseEntry(r)
      BY <2>1, <2>3, EntriesAreTyped, Moves DEF ReleaseEntry, Advance, Places
    <2>4. CASE Advance(r, "denied", "unheard") /\ Settle(r, "failed", entries[r].tokens)
      <3> DEFINE e == [status |-> "failed", tokens |-> entries[r].tokens]
      <3>1. r \in Charged /\ entries[r] = Reserved
        BY <2>4, InFlight DEF Advance
      <3>2. e \in Entries /\ Fitting("unheard", e)
        BY <3>1, EntriesAreTyped DEF Entries, Fitting
      <3> QED BY <2>4, <3>1, <3>2, Moves DEF Settle, Advance, Places
    <2> QED BY <1>6, <2>2, <2>3, <2>4 DEF Cancel
  <1>7. ASSUME NEW tokens \in 0 .. Bound + Excess, Return(r, tokens) PROVE LedgerInv'
    <2> DEFINE e == [status |-> "completed", tokens |-> tokens]
    <2>1. r \in Charged
      BY <1>7, InFlight DEF Return, Advance
    <2>2. e \in Entries /\ Fitting("over", e)
      BY EntriesAreTyped DEF Entries, Fitting
    <2> QED BY <1>7, <2>1, <2>2, Moves DEF Return, Settle, Advance, Places
  <1> QED BY <1>1, <1>2, <1>3, <1>4, <1>5, <1>6, <1>7

(* What the ledger sees of a decision of the guard.                        *)
LEMMA DecisionLeavesTheLedger ==
  ASSUME LedgerInv, NEW r \in Requests, NEW g, Decide(r, g)
  PROVE  LedgerInv'
  <1>1. Fitting("over", NoEntry) /\ Fitting("over", entries[r])
    BY EntriesAreTyped, InFlight DEF Fitting
  <1>2. CASE Advance(r, "waiting", "over") /\ ReleaseEntry(r)
    BY <1>1, <1>2, EntriesAreTyped, Moves DEF ReleaseEntry, Advance, Places
  <1>3. CASE Advance(r, "orphaned", "over") /\ UNCHANGED entries
    BY <1>1, <1>3, MovesAlone DEF Advance, Places
  <1>4. CASE Advance(r, "waiting", "admitted") /\ UNCHANGED entries
    <2>1. Fitting("admitted", entries[r])
      BY <1>4, InFlight DEF Fitting, Advance
    <2> QED BY <1>4, <2>1, MovesAlone DEF Advance, Places
  <1> QED BY <1>2, <1>3, <1>4 DEF Decide

(* A denial that is heard closes the day.                                  *)
LEMMA ObserveStep ==
  ASSUME GuardInv, LedgerInv, NEW r \in Requests, Observe(r)
  PROVE  GuardInv' /\ LedgerInv'
  <1>1. LedgerInv'
    <2>1. CASE Advance(r, "denied", "over") /\ Settle(r, "failed", entries[r].tokens)
      <3> DEFINE e == [status |-> "failed", tokens |-> entries[r].tokens]
      <3>1. r \in Charged /\ entries[r] = Reserved
        BY <2>1, InFlight DEF Advance
      <3>2. e \in Entries /\ Fitting("over", e)
        BY <3>1, EntriesAreTyped DEF Entries, Fitting
      <3> QED BY <2>1, <3>1, <3>2, Moves DEF Settle, Advance, Places
    <2>2. CASE Advance(r, "unheard", "over") /\ UNCHANGED entries
      <3>1. Fitting("over", entries[r])
        BY InFlight DEF Fitting
      <3> QED BY <2>2, <3>1, MovesAlone DEF Advance, Places
    <2> QED BY <2>1, <2>2 DEF Observe
  <1>2. GuardInv'
    <2>1. Rolled \in Guards /\ Rolled.day = day
      BY RolledIsBacked
    <2>2. /\ guard' \in Guards /\ guard'.day = day /\ guard'.remaining = 0 /\ guard'.blocked
          /\ day' = day /\ denied' = day
      <3>1. guard' = [Rolled EXCEPT !.remaining = 0, !.blocked = TRUE] /\ day' = day /\ denied' = day
        BY DEF Observe
      <3>2. 0 \in 0 .. Limit
        BY AdmissionAssumption
      <3> QED BY <2>1, <3>1, <3>2 DEF Guards
    <2>3. granted' \in 0 .. Limit \cup {Unknown} /\ day \in 1 .. MaxDays /\ MaxDays \in Nat
      BY AdmissionAssumption DEF GuardInv, Observe
    <2>4. Backed(guard', granted', denied')
      BY <2>2, <2>3 DEF Backed, Unknown
    <2> QED BY <2>2, <2>3, <2>4 DEF GuardInv
  <1> QED BY <1>1, <1>2
-----------------------------------------------------------------------------
LEMMA InitIsInductive == AdmissionInit => GuardInv /\ LedgerInv
  <1> SUFFICES ASSUME AdmissionInit PROVE GuardInv /\ LedgerInv
    OBVIOUS
  <1>1. GuardInv
    BY AdmissionAssumption DEF AdmissionInit, GuardInv, Guards, Backed, Unknown
  <1>2. Charged = {}
    BY EntriesAreTyped DEF AdmissionInit, Charged
  <1>3. RequestsAreLimited
    <2>1. Cardinality(Charged) = 0 /\ MaxRequests \in Nat
      BY <1>2, FS_EmptySet, AdmissionAssumption
    <2> QED BY <2>1 DEF RequestsAreLimited
  <1>4. \A r \in Requests : Fitting(progress[r], entries[r])
    BY EntriesAreTyped DEF AdmissionInit, Fitting
  <1>5. entries \in [Requests -> Entries] /\ progress \in [Requests -> Places]
    BY EntriesAreTyped DEF AdmissionInit, Places
  <1> QED BY <1>1, <1>3, <1>4, <1>5 DEF LedgerInv

LEMMA GuardUnchanged ==
  ASSUME GuardInv, UNCHANGED <<Quota, day>>
  PROVE  GuardInv'
  BY DEF GuardInv, Quota, Backed

(* An admission of a free request, or its refusal, by counters at hand or  *)
(* by fresh ones.                                                          *)
LEMMA AdmitStep ==
  ASSUME GuardInv, LedgerInv, NEW r \in Requests,
         AdmitCached(r) \/ \E c \in 0 .. Limit \cup {Unknown} : AdmitFetched(r, c)
  PROVE  /\ GuardInv' /\ LedgerInv'
         /\ progress[r] = "waiting" /\ progress'[r] = "admitted" =>
               /\ guard'.remaining # Unknown => guard'.attempted <= granted'
               /\ denied' = 0
  <1>1. PICK g \in Guards : /\ Decide(r, g) /\ g.day = day /\ day' = day
                            /\ Backed(g, granted', denied')
                            /\ granted' \in 0 .. Limit \cup {Unknown} /\ denied' \in 0 .. MaxDays
    <2>1. CASE AdmitCached(r)
      <3>1. Rolled.cached /\ Decide(r, Rolled) /\ UNCHANGED <<day, granted, denied>>
        BY <2>1 DEF AdmitCached
      <3>2. guard.day = day
        <4> SUFFICES ASSUME guard.day # day PROVE FALSE
          OBVIOUS
        <4>1. guard \in Guards
          BY DEF GuardInv
        <4>2. Rolled.cached = FALSE
          BY <4>1 DEF Rolled, Guards
        <4> QED BY <3>1, <4>2
      <3>3. Rolled \in Guards /\ Rolled.day = day /\ Backed(Rolled, granted, denied)
        BY <3>2, RolledIsBacked
      <3>4. granted \in 0 .. Limit \cup {Unknown} /\ denied \in 0 .. MaxDays
        BY DEF GuardInv
      <3>5. Backed(Rolled, granted', denied')
        BY <3>1, <3>3
      <3> QED BY <3>1, <3>3, <3>4, <3>5
    <2>2. ASSUME NEW c \in 0 .. Limit \cup {Unknown}, AdmitFetched(r, c)
          PROVE  \E g \in Guards : /\ Decide(r, g) /\ g.day = day /\ day' = day
                                   /\ Backed(g, granted', denied')
                                   /\ granted' \in 0 .. Limit \cup {Unknown} /\ denied' \in 0 .. MaxDays
      <3>1. Decide(r, Fetched(Rolled, c)) /\ Hear(c) /\ day' = day
        BY <2>2 DEF AdmitFetched
      <3> QED BY <3>1, FetchedIsBacked
    <2> QED BY <2>1, <2>2
  <1>2. day \in 1 .. MaxDays /\ MaxDays \in Nat /\ Limit \in Nat /\ r \in DOMAIN progress
    BY AdmissionAssumption, InFlight DEF GuardInv
  <1>3. day \in Nat
    BY <1>2
  <1>4. /\ guard' \in Guards /\ guard'.day = day /\ Backed(guard', granted', denied')
        /\ progress[r] = "waiting" /\ progress'[r] = "admitted" =>
              /\ guard'.remaining # Unknown => guard'.attempted <= granted'
              /\ denied' = 0
    BY <1>1, <1>2, <1>3, DecisionIsBacked
  <1>5. GuardInv'
    BY <1>1, <1>2, <1>3, <1>4 DEF GuardInv
  <1>6. LedgerInv'
    BY <1>1, DecisionLeavesTheLedger
  <1> QED BY <1>4, <1>5, <1>6

LEMMA StatusStep ==
  ASSUME GuardInv, LedgerInv, NEW c \in 0 .. Limit \cup {Unknown}, Status(c)
  PROVE  GuardInv' /\ LedgerInv'
  <1>1. guard' = Fetched(Rolled, c) /\ Hear(c) /\ UNCHANGED <<entries, progress, day>>
    BY DEF Status
  <1>2. day \in 1 .. MaxDays /\ MaxDays \in Nat
    BY AdmissionAssumption DEF GuardInv
  <1>3. GuardInv'
    BY <1>1, <1>2, FetchedIsBacked DEF GuardInv
  <1>4. LedgerInv'
    BY <1>1 DEF LedgerInv, RequestsAreLimited, Charged
  <1> QED BY <1>3, <1>4

LEMMA Inductive ==
  ASSUME GuardInv, LedgerInv, [AdmissionNext]_admissionVars
  PROVE  GuardInv' /\ LedgerInv'
  <1>1. CASE UNCHANGED admissionVars
    <2>1. LedgerInv'
      BY <1>1 DEF admissionVars, LedgerInv, RequestsAreLimited, Charged
    <2> QED BY <1>1, <2>1, GuardUnchanged DEF admissionVars, Quota
  <1>2. ASSUME NEW r \in Requests,
               \/ Reserve(r) \/ AdmitPaid(r) \/ Send(r) \/ Fail(r) \/ Deny(r) \/ Cancel(r)
               \/ \E tokens \in 0 .. Bound + Excess : Return(r, tokens)
        PROVE  GuardInv' /\ LedgerInv'
    <2>1. UNCHANGED <<Quota, day>>
      BY <1>2 DEF Reserve, AdmitPaid, Send, Fail, Deny, Cancel, Return
    <2> QED BY <1>2, <2>1, GuardUnchanged, LedgerActions
  <1>3. ASSUME NEW r \in Requests,
               AdmitCached(r) \/ \E c \in 0 .. Limit \cup {Unknown} : AdmitFetched(r, c)
        PROVE  GuardInv' /\ LedgerInv'
    BY <1>3, AdmitStep
  <1>4. ASSUME NEW r \in Requests, Observe(r) PROVE GuardInv' /\ LedgerInv'
    BY <1>4, ObserveStep
  <1>5. ASSUME NEW c \in 0 .. Limit \cup {Unknown}, Status(c) PROVE GuardInv' /\ LedgerInv'
    BY <1>5, StatusStep
  <1>6. CASE NewDay
    <2>1. LedgerInv'
      BY <1>6 DEF NewDay, LedgerInv, RequestsAreLimited, Charged
    <2>2. GuardInv'
      <3>1. guard' = guard /\ granted' = granted /\ denied' = denied /\ day' = day + 1 /\ day < MaxDays
        BY <1>6 DEF NewDay, Quota
      <3>2. guard.day \in 0 .. MaxDays /\ day \in 1 .. MaxDays /\ MaxDays \in Nat /\ guard.day <= day
        BY AdmissionAssumption DEF GuardInv, Guards
      <3>3. day + 1 \in 1 .. MaxDays /\ guard.day <= day + 1
        BY <3>1, <3>2
      <3> QED BY <3>1, <3>3 DEF GuardInv, Backed
    <2> QED BY <2>1, <2>2
  <1> QED BY <1>1, <1>2, <1>3, <1>4, <1>5, <1>6 DEF AdmissionNext

LEMMA InvariantHolds == AdmissionSpec => [](GuardInv /\ LedgerInv)
  <1>1. GuardInv /\ LedgerInv /\ [AdmissionNext]_admissionVars => (GuardInv /\ LedgerInv)'
    BY Inductive
  <1> QED BY <1>1, InitIsInductive, PTL DEF AdmissionSpec
-----------------------------------------------------------------------------
(* The types of the ledger and of the guard, for any number of requests.   *)
THEOREM TypeCorrect == AdmissionSpec => []AdmissionTypeOK
  <1>1. GuardInv /\ LedgerInv => AdmissionTypeOK
    BY DEF GuardInv, Guards, LedgerInv, Entries, Places, AdmissionTypeOK
  <1> QED BY <1>1, InvariantHolds, PTL

(* The tokens of the ledger e, what a provider reports beyond a reservation *)
(* left out.                                                               *)
Capped(e) == [r \in Requests |-> Min({e[r].tokens, Bound})]
WithinBudget(e) == SumFunctionOnSet(Capped(e), Requests) <= MaxTokens

LEMMA CappedIs ==
  ASSUME NEW e \in [Requests -> Entries], NEW r \in Requests
  PROVE  /\ Capped(e)[r] \in Nat /\ Capped(e)[r] <= e[r].tokens /\ e[r].tokens \in Nat
         /\ e[r] = NoEntry => Capped(e)[r] = 0
         /\ e[r] = Reserved => Capped(e)[r] = Bound
         /\ Capped(e)[r] <= Bound
  <1>1. Bound \in Nat /\ Excess \in Nat
    BY EntriesAreTyped
  <1>2. e[r].tokens \in 0 .. Bound + Excess
    BY DEF Entries
  <1>3. e[r].tokens \in Int /\ Bound \in Int /\ 0 <= e[r].tokens
    BY <1>1, <1>2
  <1>4. Capped(e)[r] = IF e[r].tokens <= Bound THEN e[r].tokens ELSE Bound
    <2>1. Min({e[r].tokens, Bound}) = IF e[r].tokens <= Bound THEN e[r].tokens ELSE Bound
      BY <1>3, Extremes
    <2> QED BY <2>1 DEF Capped
  <1>5. e[r] = NoEntry => e[r].tokens = 0
    BY DEF NoEntry
  <1>6. e[r] = Reserved => e[r].tokens = Bound
    BY DEF Reserved
  <1> QED BY <1>1, <1>3, <1>4, <1>5, <1>6

(* Only a reservation that fits adds to the ledger: every other step takes  *)
(* an entry out of it or settles one that was reserved.                    *)
LEMMA LedgerSteps ==
  ASSUME LedgerInv, [AdmissionNext]_admissionVars
  PROVE  \/ \E r \in Requests : Fits /\ entries[r] = NoEntry /\ entries' = [entries EXCEPT ![r] = Reserved]
         \/ \A r \in Requests : entries'[r] \in {entries[r], NoEntry} \/ entries[r] = Reserved
  <1> DEFINE Shrinks == \A r \in Requests : entries'[r] \in {entries[r], NoEntry} \/ entries[r] = Reserved
  <1>1. UNCHANGED entries => Shrinks
    OBVIOUS
  <1>2. ASSUME NEW r \in Requests, NEW e, entries' = [entries EXCEPT ![r] = e],
               e = NoEntry \/ entries[r] = Reserved
        PROVE  Shrinks
    <2> SUFFICES ASSUME NEW q \in Requests PROVE entries'[q] \in {entries[q], NoEntry} \/ entries[q] = Reserved
      OBVIOUS
    <2>1. entries'[q] = IF q = r THEN e ELSE entries[q]
      BY <1>2 DEF LedgerInv
    <2> QED BY <1>2, <2>1
  <1>3. ASSUME NEW r \in Requests, NEW from \in {"waiting", "admitted", "sent", "denied"}, NEW to,
               Advance(r, from, to)
        PROVE  entries[r] = Reserved
    BY <1>3, InFlight DEF Advance
  <1> HIDE DEF Shrinks
  <1>4. ASSUME NEW r \in Requests, Reserve(r), Fits
        PROVE  entries[r] = NoEntry /\ entries' = [entries EXCEPT ![r] = Reserved]
    BY <1>4, InFlight DEF Reserve, Advance, Fitting
  <1>5. ASSUME NEW r \in Requests, Reserve(r), ~Fits PROVE Shrinks
    BY <1>1, <1>5 DEF Reserve
  <1>6. ASSUME NEW r \in Requests, AdmitPaid(r) \/ Send(r) \/ Deny(r) PROVE Shrinks
    BY <1>1, <1>6 DEF AdmitPaid, Send, Deny
  <1>7. ASSUME NEW r \in Requests, Fail(r) PROVE Shrinks
    BY <1>2, <1>3, <1>7 DEF Fail, Settle
  <1>8. ASSUME NEW r \in Requests, NEW tokens \in 0 .. Bound + Excess, Return(r, tokens) PROVE Shrinks
    BY <1>2, <1>3, <1>8 DEF Return, Settle
  <1>9. ASSUME NEW r \in Requests, Cancel(r) PROVE Shrinks
    BY <1>2, <1>3, <1>9 DEF Cancel, Settle, ReleaseEntry
  <1>10. ASSUME NEW r \in Requests, Observe(r) PROVE Shrinks
    BY <1>1, <1>2, <1>3, <1>10 DEF Observe, Settle
  <1>11. ASSUME NEW r \in Requests, NEW g, Decide(r, g) PROVE Shrinks
    BY <1>1, <1>2, <1>11 DEF Decide, ReleaseEntry
  <1>12. ASSUME NEW r \in Requests,
                AdmitCached(r) \/ \E c \in 0 .. Limit \cup {Unknown} : AdmitFetched(r, c)
         PROVE  Shrinks
    BY <1>11, <1>12 DEF AdmitCached, AdmitFetched
  <1>13. UNCHANGED admissionVars \/ NewDay \/ (\E c \in 0 .. Limit \cup {Unknown} : Status(c)) => Shrinks
    BY <1>1 DEF admissionVars, NewDay, Status
  <1>14. Shrinks \/ \E r \in Requests : Fits /\ entries[r] = NoEntry /\ entries' = [entries EXCEPT ![r] = Reserved]
    BY <1>4, <1>5, <1>6, <1>7, <1>8, <1>9, <1>10, <1>12, <1>13 DEF AdmissionNext
  <1> QED BY <1>14 DEF Shrinks

LEMMA BudgetStep ==
  ASSUME LedgerInv, LedgerInv', WithinBudget(entries), [AdmissionNext]_admissionVars
  PROVE  WithinBudget(entries')
  <1> DEFINE v == Capped(entries)
             w == Capped(entries')
  <1>1. /\ entries \in [Requests -> Entries] /\ entries' \in [Requests -> Entries]
        /\ IsFiniteSet(Requests) /\ MaxTokens \in Nat /\ Bound \in Nat
    BY AdmissionAssumption DEF LedgerInv
  <1>2. \A r \in Requests :
            /\ v[r] \in Nat /\ v[r] <= Tokens[r] /\ Tokens[r] \in Nat /\ v[r] <= Bound
            /\ entries[r] = NoEntry => v[r] = 0
            /\ entries[r] = Reserved => v[r] = Bound
    BY <1>1, CappedIs DEF Tokens
  <1>3. \A r \in Requests :
            /\ w[r] \in Nat /\ w[r] <= Bound
            /\ entries'[r] = NoEntry => w[r] = 0
            /\ entries'[r] = Reserved => w[r] = Bound
    BY <1>1, CappedIs
  <1>4. \A r \in Requests : entries'[r] = entries[r] => w[r] = v[r]
    BY DEF Capped
  <1>5. SumFunctionOnSet(v, Requests) <= MaxTokens
    BY DEF WithinBudget
  <1>6. SumFunctionOnSet(w, Requests) <= MaxTokens
    <2> HIDE DEF v, w
    <2>1. CASE \A r \in Requests : entries'[r] \in {entries[r], NoEntry} \/ entries[r] = Reserved
      <3>1. \A r \in Requests : v[r] \in Nat /\ w[r] \in Nat /\ w[r] <= v[r]
        BY <1>1, <1>2, <1>3, <1>4, <2>1
      <3>2. SumFunctionOnSet(w, Requests) <= SumFunctionOnSet(v, Requests)
        BY <1>1, <3>1, SumIsMonotone
      <3>3. SumFunctionOnSet(w, Requests) \in Nat /\ SumFunctionOnSet(v, Requests) \in Nat
        BY <1>1, <1>2, <1>3, SumIsNatural
      <3> QED BY <1>1, <1>5, <3>2, <3>3
    <2>2. ASSUME NEW r \in Requests, Fits, entries[r] = NoEntry, entries' = [entries EXCEPT ![r] = Reserved]
          PROVE  SumFunctionOnSet(w, Requests) <= MaxTokens
      <3>1. entries'[r] = Reserved /\ \A x \in Requests : x # r => entries'[x] = entries[x]
        BY <1>1, <2>2
      <3>2. w[r] = Bound /\ v[r] = 0 /\ \A x \in Requests : v[x] \in Nat /\ (x # r => w[x] = v[x])
        BY <1>2, <1>3, <1>4, <2>2, <3>1
      <3>3. /\ SumFunctionOnSet(v, Requests) \in Nat /\ SumFunctionOnSet(w, Requests) \in Nat
            /\ SumFunctionOnSet(w, Requests) + v[r] = SumFunctionOnSet(v, Requests) + w[r]
        BY <1>1, <3>2, SumChanges
      <3>4. Spent + Bound <= MaxTokens
        BY <2>2 DEF Fits
      <3>5. SumFunctionOnSet(v, Requests) <= Spent /\ Spent \in Nat
        <4>1. SumFunctionOnSet(v, Requests) <= SumFunctionOnSet(Tokens, Requests)
          BY <1>1, <1>2, SumIsMonotone
        <4>2. SumFunctionOnSet(Tokens, Requests) \in Nat
          BY <1>1, <1>2, SumIsNatural
        <4> QED BY <4>1, <4>2 DEF Spent
      <3> QED BY <1>1, <3>2, <3>3, <3>4, <3>5
    <2> QED BY <2>1, <2>2, LedgerSteps
  <1> QED BY <1>6 DEF WithinBudget

LEMMA BudgetStart == AdmissionInit => WithinBudget(entries)
  <1> SUFFICES ASSUME AdmissionInit PROVE WithinBudget(entries)
    OBVIOUS
  <1>1. IsFiniteSet(Requests) /\ MaxTokens \in Nat /\ Bound \in Nat
    BY AdmissionAssumption
  <1>2. entries \in [Requests -> Entries] /\ \A r \in Requests : entries[r] = NoEntry
    BY EntriesAreTyped DEF AdmissionInit
  <1>3. \A r \in Requests : Capped(entries)[r] = 0
    BY <1>2, CappedIs
  <1>4. SumFunctionOnSet(Capped(entries), Requests) = 0
    BY <1>1, <1>3, SumOfNothing
  <1> QED BY <1>1, <1>4 DEF WithinBudget

(* The budget is kept, for any number of requests: what the provider may    *)
(* have seen is in the ledger, a failed request with all it reserved       *)
(* (BudgetLedger.settle: no retry is free), and the ledger stays within     *)
(* max_requests and max_tokens but for what providers report beyond a      *)
(* reservation, in any order of reservations, failures and cancellations.  *)
THEOREM BudgetIsKept == AdmissionSpec => []SpendingIsBounded
  <1>1. LedgerInv /\ WithinBudget(entries) => SpendingIsBounded
    <2> SUFFICES ASSUME LedgerInv, WithinBudget(entries) PROVE SpendingIsBounded
      OBVIOUS
    <2>1. ASSUME NEW r \in Requests, progress[r] \in {"sent", "denied", "unheard"} PROVE r \in Charged
      BY <2>1, InFlight DEF Fitting, Charged
    <2>2. ASSUME NEW r \in Requests, entries[r].status = "failed" PROVE entries[r].tokens = Bound
      BY <2>2, InFlight DEF Fitting
    <2>3. SumFunctionOnSet([r \in Requests |-> Min({entries[r].tokens, Bound})], Requests) <= MaxTokens
      BY DEF WithinBudget, Capped
    <2> QED BY <2>1, <2>2, <2>3 DEF SpendingIsBounded, LedgerInv, RequestsAreLimited
  <1>2. GuardInv /\ LedgerInv /\ WithinBudget(entries) /\ [AdmissionNext]_admissionVars
            => (GuardInv /\ LedgerInv /\ WithinBudget(entries))'
    <2> SUFFICES ASSUME GuardInv, LedgerInv, WithinBudget(entries), [AdmissionNext]_admissionVars
                 PROVE  GuardInv' /\ LedgerInv' /\ WithinBudget(entries)'
      OBVIOUS
    <2>1. GuardInv' /\ LedgerInv'
      BY Inductive
    <2>2. WithinBudget(entries')
      BY <2>1, BudgetStep
    <2>3. WithinBudget(entries)'
      BY <2>2
    <2> QED BY <2>1, <2>3
  <1> QED BY <1>1, <1>2, InitIsInductive, BudgetStart, PTL DEF AdmissionSpec

(* Free requests are sent only out of what the server granted on that day, *)
(* and never against a standing denial, for every order of counters,       *)
(* denials, rollovers and cancellations.                                   *)
THEOREM FreeRequestsStayGranted == AdmissionSpec => FreeRequestsAreGranted
  <1> DEFINE Granted(q) == progress[q] = "waiting" /\ progress'[q] = "admitted" =>
                             /\ guard'.remaining # Unknown => guard'.attempted <= granted'
                             /\ denied' = 0
  <1>1. ASSUME GuardInv, LedgerInv, AdmissionNext, NEW q \in Free PROVE Granted(q)
    <2> SUFFICES ASSUME progress[q] = "waiting", progress'[q] = "admitted"
                 PROVE  /\ guard'.remaining # Unknown => guard'.attempted <= granted'
                        /\ denied' = 0
      OBVIOUS
    <2>1. q \in Requests /\ progress \in [Requests -> Places]
      BY <1>1, AdmissionAssumption DEF LedgerInv
    <2>2. ASSUME NEW r \in Requests, NEW from, NEW to, Advance(r, from, to)
          PROVE  q = r /\ to = "admitted" /\ from = "waiting"
      BY <2>1, <2>2 DEF Advance
    <2>3. ~ \E r \in Requests : \/ Reserve(r) \/ Send(r) \/ Fail(r) \/ Deny(r) \/ Observe(r) \/ Cancel(r)
                               \/ \E tokens \in 0 .. Bound + Excess : Return(r, tokens)
      <3> SUFFICES ASSUME NEW r \in Requests,
                          \/ Reserve(r) \/ Send(r) \/ Fail(r) \/ Deny(r) \/ Observe(r) \/ Cancel(r)
                          \/ \E tokens \in 0 .. Bound + Excess : Return(r, tokens)
                   PROVE  FALSE
        OBVIOUS
      <3>1. \E from, to \in Places : Advance(r, from, to) /\ <<from, to>> # <<"waiting", "admitted">>
        BY DEF Reserve, Send, Fail, Deny, Observe, Cancel, Return, Places
      <3> QED BY <2>2, <3>1
    <2>4. ~ \E r \in Requests : AdmitPaid(r)
      <3> SUFFICES ASSUME NEW r \in Requests, AdmitPaid(r) PROVE FALSE
        OBVIOUS
      <3>1. r \notin Free /\ \E from, to \in Places : Advance(r, from, to)
        BY DEF AdmitPaid, Places
      <3> QED BY <2>2, <3>1
    <2>5. ~ NewDay /\ ~ \E c \in 0 .. Limit \cup {Unknown} : Status(c)
      BY DEF NewDay, Status
    <2>6. PICK r \in Requests : AdmitCached(r) \/ \E c \in 0 .. Limit \cup {Unknown} : AdmitFetched(r, c)
      BY <1>1, <2>3, <2>4, <2>5 DEF AdmissionNext
    <2>7. q = r
      <3>1. \E g : Decide(r, g)
        BY <2>6 DEF AdmitCached, AdmitFetched
      <3>2. \E from, to \in Places : Advance(r, from, to)
        BY <3>1 DEF Decide, Places
      <3> QED BY <2>2, <3>2
    <2> QED BY <1>1, <2>6, <2>7, AdmitStep
  <1>2. GuardInv /\ LedgerInv /\ [AdmissionNext]_admissionVars => [\A q \in Free : Granted(q)]_admissionVars
    BY <1>1
  <1>3. [\A q \in Free : Granted(q)]_admissionVars => [\A r \in Free : progress[r] = "waiting" /\ progress'[r] = "admitted" =>
             /\ guard'.remaining # Unknown => guard'.attempted <= granted'
             /\ denied' = 0]_admissionVars
    OBVIOUS
  <1> QED BY <1>2, <1>3, InvariantHolds, PTL DEF AdmissionSpec, FreeRequestsAreGranted
-----------------------------------------------------------------------------
(* Calls of MCP tools.  An item that is approved was accepted, and the      *)
(* human was told nothing before.                                           *)
AnswersAreTold ==
    \A o \in Operations :
        /\ item[o] \in {"none", "pending"} => told[o] = "nothing"
        /\ item[o] = "approved" => told[o] = "approved"

Permitted(o) == o \in ReadOnly \/ told[o] = "approved"

(* Who passed the question is permitted, and who was run has left the list. *)
RunsAreApproved ==
    /\ \A o \in Operations : phase[o] \in {"queued", "listing", "calling", "done"} => Permitted(o)
    /\ \A i \in DOMAIN executed :
        Permitted(executed[i]) /\ phase[executed[i]] \in {"calling", "done", "failed"}
    /\ \A i, j \in DOMAIN executed : executed[i] = executed[j] => i = j

(* Only the first of the queue works, and each call is in it once.          *)
Working == {"listing", "calling"}

LockIsHeld ==
    /\ \A i \in DOMAIN queue : phase[queue[i]] = "queued" \/ (i = 1 /\ phase[queue[i]] \in Working)
    /\ \A i, j \in DOMAIN queue : queue[i] = queue[j] => i = j
    /\ \A o \in Operations : phase[o] \in Working => queue # <<>> /\ queue[1] = o

(* The numbers of a connection: what is on its way answers a request that   *)
(* the server saw, and the last number is the one of the call at work.      *)
WireIsInOrder ==
    /\ connection = 0 => request = 0 /\ seen = {} /\ pipe = <<>>
    /\ \A r \in seen : r.number <= request
    /\ \A i \in DOMAIN pipe : pipe[i] \in seen
    /\ \A o \in Operations : phase[o] \in Working => \A r \in seen : r.number = request => r.of = o

McpIInv ==
    /\ McpTypeOK /\ AnswersAreTold /\ RunsAreApproved /\ LockIsHeld /\ WireIsInOrder
    /\ AnswersBelongToTheirCall

InboxTypeOK ==
    /\ now \in 0..MaxTime
    /\ item \in [Operations -> {"none", "pending", "approved", "denied", "expired", "cancelled"}]
    /\ askedAt \in [Operations -> 0..MaxTime] /\ waiting \subseteq Operations
    /\ told \in [Operations -> {"nothing", "approved", "denied"}]

(* A step of the inbox: what the human was told is not taken back.          *)
LEMMA InboxMoves ==
    ASSUME InboxTypeOK, AnswersAreTold,
           \/ \E o \in Operations :
                \/ Ask(o) \/ Answered(o, TRUE) \/ Answered(o, FALSE) \/ Expire(o) \/ CancelAsking(o)
                \/ Respond(o, TRUE) \/ Respond(o, FALSE)
           \/ CancelAll \/ Tick
    PROVE  InboxTypeOK' /\ AnswersAreTold' /\ \A u \in Operations : told[u] = "approved" => told'[u] = "approved"
<1> USE ApprovalAssumption DEF InboxTypeOK
<1>1. ASSUME NEW o \in Operations, Ask(o)
      PROVE  InboxTypeOK' /\ AnswersAreTold' /\ UNCHANGED told
  <2>1. InboxTypeOK' /\ UNCHANGED told
    BY <1>1 DEF Ask
  <2>2. AnswersAreTold'
    BY <1>1 DEF Ask, AnswersAreTold
  <2>3. QED
    BY <2>1, <2>2
<1>2. ASSUME NEW o \in Operations, Answered(o, TRUE) \/ Answered(o, FALSE)
      PROVE  InboxTypeOK' /\ AnswersAreTold' /\ UNCHANGED told
  BY <1>2 DEF Answered, AnswersAreTold
<1>3. ASSUME NEW o \in Operations, Expire(o) \/ CancelAsking(o)
      PROVE  InboxTypeOK' /\ AnswersAreTold' /\ UNCHANGED told
  <2>1. InboxTypeOK' /\ UNCHANGED told
    BY <1>3 DEF Expire, CancelAsking
  <2>2. AnswersAreTold'
    BY <1>3 DEF Expire, CancelAsking, AnswersAreTold
  <2>3. QED
    BY <2>1, <2>2
<1>4. ASSUME NEW o \in Operations, NEW approved \in BOOLEAN, Respond(o, approved)
      PROVE  InboxTypeOK' /\ AnswersAreTold' /\ \A u \in Operations : told[u] = "approved" => told'[u] = "approved"
  <2> DEFINE late == now >= Deadline(o)
             answer == IF approved THEN "approved" ELSE "denied"
  <2>1. /\ item[o] = "pending" /\ UNCHANGED <<now, askedAt, waiting>>
        /\ item' = [item EXCEPT ![o] = IF late THEN "expired" ELSE answer]
        /\ told' = [told EXCEPT ![o] = IF late THEN told[o] ELSE answer]
    BY <1>4 DEF Respond
  <2>2. told[o] = "nothing"
    BY <2>1 DEF AnswersAreTold
  <2> HIDE DEF late
  <2>3. InboxTypeOK'
    BY <2>1
  <2>4. AnswersAreTold'
    BY <2>1, <2>2 DEF AnswersAreTold
  <2>5. QED
    BY <2>1, <2>2, <2>3, <2>4
<1>5. CASE CancelAll
  BY <1>5 DEF CancelAll, AnswersAreTold
<1>6. CASE Tick
  BY <1>6 DEF Tick, AnswersAreTold
<1>7. QED
  BY <1>1, <1>2, <1>3, <1>4, <1>5, <1>6

LEMMA McpInitially == McpInit => McpIInv
<1> SUFFICES ASSUME McpInit PROVE McpIInv
  OBVIOUS
<1> USE McpAssumption, ApprovalAssumption DEF McpInit, ApprovalInit
<1>1. /\ <<>> \in Seq(Operations) /\ <<>> \in Seq([number : Nat, of : Operations])
      /\ DOMAIN <<>> = {}
  OBVIOUS
<1>2. McpTypeOK
  BY <1>1 DEF McpTypeOK, CallPhases
<1>3. AnswersAreTold /\ RunsAreApproved /\ LockIsHeld /\ WireIsInOrder /\ AnswersBelongToTheirCall
  BY <1>1 DEF AnswersAreTold, RunsAreApproved, LockIsHeld, WireIsInOrder, AnswersBelongToTheirCall, Working
<1>4. QED
  BY <1>2, <1>3 DEF McpIInv

LEMMA QueueIs ==
    ASSUME McpTypeOK
    PROVE  /\ queue \in Seq(Operations) /\ Len(queue) \in Nat /\ DOMAIN queue = 1..Len(queue)
           /\ \A i \in 1..Len(queue) : queue[i] \in Operations
           /\ queue # <<>> <=> Len(queue) > 0
  BY DEF McpTypeOK

(* A call joins the queue.                                                  *)
LEMMA QueueGrows ==
    ASSUME McpIInv, NEW o \in Operations, phase[o] \in {"idle", "asking"},
           phase' = [phase EXCEPT ![o] = "queued"], queue' = Append(queue, o)
    PROVE  queue' \in Seq(Operations) /\ phase' \in [Operations -> CallPhases] /\ LockIsHeld'
<1>1. McpTypeOK /\ LockIsHeld
  BY DEF McpIInv
<1>2. phase' \in [Operations -> CallPhases] /\ phase'[o] = "queued" /\ \A u \in Operations \ {o} : phase'[u] = phase[u]
  BY <1>1 DEF McpTypeOK, CallPhases
<1>3. \A i \in 1..Len(queue) : queue[i] # o
  BY <1>1, QueueIs DEF LockIsHeld, Working
<1>4. /\ queue' \in Seq(Operations) /\ Len(queue') = Len(queue) + 1 /\ DOMAIN queue' = 1..(Len(queue) + 1)
      /\ queue'[Len(queue) + 1] = o /\ \A i \in 1..Len(queue) : queue'[i] = queue[i]
  BY <1>1, QueueIs
<1>5. \A i \in DOMAIN queue' : i \in 1..Len(queue) \/ i = Len(queue) + 1
  BY <1>1, <1>4, QueueIs
<1>6. \A i \in DOMAIN queue' : phase'[queue'[i]] = "queued" \/ (i = 1 /\ phase'[queue'[i]] \in Working)
  BY <1>1, <1>2, <1>3, <1>4, <1>5, QueueIs DEF LockIsHeld
<1>7. \A i, j \in DOMAIN queue' : queue'[i] = queue'[j] => i = j
  BY <1>1, <1>3, <1>4, <1>5, QueueIs DEF LockIsHeld
<1>8. \A u \in Operations : phase'[u] \in Working => queue' # <<>> /\ queue'[1] = u
  <2>1. ASSUME NEW u \in Operations, phase'[u] \in Working PROVE queue' # <<>> /\ queue'[1] = u
    <3>1. u # o /\ phase[u] \in Working
      BY <1>2, <2>1 DEF Working
    <3>2. queue # <<>> /\ queue[1] = u /\ 1 \in 1..Len(queue)
      BY <1>1, <3>1, QueueIs DEF LockIsHeld
    <3>3. QED
      BY <1>1, <1>4, <3>2, QueueIs
  <2>2. QED
    BY <2>1
<1>9. QED
  BY <1>2, <1>4, <1>6, <1>7, <1>8 DEF LockIsHeld

(* The call at work gives the lock back.                                    *)
LEMMA QueueMoves ==
    ASSUME McpIInv, NEW o \in Operations, phase[o] \in Working, NEW to \in {"failed", "done"},
           phase' = [phase EXCEPT ![o] = to], queue' = Tail(queue)
    PROVE  /\ queue' \in Seq(Operations) /\ phase' \in [Operations -> CallPhases] /\ LockIsHeld'
           /\ \A u \in Operations : phase'[u] \notin Working
<1>1. McpTypeOK /\ LockIsHeld
  BY DEF McpIInv
<1>2. /\ phase' \in [Operations -> CallPhases] /\ phase'[o] = to /\ to \notin Working
      /\ \A u \in Operations \ {o} : phase'[u] = phase[u]
  BY <1>1 DEF McpTypeOK, CallPhases, Working
<1>3. queue # <<>> /\ queue[1] = o /\ Len(queue) > 0
  BY <1>1, QueueIs DEF LockIsHeld
<1>4. /\ queue' \in Seq(Operations) /\ Len(queue') = Len(queue) - 1 /\ DOMAIN queue' = 1..(Len(queue) - 1)
      /\ \A i \in 1..(Len(queue) - 1) : queue'[i] = queue[i + 1]
  BY <1>1, <1>3, QueueIs
<1>5. ASSUME NEW i \in DOMAIN queue' PROVE i + 1 \in DOMAIN queue /\ queue'[i] = queue[i + 1] /\ queue[i + 1] # o
  <2>1. i + 1 \in 1..Len(queue) /\ 1 \in 1..Len(queue) /\ i + 1 # 1
    BY <1>1, <1>3, <1>4, QueueIs
  <2>2. QED
    BY <1>1, <1>3, <1>4, <2>1, QueueIs DEF LockIsHeld
<1>6. \A u \in Operations : phase'[u] \notin Working
  BY <1>1, <1>2, <1>3 DEF LockIsHeld
<1>7. \A i \in DOMAIN queue' : phase'[queue'[i]] = "queued"
  <2>1. ASSUME NEW i \in DOMAIN queue' PROVE phase'[queue'[i]] = "queued"
    <3>1. i + 1 \in DOMAIN queue /\ queue'[i] = queue[i + 1] /\ queue[i + 1] # o /\ queue[i + 1] \in Operations
      BY <1>1, <1>5, QueueIs
    <3>2. phase[queue[i + 1]] = "queued"
      BY <1>1, <1>3, <3>1 DEF LockIsHeld
    <3>3. QED
      BY <1>2, <3>1, <3>2
  <2>2. QED
    BY <2>1
<1>8. \A i, j \in DOMAIN queue' : queue'[i] = queue'[j] => i = j
  <2>1. ASSUME NEW i \in DOMAIN queue', NEW j \in DOMAIN queue', queue'[i] = queue'[j] PROVE i = j
    <3>1. i + 1 = j + 1
      BY <1>1, <1>5, <2>1 DEF LockIsHeld
    <3>2. i \in Nat /\ j \in Nat
      BY <1>4
    <3>3. QED
      BY <3>1, <3>2
  <2>2. QED
    BY <2>1
<1>9. QED
  BY <1>2, <1>4, <1>6, <1>7, <1>8 DEF LockIsHeld

(* A call leaves the queue where it waits.                                  *)
LEMMA QueueShrinks ==
    ASSUME McpIInv, NEW o \in Operations, phase[o] = "queued",
           phase' = [phase EXCEPT ![o] = "failed"],
           NEW k \in DOMAIN queue, queue[k] = o, queue' = Without(k)
    PROVE  queue' \in Seq(Operations) /\ phase' \in [Operations -> CallPhases] /\ LockIsHeld'
<1>1. McpTypeOK /\ LockIsHeld
  BY DEF McpIInv
<1>2. phase' \in [Operations -> CallPhases] /\ phase'[o] = "failed" /\ \A u \in Operations \ {o} : phase'[u] = phase[u]
  BY <1>1 DEF McpTypeOK, CallPhases
<1> DEFINE at(i) == IF i < k THEN i ELSE i + 1
<1>3. k \in 1..Len(queue) /\ Len(queue) \in Nat /\ Len(queue) > 0
  BY <1>1, QueueIs
<1>4. /\ DOMAIN queue' = 1..(Len(queue) - 1) /\ \A i \in 1..(Len(queue) - 1) : queue'[i] = queue[at(i)]
      /\ queue' \in Seq(Operations) /\ Len(queue') = Len(queue) - 1
  <2>1. queue' = [i \in 1..(Len(queue) - 1) |-> IF i < k THEN queue[i] ELSE queue[i + 1]]
    BY DEF Without
  <2>2. \A i \in 1..(Len(queue) - 1) : at(i) \in 1..Len(queue)
    BY <1>3
  <2>3. \A i \in 1..(Len(queue) - 1) : queue'[i] \in Operations /\ queue'[i] = queue[at(i)]
    BY <1>1, <2>1, <2>2, QueueIs
  <2>4. Len(queue) - 1 \in Nat
    BY <1>3
  <2>5. queue' \in [1..(Len(queue) - 1) -> Operations]
    BY <2>1, <2>3
  <2>6. queue' \in Seq(Operations)
    BY <2>4, <2>5
  <2>7. QED
    BY <2>3, <2>4, <2>5, <2>6
<1>5. ASSUME NEW i \in DOMAIN queue'
      PROVE  at(i) \in DOMAIN queue /\ queue'[i] = queue[at(i)] /\ queue[at(i)] # o /\ (at(i) = 1 => i = 1)
  <2>1. at(i) \in 1..Len(queue) /\ at(i) # k /\ (at(i) = 1 => i = 1)
    BY <1>3, <1>4
  <2> HIDE DEF at
  <2>2. QED
    BY <1>1, <1>4, <2>1, QueueIs DEF LockIsHeld
<1>6. \A i, j \in DOMAIN queue' : at(i) = at(j) => i = j
  BY <1>3, <1>4
<1>7. \A u \in Operations : phase'[u] \in Working => queue' # <<>> /\ queue'[1] = u
  <2>1. ASSUME NEW u \in Operations, phase'[u] \in Working PROVE queue' # <<>> /\ queue'[1] = u
    <3>1. u # o /\ phase[u] \in Working
      BY <1>2, <2>1 DEF Working
    <3>2. queue[1] = u /\ k # 1
      BY <1>1, <3>1 DEF LockIsHeld
    <3>3. 1 \in 1..(Len(queue) - 1) /\ at(1) = 1
      BY <1>3, <3>2
    <3>4. QED
      BY <1>4, <3>2, <3>3
  <2>2. QED
    BY <2>1
<1> HIDE DEF at
<1>8. \A i \in DOMAIN queue' : phase'[queue'[i]] = "queued" \/ (i = 1 /\ phase'[queue'[i]] \in Working)
  <2>1. ASSUME NEW i \in DOMAIN queue'
        PROVE  phase'[queue'[i]] = "queued" \/ (i = 1 /\ phase'[queue'[i]] \in Working)
    <3>1. queue[at(i)] \in Operations \ {o} /\ queue'[i] = queue[at(i)] /\ (at(i) = 1 => i = 1)
      BY <1>1, <1>5, QueueIs
    <3>2. QED
      BY <1>1, <1>2, <1>5, <3>1 DEF LockIsHeld
  <2>2. QED
    BY <2>1
<1>9. \A i, j \in DOMAIN queue' : queue'[i] = queue'[j] => i = j
  BY <1>1, <1>5, <1>6 DEF LockIsHeld
<1>10. QED
  BY <1>2, <1>4, <1>7, <1>8, <1>9 DEF LockIsHeld

(* A call changes its phase, and the queue stays.                           *)
LEMMA QueueStays ==
    ASSUME McpIInv, NEW o \in Operations, NEW to \in CallPhases, phase' = [phase EXCEPT ![o] = to], UNCHANGED queue,
           \/ phase[o] \in {"idle", "asking"} /\ to \in {"asking", "failed"}
           \/ phase[o] = "queued" /\ queue # <<>> /\ Head(queue) = o /\ to = "listing"
           \/ phase[o] = "listing" /\ to = "calling"
    PROVE  queue' \in Seq(Operations) /\ phase' \in [Operations -> CallPhases] /\ LockIsHeld'
<1>1. McpTypeOK /\ LockIsHeld
  BY DEF McpIInv
<1>2. phase' \in [Operations -> CallPhases] /\ phase'[o] = to /\ \A u \in Operations \ {o} : phase'[u] = phase[u]
  BY <1>1 DEF McpTypeOK
<1>3. queue \in Seq(Operations) /\ DOMAIN queue = 1..Len(queue) /\ \A i \in DOMAIN queue : queue[i] \in Operations
  BY <1>1, QueueIs
<1>4. CASE phase[o] \in {"idle", "asking"} /\ to \in {"asking", "failed"}
  BY <1>1, <1>2, <1>3, <1>4 DEF LockIsHeld, Working
<1>5. CASE phase[o] = "queued" /\ queue # <<>> /\ Head(queue) = o /\ to = "listing"
  <2>1. queue[1] = o /\ 1 \in DOMAIN queue
    BY <1>1, <1>5, QueueIs
  <2>2. \A u \in Operations \ {o} : phase[u] \notin Working
    BY <1>1, <2>1 DEF LockIsHeld
  <2>3. QED
    BY <1>1, <1>2, <1>3, <1>5, <2>1, <2>2 DEF LockIsHeld, Working
<1>6. CASE phase[o] = "listing" /\ to = "calling"
  BY <1>1, <1>2, <1>3, <1>6 DEF LockIsHeld, Working
<1>7. QED
  BY <1>4, <1>5, <1>6

(* A call moves on: it was permitted, and one that was run has left the     *)
(* list.                                                                    *)
LEMMA RunsStay ==
    ASSUME McpIInv, NEW o \in Operations, NEW to \in CallPhases, phase' = [phase EXCEPT ![o] = to], UNCHANGED executed,
           \A u \in Operations : told[u] = "approved" => told'[u] = "approved",
           phase[o] \notin {"done", "failed"}, phase[o] = "calling" => to \in {"done", "failed"},
           to \in {"queued", "listing", "calling", "done"} => o \in ReadOnly \/ told'[o] = "approved"
    PROVE  RunsAreApproved'
<1>1. phase'[o] = to /\ \A u \in Operations \ {o} : phase'[u] = phase[u]
  BY DEF McpIInv, McpTypeOK
<1>2. \A i \in DOMAIN executed : executed[i] \in Operations
  BY DEF McpIInv, McpTypeOK
<1>3. \A u \in Operations : phase'[u] \in {"queued", "listing", "calling", "done"} => Permitted(u)'
  BY <1>1 DEF McpIInv, RunsAreApproved, Permitted
<1>4. \A i \in DOMAIN executed :
        Permitted(executed[i])' /\ phase'[executed[i]] \in {"calling", "done", "failed"}
  BY <1>1, <1>2 DEF McpIInv, RunsAreApproved, Permitted
<1>5. QED
  BY <1>3, <1>4 DEF McpIInv, RunsAreApproved, Permitted

(* Nobody begins to work, and the wire stays.                               *)
LEMMA WireStays ==
    ASSUME McpIInv, UNCHANGED wire, \A u \in Operations : phase'[u] \in Working => phase[u] \in Working
    PROVE  WireIsInOrder'
  BY DEF McpIInv, WireIsInOrder, wire

(* The types of the inbox are those of the client.                          *)
LEMMA InboxTypes == McpTypeOK => InboxTypeOK
  BY DEF McpTypeOK, InboxTypeOK

LEMMA CallStep == ASSUME McpIInv, NEW o \in Operations, CallTool(o) PROVE McpIInv'
<1>1. McpTypeOK /\ InboxTypeOK /\ AnswersAreTold /\ phase[o] = "idle" /\ UNCHANGED <<wire, executed, result>>
  BY InboxTypes DEF McpIInv, CallTool, Enter
<1>2. CASE o \in ReadOnly
  <2>1. phase' = [phase EXCEPT ![o] = "queued"] /\ queue' = Append(queue, o) /\ UNCHANGED approvalVars
    BY <1>2 DEF CallTool, Enter
  <2>2. queue' \in Seq(Operations) /\ phase' \in [Operations -> CallPhases] /\ LockIsHeld'
    BY <1>1, <2>1, QueueGrows
  <2>3. RunsAreApproved'
    BY <1>1, <1>2, <2>1, RunsStay DEF CallPhases, approvalVars
  <2>4. WireIsInOrder'
    BY <1>1, <2>1, WireStays DEF McpTypeOK, Working
  <2>5. McpTypeOK' /\ AnswersAreTold' /\ AnswersBelongToTheirCall'
    BY <1>1, <2>1, <2>2 DEF McpIInv, McpTypeOK, AnswersAreTold, AnswersBelongToTheirCall, wire, approvalVars
  <2>6. QED
    BY <2>2, <2>3, <2>4, <2>5 DEF McpIInv
<1>3. CASE o \notin ReadOnly
  <2>1. phase' = [phase EXCEPT ![o] = "asking"] /\ Ask(o) /\ UNCHANGED queue
    BY <1>3 DEF CallTool, Enter
  <2>2. queue' \in Seq(Operations) /\ phase' \in [Operations -> CallPhases] /\ LockIsHeld'
    BY <1>1, <2>1, QueueStays DEF CallPhases
  <2>3. InboxTypeOK' /\ AnswersAreTold' /\ \A u \in Operations : told[u] = "approved" => told'[u] = "approved"
    BY <1>1, <2>1, InboxMoves
  <2>4. RunsAreApproved'
    BY <1>1, <2>1, <2>3, RunsStay DEF CallPhases
  <2>5. WireIsInOrder'
    BY <1>1, <2>1, WireStays DEF McpTypeOK, Working
  <2>6. McpTypeOK' /\ AnswersBelongToTheirCall'
    BY <1>1, <2>1, <2>2, <2>3 DEF McpIInv, McpTypeOK, InboxTypeOK, AnswersBelongToTheirCall, wire
  <2>7. QED
    BY <2>2, <2>3, <2>4, <2>5, <2>6 DEF McpIInv
<1>4. QED
  BY <1>2, <1>3

LEMMA ApprovedStep == ASSUME McpIInv, NEW o \in Operations, Approved(o) PROVE McpIInv'
<1>1. McpTypeOK /\ InboxTypeOK /\ AnswersAreTold /\ phase[o] = "asking" /\ UNCHANGED <<wire, executed, result>>
  BY InboxTypes DEF McpIInv, Approved, Enter
<1>2. InboxTypeOK' /\ AnswersAreTold' /\ \A u \in Operations : told[u] = "approved" => told'[u] = "approved"
  BY <1>1, InboxMoves DEF Approved
<1>3. /\ queue' \in Seq(Operations) /\ phase' \in [Operations -> CallPhases] /\ LockIsHeld'
      /\ RunsAreApproved' /\ WireIsInOrder'
  <2>1. CASE Answered(o, TRUE) /\ phase' = [phase EXCEPT ![o] = "queued"] /\ queue' = Append(queue, o)
    <3>1. told'[o] = "approved"
      BY <1>1, <1>2, <2>1 DEF Answered, AnswersAreTold
    <3>2. RunsAreApproved'
      BY <1>1, <1>2, <2>1, <3>1, RunsStay DEF CallPhases
    <3>3. WireIsInOrder'
      BY <1>1, <2>1, WireStays DEF McpTypeOK, Working
    <3>4. QED
      BY <1>1, <2>1, <3>2, <3>3, QueueGrows
  <2>2. CASE phase' = [phase EXCEPT ![o] = "failed"] /\ UNCHANGED queue
    <3>1. RunsAreApproved'
      BY <1>1, <1>2, <2>2, RunsStay DEF CallPhases
    <3>2. WireIsInOrder'
      BY <1>1, <2>2, WireStays DEF McpTypeOK, Working
    <3>3. QED
      BY <1>1, <2>2, <3>1, <3>2, QueueStays DEF CallPhases
  <2>3. QED
    BY <2>1, <2>2 DEF Approved, Enter
<1>4. McpTypeOK' /\ AnswersBelongToTheirCall'
  BY <1>1, <1>2, <1>3 DEF McpIInv, McpTypeOK, InboxTypeOK, AnswersBelongToTheirCall, wire
<1>5. QED
  BY <1>2, <1>3, <1>4 DEF McpIInv

LEMMA BeginStep == ASSUME McpIInv, NEW o \in Operations, Begin(o) PROVE McpIInv'
<1>1. /\ McpTypeOK /\ queue # <<>> /\ Head(queue) = o /\ phase[o] = "queued"
      /\ phase' = [phase EXCEPT ![o] = "listing"]
      /\ UNCHANGED <<now, item, askedAt, waiting, told, queue, executed, result>>
  BY DEF McpIInv, Begin, Enter, approvalVars
<1>2. queue' \in Seq(Operations) /\ phase' \in [Operations -> CallPhases] /\ LockIsHeld'
  BY <1>1, QueueStays DEF CallPhases
<1>3. RunsAreApproved'
  <2>1. o \in ReadOnly \/ told[o] = "approved"
    BY <1>1 DEF McpIInv, RunsAreApproved, Permitted
  <2>2. QED
    BY <1>1, <2>1, RunsStay DEF CallPhases
<1>4. \A u \in Operations : phase'[u] \in Working => u = o
  <2>1. queue[1] = o
    BY <1>1, QueueIs
  <2>2. QED
    BY <1>1, <2>1 DEF McpIInv, McpTypeOK, LockIsHeld
<1>5. request \in Nat /\ connection \in 0..opened /\ opened \in 0..MaxConnections
      /\ seen \subseteq [number : Nat, of : Operations]
  BY <1>1 DEF McpTypeOK
<1>6. /\ WireIsInOrder'
      /\ connection' \in 0..opened' /\ opened' \in 0..MaxConnections /\ request' \in Nat
      /\ seen' \subseteq [number : Nat, of : Operations] /\ pipe' \in Seq([number : Nat, of : Operations])
  <2>1. CASE connection = 0
    <3>1. /\ opened < MaxConnections /\ connection' = opened + 1 /\ opened' = opened + 1
          /\ request' = 1 /\ seen' = {[number |-> 1, of |-> o]} /\ pipe' = <<>>
      BY <2>1 DEF Begin
    <3>2. connection' \in 0..opened' /\ opened' \in 0..MaxConnections /\ connection' # 0
      BY <1>5, <3>1, McpAssumption
    <3>3. \A r \in seen' : r.number = 1 /\ r.of = o
      BY <3>1
    <3>4. DOMAIN pipe' = {}
      BY <3>1
    <3>5. WireIsInOrder'
      BY <1>4, <3>1, <3>2, <3>3, <3>4 DEF WireIsInOrder
    <3>6. QED
      BY <3>1, <3>2, <3>5
  <2>2. CASE connection # 0
    <3>1. /\ request' = request + 1 /\ seen' = seen \union {[number |-> request + 1, of |-> o]}
          /\ UNCHANGED <<connection, opened, pipe>>
      BY <2>2 DEF Begin, SendRequest
    <3>2. \A r \in seen : r.number \in Nat /\ r.number <= request
      BY <1>5 DEF McpIInv, WireIsInOrder
    <3>3. \A r \in seen' : r.number <= request' /\ (r.number = request' => r.of = o)
      BY <1>5, <3>1, <3>2
    <3>4. \A i \in DOMAIN pipe' : pipe'[i] \in seen'
      BY <3>1 DEF McpIInv, WireIsInOrder
    <3>5. WireIsInOrder'
      BY <1>4, <2>2, <3>1, <3>3, <3>4 DEF WireIsInOrder
    <3>6. QED
      BY <1>1, <1>5, <3>1, <3>5 DEF McpTypeOK
  <2>3. QED
    BY <2>1, <2>2
<1>7. McpTypeOK' /\ AnswersAreTold' /\ AnswersBelongToTheirCall'
  BY <1>1, <1>2, <1>6 DEF McpIInv, McpTypeOK, AnswersAreTold, AnswersBelongToTheirCall
<1>8. QED
  BY <1>2, <1>3, <1>6, <1>7 DEF McpIInv

LEMMA AnswerStep == ASSUME McpIInv, NEW r \in seen, Answer(r) PROVE McpIInv'
<1>1. /\ McpTypeOK /\ connection # 0 /\ pipe' = Append(pipe, r)
      /\ UNCHANGED <<now, item, askedAt, waiting, told, phase, queue, connection, opened, request, seen, executed, result>>
  BY DEF McpIInv, Answer, approvalVars
<1>2. pipe' \in Seq([number : Nat, of : Operations]) /\ \A i \in DOMAIN pipe' : pipe'[i] \in seen
  <2> DEFINE numbered == [number : Nat, of : Operations]
  <2>1. pipe \in Seq(numbered) /\ r \in numbered /\ \A i \in DOMAIN pipe : pipe[i] \in seen
    BY <1>1 DEF McpIInv, McpTypeOK, WireIsInOrder
  <2> HIDE DEF numbered
  <2>2. /\ pipe' \in Seq(numbered) /\ DOMAIN pipe' = 1..(Len(pipe) + 1) /\ DOMAIN pipe = 1..Len(pipe)
        /\ pipe'[Len(pipe) + 1] = r /\ \A i \in 1..Len(pipe) : pipe'[i] = pipe[i]
        /\ Len(pipe) \in Nat
    BY <1>1, <2>1
  <2>3. \A i \in DOMAIN pipe' : i \in 1..Len(pipe) \/ i = Len(pipe) + 1
    BY <2>2
  <2>4. QED
    BY <2>1, <2>2, <2>3 DEF numbered
<1>3. McpTypeOK'
  BY <1>1, <1>2 DEF McpTypeOK
<1>4. WireIsInOrder'
  BY <1>1, <1>2 DEF McpIInv, WireIsInOrder
<1>5. AnswersAreTold' /\ RunsAreApproved' /\ LockIsHeld' /\ AnswersBelongToTheirCall'
  BY <1>1 DEF McpIInv, AnswersAreTold, RunsAreApproved, Permitted, LockIsHeld, AnswersBelongToTheirCall
<1>6. QED
  BY <1>3, <1>4, <1>5 DEF McpIInv

(* Whatever goes wrong on the connection closes it before the lock is given *)
(* back.                                                                    *)
LEMMA FailStep == ASSUME McpIInv, NEW o \in Operations, phase[o] \in Working, FailCall(o) PROVE McpIInv'
<1>1. /\ McpTypeOK /\ phase' = [phase EXCEPT ![o] = "failed"] /\ queue' = Tail(queue)
      /\ connection' = 0 /\ request' = 0 /\ seen' = {} /\ pipe' = <<>>
      /\ UNCHANGED <<now, item, askedAt, waiting, told, opened, executed, result>>
  BY DEF McpIInv, FailCall, approvalVars
<1>2. /\ queue' \in Seq(Operations) /\ phase' \in [Operations -> CallPhases] /\ LockIsHeld'
      /\ \A u \in Operations : phase'[u] \notin Working
  BY <1>1, QueueMoves
<1>3. RunsAreApproved'
  BY <1>1, RunsStay DEF CallPhases, Working
<1>4. McpTypeOK'
  BY <1>1, <1>2, McpAssumption DEF McpTypeOK
<1>5. WireIsInOrder'
  BY <1>1, <1>2 DEF WireIsInOrder
<1>6. AnswersAreTold' /\ AnswersBelongToTheirCall'
  BY <1>1 DEF McpIInv, AnswersAreTold, AnswersBelongToTheirCall
<1>7. QED
  BY <1>2, <1>3, <1>4, <1>5, <1>6 DEF McpIInv

LEMMA PipeMoves ==
    ASSUME McpIInv, pipe # <<>>
    PROVE  /\ Tail(pipe) \in Seq([number : Nat, of : Operations]) /\ Head(pipe) \in seen
           /\ \A i \in DOMAIN Tail(pipe) : Tail(pipe)[i] \in seen
           /\ connection # 0
<1> DEFINE numbered == [number : Nat, of : Operations]
<1>1. pipe \in Seq(numbered) /\ (\A i \in DOMAIN pipe : pipe[i] \in seen) /\ connection # 0
  BY DEF McpIInv, McpTypeOK, WireIsInOrder
<1> HIDE DEF numbered
<1>2. /\ Tail(pipe) \in Seq(numbered) /\ Head(pipe) = pipe[1] /\ 1 \in DOMAIN pipe
      /\ \A i \in DOMAIN Tail(pipe) : i + 1 \in DOMAIN pipe /\ Tail(pipe)[i] = pipe[i + 1]
  BY <1>1
<1>3. QED
  BY <1>1, <1>2 DEF numbered

(* The list of tools has come, and the tool is called.                      *)
LEMMA ListedStep ==
    ASSUME McpIInv, NEW o \in Operations, pipe # <<>>, pipe' = Tail(pipe),
           Enter(o, "listing", "calling"), SendRequest(o, request + 1), executed' = Append(executed, o),
           UNCHANGED <<queue, result, approvalVars, connection, opened>>
    PROVE  McpIInv'
<1>1. /\ McpTypeOK /\ phase[o] = "listing" /\ phase' = [phase EXCEPT ![o] = "calling"]
      /\ request' = request + 1 /\ seen' = seen \union {[number |-> request + 1, of |-> o]}
      /\ UNCHANGED <<now, item, askedAt, waiting, told>>
  BY DEF McpIInv, Enter, SendRequest, approvalVars
<1>2. queue' \in Seq(Operations) /\ phase' \in [Operations -> CallPhases] /\ LockIsHeld'
  BY <1>1, QueueStays DEF CallPhases
<1>3. phase'[o] = "calling" /\ \A u \in Operations \ {o} : phase'[u] = phase[u]
  BY <1>1 DEF McpTypeOK
<1>4. /\ executed' \in Seq(Operations) /\ Len(executed) \in Nat
      /\ DOMAIN executed = 1..Len(executed) /\ DOMAIN executed' = 1..(Len(executed) + 1)
      /\ executed'[Len(executed) + 1] = o /\ \A i \in DOMAIN executed : executed'[i] = executed[i]
      /\ \A i \in DOMAIN executed : executed[i] \in Operations
  BY <1>1 DEF McpTypeOK
<1>5. \A i \in DOMAIN executed' : i \in DOMAIN executed \/ i = Len(executed) + 1
  BY <1>4
<1>6. \A i \in DOMAIN executed : executed[i] # o
  BY <1>1 DEF McpIInv, RunsAreApproved
<1>7. Permitted(o)
  BY <1>1 DEF McpIInv, RunsAreApproved
<1>8. RunsAreApproved'
  <2>1. \A i \in DOMAIN executed' :
            Permitted(executed'[i]) /\ phase'[executed'[i]] \in {"calling", "done", "failed"}
    <3>1. ASSUME NEW i \in DOMAIN executed
          PROVE  Permitted(executed[i]) /\ phase'[executed[i]] \in {"calling", "done", "failed"}
      BY <1>3, <1>4, <1>6 DEF McpIInv, RunsAreApproved
    <3>2. QED
      BY <1>3, <1>4, <1>5, <1>7, <3>1
  <2>2. \A i, j \in DOMAIN executed' : executed'[i] = executed'[j] => i = j
    BY <1>4, <1>5, <1>6 DEF McpIInv, RunsAreApproved
  <2>3. \A u \in Operations : phase'[u] \in {"queued", "listing", "calling", "done"} => Permitted(u)
    BY <1>3, <1>7 DEF McpIInv, RunsAreApproved
  <2>4. QED
    BY <1>1, <2>1, <2>2, <2>3 DEF RunsAreApproved, Permitted
<1>9. request \in Nat /\ seen \subseteq [number : Nat, of : Operations]
  BY <1>1 DEF McpTypeOK
<1>10. WireIsInOrder'
  <2>1. \A u \in Operations : phase'[u] \in Working => u = o
    <3>1. queue[1] = o
      BY <1>1 DEF McpIInv, LockIsHeld, Working
    <3>2. QED
      BY <1>2, <3>1 DEF LockIsHeld
  <2>2. \A r \in seen : r.number \in Nat /\ r.number <= request
    BY <1>9 DEF McpIInv, WireIsInOrder
  <2>3. \A r \in seen' : r.number <= request' /\ (r.number = request' => r.of = o)
    BY <1>1, <1>9, <2>2
  <2>4. \A i \in DOMAIN pipe' : pipe'[i] \in seen'
    BY <1>1, PipeMoves
  <2>5. connection' # 0
    BY PipeMoves
  <2>6. QED
    BY <2>1, <2>3, <2>4, <2>5 DEF WireIsInOrder
<1>11. McpTypeOK'
  <2>1. pipe' \in Seq([number : Nat, of : Operations])
    BY PipeMoves
  <2>2. QED
    BY <1>1, <1>2, <1>4, <1>9, <2>1 DEF McpTypeOK
<1>12. AnswersAreTold' /\ AnswersBelongToTheirCall'
  BY <1>1 DEF McpIInv, AnswersAreTold, AnswersBelongToTheirCall
<1>13. QED
  BY <1>2, <1>8, <1>10, <1>11, <1>12 DEF McpIInv

(* The result has come: the number says that it is of this call.            *)
LEMMA ResultStep ==
    ASSUME McpIInv, NEW o \in Operations, pipe # <<>>, Head(pipe).number = request, pipe' = Tail(pipe),
           Enter(o, "calling", "done"), queue' = Tail(queue), result' = [result EXCEPT ![o] = Head(pipe).of],
           UNCHANGED <<request, seen, executed, approvalVars, connection, opened>>
    PROVE  McpIInv'
<1>1. /\ McpTypeOK /\ phase[o] = "calling" /\ phase' = [phase EXCEPT ![o] = "done"]
      /\ UNCHANGED <<now, item, askedAt, waiting, told>>
  BY DEF McpIInv, Enter, approvalVars
<1>2. /\ queue' \in Seq(Operations) /\ phase' \in [Operations -> CallPhases] /\ LockIsHeld'
      /\ \A u \in Operations : phase'[u] \notin Working
  BY <1>1, QueueMoves DEF Working
<1>3. Head(pipe).of = o
  BY <1>1, PipeMoves DEF McpIInv, WireIsInOrder, Working
<1>4. RunsAreApproved'
  <2>1. o \in ReadOnly \/ told[o] = "approved"
    BY <1>1 DEF McpIInv, RunsAreApproved, Permitted
  <2>2. QED
    BY <1>1, <2>1, RunsStay DEF CallPhases
<1>5. WireIsInOrder'
  BY <1>2, PipeMoves DEF McpIInv, WireIsInOrder
<1>6. result' \in [Operations -> Operations \union {NOBODY}] /\ AnswersBelongToTheirCall'
  BY <1>1, <1>3 DEF McpIInv, McpTypeOK, AnswersBelongToTheirCall
<1>7. McpTypeOK'
  BY <1>1, <1>2, <1>6, PipeMoves DEF McpTypeOK
<1>8. AnswersAreTold'
  BY <1>1 DEF McpIInv, AnswersAreTold
<1>9. QED
  BY <1>2, <1>4, <1>5, <1>6, <1>7, <1>8 DEF McpIInv

LEMMA CancelQueuedStep == ASSUME McpIInv, NEW o \in Operations, CancelQueued(o) PROVE McpIInv'
<1>1. /\ McpTypeOK /\ phase[o] = "queued" /\ phase' = [phase EXCEPT ![o] = "failed"]
      /\ UNCHANGED <<now, item, askedAt, waiting, told, connection, opened, request, seen, pipe, executed, result>>
  BY DEF McpIInv, CancelQueued, Enter, approvalVars, wire
<1>2. queue' \in Seq(Operations) /\ phase' \in [Operations -> CallPhases] /\ LockIsHeld'
  BY <1>1, QueueShrinks DEF CancelQueued
<1>3. RunsAreApproved'
  BY <1>1, RunsStay DEF CallPhases
<1>4. WireIsInOrder'
  BY <1>1, WireStays DEF McpTypeOK, Working, wire
<1>5. McpTypeOK' /\ AnswersAreTold' /\ AnswersBelongToTheirCall'
  BY <1>1, <1>2 DEF McpIInv, McpTypeOK, AnswersAreTold, AnswersBelongToTheirCall
<1>6. QED
  BY <1>2, <1>3, <1>4, <1>5 DEF McpIInv

LEMMA CloseManagerStep == ASSUME McpIInv, CloseManager PROVE McpIInv'
<1>1. /\ McpTypeOK /\ connection' = 0 /\ request' = 0 /\ seen' = {} /\ pipe' = <<>>
      /\ UNCHANGED <<now, item, askedAt, waiting, told, phase, queue, opened, executed, result>>
  BY DEF McpIInv, CloseManager, approvalVars
<1>2. McpTypeOK'
  BY <1>1, McpAssumption DEF McpTypeOK
<1>3. WireIsInOrder'
  BY <1>1 DEF WireIsInOrder
<1>4. AnswersAreTold' /\ RunsAreApproved' /\ LockIsHeld' /\ AnswersBelongToTheirCall'
  BY <1>1 DEF McpIInv, AnswersAreTold, RunsAreApproved, Permitted, LockIsHeld, AnswersBelongToTheirCall
<1>5. QED
  BY <1>2, <1>3, <1>4 DEF McpIInv

LEMMA HumanStep == ASSUME McpIInv, Human, UNCHANGED <<phase, queue, wire, executed, result>> PROVE McpIInv'
<1>1. McpTypeOK /\ InboxTypeOK /\ AnswersAreTold
  BY InboxTypes DEF McpIInv
<1>2. InboxTypeOK' /\ AnswersAreTold' /\ \A u \in Operations : told[u] = "approved" => told'[u] = "approved"
  BY <1>1, InboxMoves DEF Human
<1>3. McpTypeOK'
  BY <1>1, <1>2 DEF McpTypeOK, InboxTypeOK, wire
<1>4. RunsAreApproved'
  <2>1. \A i \in DOMAIN executed : executed[i] \in Operations
    BY <1>1 DEF McpTypeOK
  <2>2. QED
    BY <1>2, <2>1 DEF McpIInv, RunsAreApproved, Permitted
<1>5. LockIsHeld' /\ WireIsInOrder' /\ AnswersBelongToTheirCall'
  BY DEF McpIInv, LockIsHeld, WireIsInOrder, AnswersBelongToTheirCall, wire
<1>6. QED
  BY <1>2, <1>3, <1>4, <1>5 DEF McpIInv

LEMMA McpIInvSteps == McpIInv /\ [McpNext]_mcpVars => McpIInv'
<1> SUFFICES ASSUME McpIInv, [McpNext]_mcpVars PROVE McpIInv'
  OBVIOUS
<1>1. CASE UNCHANGED mcpVars
  BY <1>1 DEF McpIInv, McpTypeOK, AnswersAreTold, RunsAreApproved, Permitted, LockIsHeld, WireIsInOrder,
              AnswersBelongToTheirCall, mcpVars, approvalVars
<1>2. ASSUME NEW o \in Operations, CallTool(o) \/ Approved(o) \/ Begin(o) \/ CancelQueued(o) PROVE McpIInv'
  BY <1>2, CallStep, ApprovedStep, BeginStep, CancelQueuedStep
<1>3. ASSUME NEW o \in Operations, ReceiveAnswer(o) PROVE McpIInv'
  BY <1>3, FailStep, ListedStep, ResultStep DEF ReceiveAnswer, Working
<1>4. ASSUME NEW o \in Operations, BreakOff(o) PROVE McpIInv'
  BY <1>4, FailStep DEF BreakOff, Working
<1>5. ASSUME NEW r \in seen, Answer(r) PROVE McpIInv'
  BY <1>5, AnswerStep
<1>6. CASE CloseManager \/ (Human /\ UNCHANGED <<phase, queue, wire, executed, result>>)
  BY <1>6, CloseManagerStep, HumanStep
<1>7. QED
  BY <1>1, <1>2, <1>3, <1>4, <1>5, <1>6 DEF McpNext

(* The inductive invariant of the client, its types among it.               *)
THEOREM McpInvariant == McpSpec => []McpIInv
<1>1. McpInit => McpIInv
  BY McpInitially
<1>2. McpIInv /\ [McpNext]_mcpVars => McpIInv'
  BY McpIInvSteps
<1>3. QED
  BY <1>1, <1>2, PTL DEF McpSpec

(* For any number of calls and connections, the server is asked to run a    *)
(* tool once per call, and only one that is read-only or that the human was *)
(* told is approved (MCPManager.call_tool, ApprovalInbox).                  *)
THEOREM RunsWereApproved == McpSpec => []OnlyApprovedCallsRun
<1>1. McpIInv => OnlyApprovedCallsRun
  BY DEF McpIInv, RunsAreApproved, Permitted, OnlyApprovedCallsRun
<1>2. QED
  BY <1>1, McpInvariant, PTL

(* No call returns the answer of another, whatever timed out, was cancelled *)
(* or was answered twice before (_Connection.send, MCPManager._run).        *)
THEOREM CallsGetTheirAnswer == McpSpec => []AnswersBelongToTheirCall
<1>1. McpIInv => AnswersBelongToTheirCall
  BY DEF McpIInv
<1>2. QED
  BY <1>1, McpInvariant, PTL
-----------------------------------------------------------------------------
(* The index of the sources.  Who holds the lock: the watcher refreshes     *)
(* once and then updates what it was told; a search only refreshes.         *)
PassIsTyped ==
    pass \in [by : {"none", "watcher", "search"}, kind : {"none", "refresh", "update"},
              todo : SUBSET Paths, seen : SUBSET Paths, changed : BOOLEAN]

PassIsHeld ==
    /\ pass.kind = "none" => pass.by = "none"
    /\ pass.by = "none" => pass = Unlocked
    /\ pass.kind = "update" => pass.by = "watcher" /\ watcher = "ready" /\ pass.todo = yielded
    /\ pass.by = "watcher" => watcher = (IF pass.kind = "update" THEN "ready" ELSE "refreshing")
    /\ watcher = "ready" \/ pass # Unlocked => loaded

(* The watcher is subscribed, and the pass that began after that reads what *)
(* was changed before.                                                      *)
Tracking == watcher = "ready" \/ (watcher = "refreshing" /\ pass.by = "watcher")

Settled(p) == source[p] # LINK /\ p \in Paths \ (Hidden \union changing \union events \union yielded)

\* What a refresh has read of a file that nobody is told of is still so.
RefreshIsExact ==
    Tracking /\ pass.kind = "refresh" =>
        \A p \in Paths : Settled(p) =>
            /\ p \in pass.seen => files[p] = source[p]
            /\ p \notin pass.seen \union pass.todo => source[p] = ABSENT

(* What is searched was made with the entries of the index: a pass that     *)
(* changed an entry says so, and the first finds nothing that is searched.  *)
ChunksAreIndexed ==
    /\ ~loaded => chunks = Nothing /\ pass = Unlocked
    /\ ~broken /\ loaded /\ pass = Unlocked => chunks = files
    /\ ~broken /\ pass # Unlocked /\ ~pass.changed =>
        chunks = files \/ (chunks = Nothing /\ pass.kind = "refresh")

HitIsTyped == hit = NoHit \/ hit \in [path : Paths, chunk : Text, hash : Text]

HitsAreExact == ~broken => HashesAreOfIndexedText

IndexIInv ==
    /\ IndexTypeOK /\ PassIsTyped /\ HitIsTyped /\ PassIsHeld
    /\ RefreshIsExact /\ NoChangeIsMissed
    /\ ChunksAreIndexed /\ HitsAreExact /\ SnippetsFitTheirChunks

LEMMA IndexInitially == IndexInit => IndexIInv
<1> SUFFICES ASSUME IndexInit PROVE IndexIInv
  OBVIOUS
<1>1. IndexTypeOK /\ PassIsTyped /\ HitIsTyped
  <2>1. /\ source \in [Paths -> Text \union {LINK}] /\ changing = {} /\ changes = 0 /\ watcher = "off" /\ events = {} /\ yielded = {}
        /\ files = Nothing /\ chunks = Nothing /\ cache = Nothing /\ hit = NoHit /\ pass = Unlocked
        /\ ~loaded /\ ~mixed /\ ~broken /\ {loaded, mixed, broken} \subseteq BOOLEAN
    BY DEF IndexInit, Text
  <2>2. Nothing \in [Paths -> Text]
    BY DEF Nothing, Text
  <2>3. PassIsTyped /\ HitIsTyped
    BY <2>1 DEF PassIsTyped, HitIsTyped, Unlocked
  <2>4. QED
    BY <2>1, <2>2, <2>3, IndexAssumption DEF IndexTypeOK, Unlocked
<1>2. PassIsHeld /\ RefreshIsExact /\ NoChangeIsMissed /\ ChunksAreIndexed
  BY DEF IndexInit, PassIsHeld, RefreshIsExact, Tracking, NoChangeIsMissed, ChunksAreIndexed, Unlocked
<1>3. HitsAreExact /\ SnippetsFitTheirChunks
  BY DEF IndexInit, HitsAreExact, HashesAreOfIndexedText, SnippetsFitTheirChunks
<1>4. QED
  BY <1>1, <1>2, <1>3 DEF IndexIInv

\* What a search and its hit rest on is left as it is.
LEMMA SearchingStays ==
  ASSUME IndexIInv, UNCHANGED <<files, chunks, loaded, pass, hit, mixed, broken>>
  PROVE  HitIsTyped' /\ ChunksAreIndexed' /\ HitsAreExact' /\ SnippetsFitTheirChunks'
  BY DEF IndexIInv, HitIsTyped, ChunksAreIndexed, HitsAreExact, HashesAreOfIndexedText,
         SnippetsFitTheirChunks, Nothing, Unlocked

\* A change that begins or ends, and is told to a watcher that is there.
LEMMA ChangeStep ==
  ASSUME IndexIInv, NEW p \in Paths, BeginChange(p) \/ \E c \in Text \union {LINK} : EndChange(p, c)
  PROVE  IndexIInv'
<1>1. /\ IndexTypeOK /\ PassIsTyped /\ Notify(p)
      /\ UNCHANGED <<files, chunks, loaded, cache, pass, watcher, yielded, hit, mixed, broken>>
  BY DEF IndexIInv, BeginChange, EndChange, searching
<1>2. source' \in [Paths -> Text \union {LINK}] /\ changing' \subseteq Paths /\ changes' \in 0..MaxChanges
  BY <1>1, IndexAssumption DEF IndexTypeOK, BeginChange, EndChange
<1>3. \A q \in Paths \ {p} : source'[q] = source[q] /\ (q \in changing' <=> q \in changing)
  BY <1>1 DEF IndexTypeOK, BeginChange, EndChange
<1>4. /\ events' \subseteq Paths /\ events \subseteq events'
      /\ watcher # "off" => p \in events'
      /\ \A q \in Paths \ {p} : q \in events' <=> q \in events
  BY <1>1 DEF IndexTypeOK, Notify
<1>5. IndexTypeOK' /\ PassIsTyped'
  BY <1>1, <1>2, <1>4 DEF IndexTypeOK, PassIsTyped
<1>6. PassIsHeld'
  BY <1>1 DEF IndexIInv, PassIsHeld, Unlocked
<1>7. RefreshIsExact'
  BY <1>1, <1>3, <1>4 DEF IndexIInv, RefreshIsExact, Tracking, Settled
<1>8. NoChangeIsMissed'
  BY <1>1, <1>3, <1>4 DEF IndexIInv, NoChangeIsMissed
<1>9. QED
  BY <1>1, <1>5, <1>6, <1>7, <1>8, SearchingStays DEF IndexIInv

\* A watcher or a search takes the lock.
LEMMA BeginPassStep ==
  ASSUME IndexIInv, NEW who \in {"watcher", "search"}, NEW kind \in {"refresh", "update"}, NEW todo \in SUBSET Paths,
         BeginPass(who, kind, todo), UNCHANGED <<workspace, chunks, cache, watcher, events, yielded, searching, broken>>,
         kind = "refresh" => \A p \in Paths \ (Hidden \union todo) : source[p] \in {ABSENT, LINK},
         kind = "update" => who = "watcher" /\ todo = yielded,
         who = "watcher" => watcher = (IF kind = "update" THEN "ready" ELSE "refreshing")
  PROVE  IndexIInv'
<1>1. /\ IndexTypeOK /\ PassIsHeld /\ pass = Unlocked /\ loaded'
      /\ pass' = [by |-> who, kind |-> kind, todo |-> todo, seen |-> {}, changed |-> FALSE]
      /\ files' = (IF loaded THEN files ELSE cache)
      /\ UNCHANGED <<source, changing, changes, chunks, cache, watcher, events, yielded, hit, mixed, broken>>
  BY DEF IndexIInv, BeginPass, Loaded, workspace, searching
<1>2. IndexTypeOK' /\ PassIsTyped'
  BY <1>1 DEF IndexTypeOK, PassIsTyped
<1>3. PassIsHeld' /\ pass' # Unlocked
  BY <1>1 DEF PassIsHeld, Unlocked
<1>4. RefreshIsExact'
  BY <1>1 DEF RefreshIsExact, Tracking, Settled
<1>5. NoChangeIsMissed'
  BY <1>1 DEF IndexIInv, NoChangeIsMissed, PassIsHeld
<1>6. ChunksAreIndexed'
  <2>1. chunks = files' \/ (chunks = Nothing /\ kind = "refresh") \/ broken
    BY <1>1 DEF IndexIInv, ChunksAreIndexed, PassIsHeld
  <2>2. QED
    BY <1>1, <1>3, <2>1 DEF ChunksAreIndexed, Nothing
<1>7. HitIsTyped' /\ HitsAreExact' /\ SnippetsFitTheirChunks'
  BY <1>1 DEF IndexIInv, HitIsTyped, HitsAreExact, HashesAreOfIndexedText, SnippetsFitTheirChunks
<1>8. QED
  BY <1>2, <1>3, <1>4, <1>5, <1>6, <1>7 DEF IndexIInv

LEMMA CandidatesAreComplete ==
  ASSUME NEW todo \in Candidates
  PROVE  todo \in SUBSET Paths /\ \A p \in Paths \ (Hidden \union todo) : source[p] \in {ABSENT, LINK}
  BY DEF Candidates, Readable

\* A file that cannot be cut ends the pass.
LEMMA RaiseStep ==
  ASSUME IndexIInv, pass # Unlocked, Raise, UNCHANGED <<workspace, chunks, loaded, cache, events, searching>>
  PROVE  IndexIInv'
<1>1. /\ IndexTypeOK /\ PassIsHeld /\ pass' = Unlocked /\ broken' = TRUE
      /\ watcher' = IF pass.by = "watcher" THEN "dead" ELSE watcher
      /\ yielded' = IF pass.by = "watcher" THEN {} ELSE yielded
      /\ UNCHANGED <<source, changing, changes, files, chunks, loaded, cache, events, hit, mixed>>
  BY DEF IndexIInv, Raise, workspace, searching
<1>2. IndexTypeOK' /\ PassIsTyped' /\ loaded
  BY <1>1 DEF IndexTypeOK, PassIsTyped, PassIsHeld, Unlocked
<1>3. PassIsHeld'
  BY <1>1, <1>2 DEF PassIsHeld, Unlocked
<1>4. RefreshIsExact'
  BY <1>1 DEF RefreshIsExact, Unlocked
<1>5. NoChangeIsMissed'
  BY <1>1 DEF IndexIInv, NoChangeIsMissed
<1>6. ChunksAreIndexed'
  BY <1>1, <1>2 DEF ChunksAreIndexed
<1>7. HitIsTyped' /\ HitsAreExact' /\ SnippetsFitTheirChunks'
  BY <1>1 DEF IndexIInv, HitIsTyped, HitsAreExact, SnippetsFitTheirChunks
<1>8. QED
  BY <1>2, <1>3, <1>4, <1>5, <1>6, <1>7 DEF IndexIInv

LEMMA ReadIsText ==
  ASSUME IndexTypeOK, NEW p \in Paths, NEW c \in Read(p)
  PROVE  c \in Text /\ (p \notin changing /\ source[p] # LINK => c = source[p])
  BY DEF IndexTypeOK, Text, Read, Readable

\* One file of a refresh is read: a settled one reads as what it holds.
LEMMA RefreshFileStep == ASSUME IndexIInv, NEW p \in Paths, RefreshFile(p) PROVE IndexIInv'
<1>1. /\ IndexTypeOK /\ PassIsTyped /\ PassIsHeld /\ pass.kind = "refresh" /\ p \in pass.todo /\ pass # Unlocked
      /\ UNCHANGED <<source, changing, changes, chunks, loaded, cache, events, hit, mixed>>
  BY DEF IndexIInv, RefreshFile, workspace, searching, Unlocked
<1>2. CASE Raise
  BY <1>1, <1>2, RaiseStep DEF workspace, searching, RefreshFile
<1>3. CASE ~Raise
  <2>1. PICK c \in Read(p) :
          /\ UNCHANGED <<watcher, yielded, broken>>
          /\ \/ /\ c = ABSENT /\ UNCHANGED files
                /\ pass' = [pass EXCEPT !.todo = @ \ {p}]
             \/ /\ c # ABSENT /\ files' = [files EXCEPT ![p] = c] /\ files = files'
                /\ pass' = [pass EXCEPT !.todo = @ \ {p}, !.seen = @ \union {p}]
             \/ /\ c # ABSENT /\ files' = [files EXCEPT ![p] = c]
                /\ pass' = [pass EXCEPT !.todo = @ \ {p}, !.seen = @ \union {p}, !.changed = TRUE]
    <3>1. files \in [Paths -> Text]
      BY <1>1 DEF IndexTypeOK
    <3>2. \A c \in Read(p) : files[p] = c => files = [files EXCEPT ![p] = c]
      BY <3>1
    <3>3. QED
      BY <1>3, <3>2 DEF RefreshFile
  <2>2. c \in Text /\ (p \notin changing /\ source[p] # LINK => c = source[p])
    BY <1>1, ReadIsText
  <2>3. files' \in [Paths -> Text] /\ \A q \in Paths \ {p} : files'[q] = files[q]
    BY <1>1, <2>1, <2>2 DEF IndexTypeOK
  <2>4. /\ pass' \in [by : {"none", "watcher", "search"}, kind : {"none", "refresh", "update"},
                      todo : SUBSET Paths, seen : SUBSET Paths, changed : BOOLEAN]
        /\ pass'.by = pass.by /\ pass'.kind = "refresh" /\ pass'.todo = pass.todo \ {p}
        /\ pass'.seen \in {pass.seen, pass.seen \union {p}}
        /\ ~pass'.changed => files' = files /\ ~pass.changed
        /\ p \in pass'.seen => (p \in pass.seen /\ files'[p] = files[p]) \/ files'[p] = c
        /\ p \notin pass'.seen => c = ABSENT
    <3>1. files \in [Paths -> Text] /\ pass \in [by : {"none", "watcher", "search"}, kind : {"none", "refresh", "update"},
                      todo : SUBSET Paths, seen : SUBSET Paths, changed : BOOLEAN]
      BY <1>1 DEF IndexTypeOK, PassIsTyped
    <3>2. CASE /\ c = ABSENT /\ UNCHANGED files
               /\ pass' = [pass EXCEPT !.todo = @ \ {p}]
      BY <1>1, <3>1, <3>2
    <3>3. CASE /\ c # ABSENT /\ files' = [files EXCEPT ![p] = c] /\ files = files'
               /\ pass' = [pass EXCEPT !.todo = @ \ {p}, !.seen = @ \union {p}]
      BY <1>1, <3>1, <3>3
    <3>4. CASE /\ c # ABSENT /\ files' = [files EXCEPT ![p] = c]
               /\ pass' = [pass EXCEPT !.todo = @ \ {p}, !.seen = @ \union {p}, !.changed = TRUE]
      BY <1>1, <3>1, <3>4
    <3>5. QED
      BY <2>1, <3>2, <3>3, <3>4
  <2>5. IndexTypeOK' /\ PassIsTyped'
    BY <1>1, <2>1, <2>3, <2>4 DEF IndexTypeOK, PassIsTyped
  <2>6. PassIsHeld' /\ pass' # Unlocked
    BY <1>1, <2>1, <2>4 DEF PassIsHeld, Unlocked
  <2>7. RefreshIsExact'
    <3>1. SUFFICES ASSUME Tracking, NEW q \in Paths, Settled(q)
                   PROVE  /\ q \in pass'.seen => files'[q] = source[q]
                          /\ q \notin pass'.seen \union pass'.todo => source[q] = ABSENT
      BY <1>1, <2>1, <2>4 DEF RefreshIsExact, Tracking, Settled
    <3>2. /\ q \in pass.seen => files[q] = source[q]
          /\ q \notin pass.seen \union pass.todo => source[q] = ABSENT
      BY <1>1, <3>1 DEF IndexIInv, RefreshIsExact
    <3>3. q \notin changing /\ source[q] # LINK
      BY <3>1 DEF Settled
    <3>4. QED
      BY <2>2, <2>3, <2>4, <3>2, <3>3
  <2>8. NoChangeIsMissed'
    <3>1. files'[p] = files[p] \/ files'[p] = c
      BY <1>1, <2>1 DEF IndexTypeOK
    <3>2. QED
      BY <1>1, <2>1, <2>2, <2>3, <3>1 DEF IndexIInv, NoChangeIsMissed
  <2>9. ChunksAreIndexed'
    BY <1>1, <2>1, <2>4, <2>6 DEF IndexIInv, ChunksAreIndexed, Nothing
  <2>10. HitIsTyped' /\ HitsAreExact' /\ SnippetsFitTheirChunks'
    BY <1>1, <2>1 DEF IndexIInv, HitIsTyped, HitsAreExact, HashesAreOfIndexedText, SnippetsFitTheirChunks
  <2>11. QED
    BY <2>5, <2>6, <2>7, <2>8, <2>9, <2>10 DEF IndexIInv
<1>4. QED
  BY <1>2, <1>3

\* What was not seen is dropped: of the settled files, only one that is not there.
LEMMA EndRefreshStep == ASSUME IndexIInv, EndRefresh PROVE IndexIInv'
<1> DEFINE kept == [p \in Paths |-> IF p \in pass.seen THEN files[p] ELSE ABSENT]
           changed == pass.changed \/ kept # files
<1>1. /\ IndexTypeOK /\ PassIsTyped /\ PassIsHeld /\ pass.kind = "refresh" /\ pass.todo = {} /\ pass' = Unlocked
      /\ files' = kept /\ chunks' = (IF changed \/ chunks = Nothing THEN kept ELSE chunks)
      /\ cache' = (IF changed THEN kept ELSE cache)
      /\ watcher' = (IF pass.by = "watcher" THEN "ready" ELSE watcher)
      /\ UNCHANGED <<source, changing, changes, loaded, events, yielded, hit, mixed, broken>>
  BY DEF IndexIInv, EndRefresh, workspace, searching
<1>2. kept \in [Paths -> Text] /\ loaded
  BY <1>1 DEF IndexTypeOK, Text, PassIsHeld, Unlocked
<1>3. IndexTypeOK' /\ PassIsTyped'
  <2>1. {files', chunks', cache'} \subseteq [Paths -> Text]
    BY <1>1, <1>2 DEF IndexTypeOK
  <2> HIDE DEF kept
  <2>2. QED
    BY <1>1, <2>1 DEF IndexTypeOK, PassIsTyped, Unlocked
<1>4. PassIsHeld' /\ RefreshIsExact'
  BY <1>1, <1>2 DEF PassIsHeld, RefreshIsExact, Unlocked
<1>5. NoChangeIsMissed'
  <2>1. ASSUME watcher' = "ready", NEW p \in Paths, Settled(p) PROVE kept[p] = source[p]
    <3>1. Tracking
      BY <1>1, <2>1 DEF Tracking, PassIsHeld
    <3>2. /\ p \in pass.seen => files[p] = source[p]
          /\ p \notin pass.seen => source[p] = ABSENT
      BY <1>1, <2>1, <3>1 DEF IndexIInv, RefreshIsExact
    <3>3. QED
      BY <3>2
  <2> HIDE DEF kept
  <2>2. QED
    BY <1>1, <2>1 DEF NoChangeIsMissed, Settled
<1>6. ChunksAreIndexed'
  <2>1. broken \/ chunks' = files'
    <3>1. CASE changed \/ chunks = Nothing
      BY <1>1, <3>1
    <3>2. CASE ~changed /\ chunks # Nothing
      <4> HIDE DEF kept
      <4>1. kept = files /\ ~pass.changed /\ pass # Unlocked
        BY <1>1, <3>2 DEF Unlocked
      <4>2. QED
        BY <1>1, <3>2, <4>1 DEF IndexIInv, ChunksAreIndexed
    <3>3. QED
      BY <3>1, <3>2
  <2> HIDE DEF kept
  <2>2. QED
    BY <1>1, <1>2, <2>1 DEF ChunksAreIndexed
<1>7. HitIsTyped' /\ HitsAreExact' /\ SnippetsFitTheirChunks'
  BY <1>1 DEF IndexIInv, HitIsTyped, HitsAreExact, HashesAreOfIndexedText, SnippetsFitTheirChunks
<1>8. QED
  BY <1>3, <1>4, <1>5, <1>6, <1>7 DEF IndexIInv

\* One file the watcher was told of: it leaves the batch with its entry made again.
LEMMA UpdatePathStep == ASSUME IndexIInv, NEW p \in Paths, UpdatePath(p) PROVE IndexIInv'
<1>1. /\ IndexTypeOK /\ PassIsTyped /\ PassIsHeld /\ pass.kind = "update" /\ p \in pass.todo /\ pass # Unlocked
      /\ UNCHANGED <<source, changing, changes, chunks, loaded, cache, events, hit, mixed>>
  BY DEF IndexIInv, UpdatePath, workspace, searching, Unlocked
<1>2. CASE Raise
  BY <1>1, <1>2, RaiseStep DEF workspace, searching, UpdatePath
<1>3. CASE ~Raise
  <2>1. PICK c \in Read(p) :
          /\ UNCHANGED <<watcher, broken>> /\ yielded' = yielded \ {p}
          /\ files' = [files EXCEPT ![p] = c]
          /\ \/ /\ c = ABSENT
                /\ pass' = [pass EXCEPT !.todo = @ \ {p}, !.changed = @ \/ files[p] # ABSENT]
             \/ pass' = [pass EXCEPT !.todo = @ \ {p}, !.changed = TRUE]
    BY <1>3 DEF UpdatePath
  <2>2. c \in Text /\ (p \notin changing /\ source[p] # LINK => c = source[p])
    BY <1>1, ReadIsText
  <2>3. files \in [Paths -> Text] /\ files' \in [Paths -> Text] /\ files'[p] = c
        /\ \A q \in Paths \ {p} : files'[q] = files[q]
    BY <1>1, <2>1, <2>2 DEF IndexTypeOK
  <2>4. c = ABSENT /\ files[p] = ABSENT => files' = files
    BY <2>1, <2>3
  <2>5. /\ pass' \in [by : {"none", "watcher", "search"}, kind : {"none", "refresh", "update"},
                      todo : SUBSET Paths, seen : SUBSET Paths, changed : BOOLEAN]
        /\ pass'.by = pass.by /\ pass'.kind = "update" /\ pass'.todo = pass.todo \ {p}
        /\ ~pass'.changed => ~pass.changed /\ files' = files
    BY <1>1, <2>1, <2>4 DEF PassIsTyped
  <2>6. IndexTypeOK' /\ PassIsTyped'
    BY <1>1, <2>1, <2>3, <2>5 DEF IndexTypeOK, PassIsTyped
  <2>7. PassIsHeld' /\ pass' # Unlocked /\ RefreshIsExact'
    BY <1>1, <2>1, <2>5 DEF PassIsHeld, RefreshIsExact, Unlocked
  <2>8. NoChangeIsMissed'
    BY <1>1, <2>1, <2>2, <2>3 DEF IndexIInv, NoChangeIsMissed
  <2>9. ChunksAreIndexed'
    BY <1>1, <2>1, <2>5, <2>7 DEF IndexIInv, ChunksAreIndexed, Nothing
  <2>10. HitIsTyped' /\ HitsAreExact' /\ SnippetsFitTheirChunks'
    BY <1>1, <2>1 DEF IndexIInv, HitIsTyped, HitsAreExact, HashesAreOfIndexedText, SnippetsFitTheirChunks
  <2>11. QED
    BY <2>6, <2>7, <2>8, <2>9, <2>10 DEF IndexIInv
<1>4. QED
  BY <1>2, <1>3

LEMMA EndUpdateStep == ASSUME IndexIInv, EndUpdate PROVE IndexIInv'
<1>1. /\ IndexTypeOK /\ PassIsHeld /\ pass.kind = "update" /\ pass # Unlocked /\ pass' = Unlocked
      /\ chunks' = (IF pass.changed THEN files ELSE chunks)
      /\ cache' = (IF pass.changed THEN files ELSE cache)
      /\ UNCHANGED <<source, changing, changes, files, loaded, watcher, events, yielded, hit, mixed, broken>>
  BY DEF IndexIInv, EndUpdate, workspace, searching, Unlocked
<1>2. IndexTypeOK' /\ PassIsTyped'
  BY <1>1 DEF IndexTypeOK, PassIsTyped, Unlocked
<1>3. PassIsHeld' /\ RefreshIsExact' /\ NoChangeIsMissed'
  BY <1>1 DEF IndexIInv, PassIsHeld, RefreshIsExact, NoChangeIsMissed, Unlocked
<1>4. ChunksAreIndexed'
  BY <1>1 DEF IndexIInv, ChunksAreIndexed, PassIsHeld
<1>5. HitIsTyped' /\ HitsAreExact' /\ SnippetsFitTheirChunks'
  BY <1>1 DEF IndexIInv, HitIsTyped, HitsAreExact, HashesAreOfIndexedText, SnippetsFitTheirChunks
<1>6. QED
  BY <1>2, <1>3, <1>4, <1>5 DEF IndexIInv

\* The watcher starts, is given changes, or stops: only what it is told of moves.
LEMMA WatcherStep ==
  ASSUME IndexIInv, StartWatching \/ Yield \/ StopWatching
  PROVE  IndexIInv'
<1>1. /\ IndexTypeOK /\ PassIsTyped /\ PassIsHeld /\ pass.by # "watcher"
      /\ UNCHANGED <<source, changing, changes, files, chunks, loaded, cache, pass, hit, mixed, broken>>
  BY DEF IndexIInv, StartWatching, Yield, StopWatching, workspace, searching, PassIsHeld
<1>2. /\ watcher' \in {"off", "subscribed", "refreshing", "ready"}
      /\ watcher' = "ready" =>
            watcher = "ready" /\ \A p \in yielded \union events : source[p] # LINK => p \in yielded' \union events'
      /\ events' \subseteq Paths /\ yielded' \subseteq Paths
  BY <1>1 DEF StartWatching, Yield, StopWatching, IndexTypeOK
<1>3. IndexTypeOK' /\ PassIsTyped'
  BY <1>1, <1>2 DEF IndexTypeOK, PassIsTyped
<1>4. PassIsHeld'
  BY <1>1, <1>2 DEF PassIsHeld, Unlocked
<1>5. RefreshIsExact'
  BY <1>1, <1>2 DEF IndexIInv, RefreshIsExact, Tracking, Settled
<1>6. NoChangeIsMissed'
  BY <1>1, <1>2 DEF IndexIInv, NoChangeIsMissed
<1>7. QED
  BY <1>1, <1>3, <1>4, <1>5, <1>6, SearchingStays DEF IndexIInv

LEMMA PassBegins ==
  ASSUME IndexIInv, WatcherRefreshes \/ WatcherUpdates \/ SearchRefreshes
  PROVE  IndexIInv'
<1>1. CASE WatcherRefreshes
  <2>1. PICK todo \in Candidates : BeginPass("watcher", "refresh", todo)
    BY <1>1 DEF WatcherRefreshes
  <2>2. QED
    BY <1>1, <2>1, CandidatesAreComplete, BeginPassStep DEF WatcherRefreshes
<1>2. CASE WatcherUpdates
  <2>1. yielded \in SUBSET Paths
    BY DEF IndexIInv, IndexTypeOK
  <2>2. QED
    BY <1>2, <2>1, BeginPassStep DEF WatcherUpdates
<1>3. CASE SearchRefreshes
  <2>1. PICK todo \in Candidates : BeginPass("search", "refresh", todo)
    BY <1>3 DEF SearchRefreshes
  <2>2. QED
    BY <1>3, <2>1, CandidatesAreComplete, BeginPassStep DEF SearchRefreshes
<1>4. QED
  BY <1>1, <1>2, <1>3

LEMMA SearchStep == ASSUME IndexIInv, NEW p \in Paths, Search(p) PROVE IndexIInv'
<1>1. /\ IndexTypeOK /\ pass = Unlocked /\ loaded /\ hit' = [path |-> p, chunk |-> chunks[p], hash |-> files[p]]
      /\ UNCHANGED <<source, changing, changes, files, chunks, loaded, cache, pass, watcher, events, yielded, mixed, broken>>
  BY DEF IndexIInv, Search, workspace
<1>2. HitIsTyped' /\ hit'.chunk = chunks[p] /\ hit'.hash = files[p]
  BY <1>1 DEF IndexTypeOK, HitIsTyped
<1>3. HitsAreExact'
  BY <1>1, <1>2 DEF IndexIInv, ChunksAreIndexed, HitsAreExact, HashesAreOfIndexedText
<1>4. IndexTypeOK' /\ PassIsTyped' /\ PassIsHeld' /\ RefreshIsExact' /\ NoChangeIsMissed' /\ ChunksAreIndexed'
      /\ SnippetsFitTheirChunks'
  BY <1>1 DEF IndexIInv, IndexTypeOK, PassIsTyped, PassIsHeld, RefreshIsExact, Tracking, Settled,
              NoChangeIsMissed, ChunksAreIndexed, SnippetsFitTheirChunks, Nothing, Unlocked
<1>5. QED
  BY <1>2, <1>3, <1>4 DEF IndexIInv

LEMMA AddSnippetStep == ASSUME IndexIInv, AddSnippet PROVE IndexIInv'
<1>1. /\ IndexTypeOK /\ hit # NoHit /\ hit' = NoHit
      /\ UNCHANGED <<source, changing, changes, files, chunks, loaded, cache, pass, watcher, events, yielded, broken>>
  BY DEF IndexIInv, AddSnippet, workspace
<1>2. mixed' \in BOOLEAN /\ (~broken => mixed' = mixed)
  <2>1. PICK text \in Read(hit.path) : mixed' = (mixed \/ (text = hit.hash /\ text # hit.chunk))
    BY DEF AddSnippet
  <2>2. ~broken => hit.chunk = hit.hash
    BY <1>1 DEF IndexIInv, HitsAreExact, HashesAreOfIndexedText
  <2>3. QED
    BY <1>1, <2>1, <2>2 DEF IndexTypeOK
<1>3. HitIsTyped' /\ HitsAreExact' /\ SnippetsFitTheirChunks'
  BY <1>1, <1>2 DEF IndexIInv, HitIsTyped, HitsAreExact, HashesAreOfIndexedText, SnippetsFitTheirChunks
<1>4. IndexTypeOK' /\ PassIsTyped' /\ PassIsHeld' /\ RefreshIsExact' /\ NoChangeIsMissed' /\ ChunksAreIndexed'
  BY <1>1, <1>2 DEF IndexIInv, IndexTypeOK, PassIsTyped, PassIsHeld, RefreshIsExact, Tracking, Settled,
              NoChangeIsMissed, ChunksAreIndexed, Nothing, Unlocked
<1>5. QED
  BY <1>3, <1>4 DEF IndexIInv

LEMMA RestartStep == ASSUME IndexIInv, Restart PROVE IndexIInv'
<1>1. /\ IndexTypeOK /\ changes' = changes + 1 /\ changes < MaxChanges
      /\ files' = Nothing /\ chunks' = Nothing /\ ~loaded' /\ loaded' \in BOOLEAN /\ pass' = Unlocked
      /\ watcher' = "off" /\ events' = {} /\ yielded' = {} /\ hit' = NoHit
      /\ UNCHANGED <<source, changing, cache, mixed, broken>>
  BY DEF IndexIInv, Restart
<1>2. Nothing \in [Paths -> Text]
  BY DEF Nothing, Text
<1>3. IndexTypeOK' /\ PassIsTyped'
  BY <1>1, <1>2, IndexAssumption DEF IndexTypeOK, PassIsTyped, Unlocked
<1>4. PassIsHeld' /\ RefreshIsExact' /\ NoChangeIsMissed' /\ ChunksAreIndexed'
  BY <1>1 DEF PassIsHeld, RefreshIsExact, Tracking, NoChangeIsMissed, ChunksAreIndexed, Unlocked, Nothing
<1>5. HitIsTyped' /\ HitsAreExact' /\ SnippetsFitTheirChunks'
  BY <1>1 DEF IndexIInv, HitIsTyped, HitsAreExact, HashesAreOfIndexedText, SnippetsFitTheirChunks
<1>6. QED
  BY <1>3, <1>4, <1>5 DEF IndexIInv

LEMMA IndexIInvSteps == IndexIInv /\ [IndexNext]_indexVars => IndexIInv'
<1> SUFFICES ASSUME IndexIInv, [IndexNext]_indexVars PROVE IndexIInv'
  OBVIOUS
<1>1. CASE UNCHANGED indexVars
  <2>1. UNCHANGED <<source, changing, files, chunks, loaded, cache, pass, watcher, events, yielded, hit, mixed, broken, changes>>
    BY <1>1 DEF indexVars
  <2>2. IndexTypeOK' /\ PassIsTyped' /\ PassIsHeld' /\ RefreshIsExact' /\ NoChangeIsMissed'
    BY <2>1 DEF IndexIInv, IndexTypeOK, PassIsTyped, PassIsHeld, RefreshIsExact, Tracking, Settled,
                NoChangeIsMissed, Unlocked
  <2>3. QED
    BY <2>1, <2>2, SearchingStays DEF IndexIInv
<1>2. ASSUME NEW p \in Paths, BeginChange(p) \/ \E c \in Contents \union {ABSENT, LINK} : EndChange(p, c)
      PROVE  IndexIInv'
  <2>1. Contents \union {ABSENT, LINK} = Text \union {LINK}
    BY DEF Text
  <2>2. QED
    BY <1>2, <2>1, ChangeStep
<1>3. ASSUME NEW p \in Paths, RefreshFile(p) \/ UpdatePath(p) \/ Search(p) PROVE IndexIInv'
  BY <1>3, RefreshFileStep, UpdatePathStep, SearchStep
<1>4. CASE EndRefresh \/ EndUpdate
  BY <1>4, EndRefreshStep, EndUpdateStep
<1>5. CASE StartWatching \/ Yield \/ StopWatching
  BY <1>5, WatcherStep
<1>6. CASE WatcherRefreshes \/ WatcherUpdates \/ SearchRefreshes
  BY <1>6, PassBegins
<1>7. CASE AddSnippet \/ Restart
  BY <1>7, AddSnippetStep, RestartStep
<1>8. QED
  BY <1>1, <1>2, <1>3, <1>4, <1>5, <1>6, <1>7 DEF IndexNext

(* The inductive invariant of the index, its types among it.                *)
THEOREM IndexInvariant == IndexSpec => []IndexIInv
<1>1. IndexInit => IndexIInv
  BY IndexInitially
<1>2. IndexIInv /\ [IndexNext]_indexVars => IndexIInv'
  BY IndexIInvSteps
<1>3. QED
  BY <1>1, <1>2, PTL DEF IndexSpec

(* Whatever is written while the watcher starts, while a search refreshes   *)
(* or while a file is read, a watcher that is ready will process a change   *)
(* of every file whose entry is stale (CodeIndexWatcher, refresh), except   *)
(* one that was replaced by a link its filter drops (include_change).       *)
THEOREM ChangesAreNoticed == IndexSpec => []NoChangeIsMissed
<1>1. IndexIInv => NoChangeIsMissed
  BY DEF IndexIInv
<1>2. QED
  BY <1>1, IndexInvariant, PTL

(* As long as every file could be cut, no snippet shows a text its chunk    *)
(* was not made from (add_snippets compares the hash).                      *)
THEOREM SnippetsAreExact == IndexSpec => []SnippetsFitTheirChunks
<1>1. IndexIInv => SnippetsFitTheirChunks
  BY DEF IndexIInv
<1>2. QED
  BY <1>1, IndexInvariant, PTL
=============================================================================
