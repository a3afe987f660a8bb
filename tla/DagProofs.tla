------------------------------ MODULE DagProofs ------------------------------
(***************************************************************************)
(* What Kahn's loop computes, for every graph: the order is sound, each    *)
(* task after what it needs, and it is complete exactly when the tasks can *)
(* be ranked.  Loops are recursive functions, about which the arguments go *)
(* by the least number of turns for which something fails.                 *)
(***************************************************************************)
EXTENDS Dag, Integers, FiniteSetTheorems, SequenceTheorems,
        WellFoundedInduction, TLAPS

(* The least of some natural numbers. *)
LEMMA LeastNat ==
  ASSUME NEW S \in SUBSET Nat, S # {}
  PROVE  \E n \in S : \A m \in S : n <= m
<1>1. IsWellFoundedOn(OpToRel(<, Nat), Nat)
  BY NatLessThanWellFounded
<1>2. PICK n \in S : \A m \in S : ~ (<<m, n>> \in OpToRel(<, Nat))
  BY <1>1, WFMin
<1>3. \A m \in S : ~ (m < n)
  BY <1>2 DEF OpToRel
<1> QED
  BY <1>3

LEMMA MinOfNats ==
  ASSUME NEW S \in SUBSET Nat, S # {}
  PROVE  Min(S) \in S /\ \A m \in S : Min(S) <= m
  BY LeastNat DEF Min

LEMMA LeastOfTwo ==
  ASSUME NEW a \in Int, NEW b \in Int
  PROVE  /\ Min({a, b}) = IF a <= b THEN a ELSE b
         /\ Max({a, b}) = IF a <= b THEN b ELSE a
<1>1. \E x \in {a, b} : \A y \in {a, b} : x <= y
  OBVIOUS
<1>2. \E x \in {a, b} : \A y \in {a, b} : x >= y
  OBVIOUS
<1>3. Min({a, b}) \in {a, b} /\ \A y \in {a, b} : Min({a, b}) <= y
  BY <1>1 DEF Min
<1>4. Max({a, b}) \in {a, b} /\ \A y \in {a, b} : Max({a, b}) >= y
  BY <1>2 DEF Max
<1> QED
  BY <1>3, <1>4

LEMMA IntervalCount ==
  ASSUME NEW n \in Nat
  PROVE  IsFiniteSet(1..n) /\ Cardinality(1..n) = n
  BY FS_Interval

(* A sequence without repetitions has as many elements as places. *)
LEMMA DistinctCount ==
  ASSUME NEW S, NEW s \in Seq(S),
         \A i, k \in 1..Len(s) : s[i] = s[k] => i = k
  PROVE  IsFiniteSet(ToSet(s)) /\ Cardinality(ToSet(s)) = Len(s)
<1>1. Len(s) \in Nat /\ DOMAIN s = 1..Len(s)
  BY LenProperties
<1>2. IsFiniteSet(1..Len(s)) /\ Cardinality(1..Len(s)) = Len(s)
  BY <1>1, IntervalCount
<1> DEFINE f == [i \in 1..Len(s) |-> s[i]]
<1>3. f \in Bijection(1..Len(s), ToSet(s))
  BY <1>1 DEF ToSet, Bijection, Injection, Surjection, IsInjective
<1> QED
  BY <1>2, <1>3, FS_Bijection DEF ExistsBijection

-----------------------------------------------------------------------------
(* Values that come each from the one before, by a step of its own for each
   turn: a recursion over the turns has a solution. *)
Turns(g, S, x, n, F) ==
  /\ g \in [0..n -> S] /\ g[0] = x
  /\ \A i \in 1..n : g[i] = F[i][g[i - 1]]

LEMMA RecursionExists ==
  ASSUME NEW S, NEW x \in S, NEW n \in Nat, NEW F \in [1..n -> [S -> S]]
  PROVE  \E g : Turns(g, S, x, n, F)
<1> DEFINE Solves(g, m) == /\ g \in [0..m -> S] /\ g[0] = x
                           /\ \A i \in 1..m : g[i] = F[i][g[i - 1]]
           Bad == {m \in 0..n : ~ \E g : Solves(g, m)}
<1> SUFFICES ASSUME Bad # {} PROVE FALSE
  <2>1. n \in 0..n
    OBVIOUS
  <2> QED
    BY <2>1 DEF Turns
<1>1. PICK m \in Bad : \A k \in Bad : m <= k
  <2>1. Bad \in SUBSET Nat
    OBVIOUS
  <2> HIDE DEF Bad
  <2> QED
    BY <2>1, LeastNat
<1>2. CASE m = 0
  <2> DEFINE g == [i \in 0..0 |-> x]
  <2>1. Solves(g, 0)
    OBVIOUS
  <2> HIDE DEF g, Solves
  <2> QED
    BY <1>1, <1>2, <2>1
<1>3. CASE m # 0
  <2>1. m \in 1..n /\ m - 1 \in 0..n /\ m - 1 \notin Bad
    <3>1. m \in 1..n /\ m - 1 \in 0..n /\ m - 1 < m
      <4> HIDE DEF Solves
      <4> QED
        BY <1>1, <1>3
    <3> HIDE DEF Bad
    <3> QED
      BY <1>1, <3>1
  <2>2. PICK g : Solves(g, m - 1)
    <3> HIDE DEF Solves
    <3> QED
      BY <2>1
  <2> DEFINE y == F[m][g[m - 1]]
             h == [i \in 0..m |-> IF i = m THEN y ELSE g[i]]
  <2>3. g[m - 1] \in S
    BY <2>1, <2>2
  <2>4. F[m] \in [S -> S]
    BY <2>1
  <2>5. y \in S
    BY <2>3, <2>4
  <2> HIDE DEF y
  <2>6. \A i \in 0..m : i # m => i \in 0..(m - 1) /\ g[i] \in S
    BY <2>1, <2>2
  <2>7. h \in [0..m -> S]
    BY <2>5, <2>6
  <2>8. h[0] = x
    BY <1>3, <2>1, <2>2
  <2>9. ASSUME NEW i \in 1..m PROVE h[i] = F[i][h[i - 1]]
    <3>1. i - 1 \in 0..m /\ i - 1 # m
      BY <2>1
    <3>2. h[i - 1] = g[i - 1]
      BY <3>1
    <3>3. CASE i = m
      BY <3>2, <3>3 DEF y
    <3>4. CASE i # m
      <4>1. i \in 1..(m - 1)
        BY <2>1, <3>4
      <4>2. g[i] = F[i][g[i - 1]]
        BY <2>2, <4>1
      <4> QED
        BY <3>2, <3>4, <4>2
    <3> QED
      BY <3>3, <3>4
  <2>10. Solves(h, m)
    <3> HIDE DEF h
    <3> QED
      BY <2>7, <2>8, <2>9
  <2> HIDE DEF h, Solves
  <2> QED
    BY <1>1, <2>10
<1> QED
  BY <1>2, <1>3

-----------------------------------------------------------------------------
(* What every sequence of task records is. *)
IsGraph(tasks) ==
  /\ Len(tasks) \in Nat
  /\ DOMAIN tasks = 1..Len(tasks)
  /\ \A i \in 1..Len(tasks) : tasks[i].id \in Nat

LEMMA GraphIds ==
  ASSUME NEW tasks, IsGraph(tasks)
  PROVE  /\ Ids(tasks) \in SUBSET Nat
         /\ IsFiniteSet(Ids(tasks))
         /\ Cardinality(Ids(tasks)) \in Nat
         /\ Cardinality(Ids(tasks)) <= Len(tasks)
         /\ Cardinality(Ids(tasks)) = Len(tasks) <=>
              \A i, k \in 1..Len(tasks) : tasks[i].id = tasks[k].id => i = k
<1> DEFINE N == Len(tasks)
           I == Ids(tasks)
           f == [i \in 1..N |-> tasks[i].id]
<1>1. N \in Nat /\ DOMAIN tasks = 1..N /\ \A i \in 1..N : tasks[i].id \in Nat
  BY DEF IsGraph
<1>2. IsFiniteSet(1..N) /\ Cardinality(1..N) = N
  BY <1>1, IntervalCount
<1>3. I \in SUBSET Nat
  BY <1>1 DEF Ids
<1>4. f \in Surjection(1..N, I)
  BY <1>1 DEF Ids, Surjection
<1>5. f \in Injection(1..N, I) <=>
        \A i, k \in 1..N : tasks[i].id = tasks[k].id => i = k
  BY <1>1 DEF Ids, Injection, IsInjective
<1> HIDE DEF f, N, I
<1>6. IsFiniteSet(I) /\ Cardinality(I) <= N /\ (Cardinality(I) = N <=> f \in Injection(1..N, I))
  BY <1>2, <1>4, FS_Surjection
<1>7. Cardinality(I) \in Nat
  BY <1>6, FS_CardinalityType
<1> QED
  BY <1>3, <1>5, <1>6, <1>7 DEF N, I

LEMMA ByIdIsTask ==
  ASSUME NEW tasks, NEW t \in Ids(tasks)
  PROVE  \E i \in DOMAIN tasks : tasks[i].id = t /\ ById(tasks, t) = tasks[i]
  BY DEF Ids, ById

-----------------------------------------------------------------------------
(* Kahn's loop: the recursion has a solution and KahnRun is one. *)
KahnTo(tasks, n, g) ==
  [i \in 0..n |-> IF i = 0 THEN <<>> ELSE KahnStep(tasks, g[i - 1])]

LEMMA KahnToExists ==
  ASSUME NEW tasks, NEW n \in Nat
  PROVE  \E g : g = KahnTo(tasks, n, g)
<1> DEFINE Bad == {m \in Nat : ~ \E g : g = KahnTo(tasks, m, g)}
<1> SUFFICES ASSUME Bad # {} PROVE FALSE
  OBVIOUS
<1>1. PICK m \in Bad : \A k \in Bad : m <= k
  BY LeastNat
<1>2. CASE m = 0
  <2> DEFINE g == [i \in 0..0 |-> <<>>]
  <2>1. g = KahnTo(tasks, 0, g)
    BY DEF KahnTo
  <2> QED
    BY <1>1, <1>2, <2>1
<1>3. CASE m # 0
  <2>1. m - 1 \in Nat /\ m - 1 \notin Bad
    BY <1>1, <1>3
  <2>2. PICK g : g = KahnTo(tasks, m - 1, g)
    BY <2>1
  <2> DEFINE h == [i \in 0..m |-> IF i = m THEN KahnStep(tasks, g[m - 1]) ELSE g[i]]
  <2>3. ASSUME NEW i \in 0..m
        PROVE  h[i] = IF i = 0 THEN <<>> ELSE KahnStep(tasks, h[i - 1])
    <3>1. CASE i # m
      <4>1. i \in 0..(m - 1) /\ (i # 0 => i - 1 \in 0..m /\ i - 1 # m)
        BY <2>1, <3>1
      <4>2. KahnTo(tasks, m - 1, g)[i]
              = IF i = 0 THEN <<>> ELSE KahnStep(tasks, g[i - 1])
        BY <4>1 DEF KahnTo
      <4>3. h[i] = g[i] /\ (i # 0 => h[i - 1] = g[i - 1])
        BY <3>1, <4>1
      <4> HIDE DEF h
      <4> QED
        BY <2>2, <4>2, <4>3
    <3>2. CASE i = m
      <4>1. m - 1 \in 0..m /\ m - 1 # m /\ m \in 0..m
        BY <2>1
      <4>2. h[m] = KahnStep(tasks, g[m - 1]) /\ h[m - 1] = g[m - 1]
        BY <4>1
      <4> HIDE DEF h
      <4> QED
        BY <1>3, <3>2, <4>2
    <3> QED
      BY <3>1, <3>2
  <2>4. h = KahnTo(tasks, m, h)
    <3>1. h = [i \in 0..m |-> h[i]]
      OBVIOUS
    <3> HIDE DEF h
    <3> QED
      BY <2>3, <3>1 DEF KahnTo
  <2> HIDE DEF h
  <2> QED
    BY <1>1, <2>4
<1> QED
  BY <1>2, <1>3

LEMMA KahnRunSteps ==
  ASSUME NEW tasks, IsGraph(tasks)
  PROVE  /\ KahnRun(tasks)[0] = <<>>
         /\ \A n \in 1..Cardinality(Ids(tasks)) :
              KahnRun(tasks)[n] = KahnStep(tasks, KahnRun(tasks)[n - 1])
<1> DEFINE N == Cardinality(Ids(tasks))
           r == KahnRun(tasks)
<1>1. N \in Nat
  BY GraphIds
<1>2. r = CHOOSE g : g = KahnTo(tasks, N, g)
  BY DEF KahnRun, KahnTo
<1>3. r = KahnTo(tasks, N, r)
  BY <1>1, <1>2, KahnToExists
<1> HIDE DEF r, N
<1>4. KahnTo(tasks, N, r)[0] = <<>>
  BY <1>1 DEF KahnTo
<1>5. \A n \in 1..N : KahnTo(tasks, N, r)[n] = KahnStep(tasks, r[n - 1])
  <2>1. \A n \in 1..N : n \in 0..N /\ n # 0
    BY <1>1
  <2> QED
    BY <2>1 DEF KahnTo
<1> QED
  BY <1>3, <1>4, <1>5 DEF r, N

-----------------------------------------------------------------------------
(* An order no task of which comes twice or before what it needs. *)
Sound(tasks, s) ==
  /\ s \in Seq(Ids(tasks))
  /\ \A i, k \in 1..Len(s) : s[i] = s[k] => i = k
  /\ \A k \in 1..Len(s) : \A d \in Needs(tasks, s[k]) \cap Ids(tasks) :
       \E i \in 1..(k - 1) : s[i] = d

LEMMA KahnStepSound ==
  ASSUME NEW tasks, IsGraph(tasks), NEW s, Sound(tasks, s),
         Unblocked(tasks, ToSet(s)) # {}
  PROVE  /\ Sound(tasks, KahnStep(tasks, s))
         /\ Len(KahnStep(tasks, s)) = Len(s) + 1
<1> DEFINE ready == Unblocked(tasks, ToSet(s))
           u == Min(ready)
           I == Ids(tasks)
           h == Append(s, u)
<1>1. s \in Seq(I) /\ Len(s) \in Nat /\ DOMAIN s = 1..Len(s)
  BY LenProperties DEF Sound
<1>2. ready \in SUBSET Nat
  BY GraphIds DEF Unblocked
<1>3. u \in ready
  BY <1>2, MinOfNats
<1>4. u \in I /\ u \notin ToSet(s) /\ Needs(tasks, u) \cap I \in SUBSET ToSet(s)
  BY <1>3 DEF Unblocked
<1>5. KahnStep(tasks, s) = h
  BY DEF KahnStep
<1> HIDE DEF u, ready
<1>6. /\ h \in Seq(I) /\ Len(h) = Len(s) + 1
      /\ \A i \in 1..Len(s) : h[i] = s[i]
      /\ h[Len(s) + 1] = u
  BY <1>1, <1>4, AppendProperties
<1> HIDE DEF h
<1>7. \A i \in 1..Len(s) : s[i] # u
  BY <1>1, <1>4 DEF ToSet
<1>8. \A i \in 1..Len(h) : i = Len(s) + 1 \/ i \in 1..Len(s)
  BY <1>1, <1>6
<1>9. ASSUME NEW i \in 1..Len(h), NEW k \in 1..Len(h), h[i] = h[k] PROVE i = k
  BY <1>6, <1>7, <1>8, <1>9 DEF Sound
<1>10. ASSUME NEW k \in 1..Len(h), NEW d \in Needs(tasks, h[k]) \cap I
       PROVE  \E i \in 1..(k - 1) : h[i] = d
  <2>1. CASE k = Len(s) + 1
    <3>1. d \in ToSet(s)
      BY <1>4, <1>6, <1>10, <2>1
    <3>2. PICK i \in 1..Len(s) : s[i] = d
      BY <1>1, <3>1 DEF ToSet
    <3>3. i \in 1..(k - 1)
      BY <1>1, <2>1
    <3> QED
      BY <1>6, <3>2, <3>3
  <2>2. CASE k # Len(s) + 1
    <3>1. k \in 1..Len(s) /\ h[k] = s[k]
      BY <1>6, <1>8, <2>2
    <3>2. PICK i \in 1..(k - 1) : s[i] = d
      BY <1>10, <3>1 DEF Sound
    <3>3. i \in 1..Len(s)
      BY <1>1, <3>1
    <3> QED
      BY <1>6, <3>2, <3>3
  <2> QED
    BY <2>1, <2>2
<1>11. Sound(tasks, h)
  BY <1>6, <1>9, <1>10 DEF Sound
<1> QED
  BY <1>5, <1>6, <1>11

LEMMA SoundCount ==
  ASSUME NEW tasks, IsGraph(tasks), NEW s, Sound(tasks, s)
  PROVE  /\ Len(s) \in Nat
         /\ ToSet(s) \in SUBSET Ids(tasks)
         /\ Len(s) <= Cardinality(Ids(tasks))
         /\ Len(s) = Cardinality(Ids(tasks)) <=> ToSet(s) = Ids(tasks)
<1>1. s \in Seq(Ids(tasks)) /\ Len(s) \in Nat /\ DOMAIN s = 1..Len(s)
  BY LenProperties DEF Sound
<1>2. Cardinality(ToSet(s)) = Len(s)
  BY <1>1, DistinctCount DEF Sound
<1>3. ToSet(s) \in SUBSET Ids(tasks)
  <2>1. \A i \in 1..Len(s) : s[i] \in Ids(tasks)
    BY <1>1, ElementOfSeq
  <2> QED
    BY <1>1, <2>1 DEF ToSet
<1>4. IsFiniteSet(Ids(tasks))
  BY GraphIds
<1> QED
  BY <1>1, <1>2, <1>3, <1>4, FS_Subset

(* After n turns the loop has placed n tasks, or nothing is ready. *)
LEMMA KahnRunSound ==
  ASSUME NEW tasks, IsGraph(tasks), NEW n \in 0..Cardinality(Ids(tasks))
  PROVE  LET s == KahnRun(tasks)[n] IN
         Sound(tasks, s) /\ (Len(s) = n \/ Unblocked(tasks, ToSet(s)) = {})
<1> DEFINE N == Cardinality(Ids(tasks))
           r == KahnRun(tasks)
           Fine(m) == /\ Sound(tasks, r[m])
                      /\ Len(r[m]) = m \/ Unblocked(tasks, ToSet(r[m])) = {}
           Bad == {m \in 0..N : ~ Fine(m)}
<1>1. N \in Nat
  BY GraphIds
<1>2. r[0] = <<>> /\ \A m \in 1..N : r[m] = KahnStep(tasks, r[m - 1])
  BY KahnRunSteps
<1> HIDE DEF r, N
<1> SUFFICES ASSUME Bad # {} PROVE FALSE
  BY DEF r, N
<1>3. PICK m \in Bad : \A k \in Bad : m <= k
  <2>1. Bad \in SUBSET Nat
    BY <1>1
  <2> HIDE DEF Bad
  <2> QED
    BY <2>1, LeastNat
<1>4. CASE m = 0
  <2>1. Sound(tasks, <<>>) /\ Len(<<>>) = 0
    BY EmptySeq DEF Sound
  <2> QED
    BY <1>2, <1>3, <1>4, <2>1
<1>5. CASE m # 0
  <2>1. m \in 1..N /\ m - 1 \in 0..N /\ m - 1 < m
    BY <1>1, <1>3, <1>5
  <2>2. Fine(m - 1)
    <3>1. m - 1 \notin Bad
      BY <1>3, <2>1
    <3> QED
      BY <2>1, <3>1
  <2>3. r[m] = KahnStep(tasks, r[m - 1])
    BY <1>2, <2>1
  <2>4. CASE Unblocked(tasks, ToSet(r[m - 1])) = {}
    <3>1. r[m] = r[m - 1]
      BY <2>3, <2>4 DEF KahnStep
    <3> QED
      BY <1>3, <2>2, <2>4, <3>1
  <2>5. CASE Unblocked(tasks, ToSet(r[m - 1])) # {}
    <3>1. Sound(tasks, r[m]) /\ Len(r[m]) = Len(r[m - 1]) + 1
      BY <2>2, <2>3, <2>5, KahnStepSound
    <3>2. Len(r[m]) = m
      BY <2>1, <2>2, <2>5, <3>1
    <3> QED
      BY <1>3, <3>1, <3>2
  <2> QED
    BY <2>4, <2>5
<1> QED
  BY <1>4, <1>5

(* The order is sound, and it is complete unless what is left is blocked. *)
LEMMA KahnSound ==
  ASSUME NEW tasks, IsGraph(tasks)
  PROVE  /\ Sound(tasks, KahnOrder(tasks))
         /\ \/ ToSet(KahnOrder(tasks)) = Ids(tasks)
            \/ Unblocked(tasks, ToSet(KahnOrder(tasks))) = {}
<1>1. Cardinality(Ids(tasks)) \in 0..Cardinality(Ids(tasks))
  BY GraphIds
<1> QED
  BY <1>1, KahnRunSound, SoundCount DEF KahnOrder

(* What validate_dag makes sure of. *)
LEMMA ValidDagMeans ==
  ASSUME NEW S, NEW tasks \in Seq(S), IsGraph(tasks)
  PROVE  ValidDag(tasks) <=>
           /\ Len(tasks) > 0
           /\ Cardinality(Ids(tasks)) = Len(tasks)
           /\ \A i \in 1..Len(tasks) :
                /\ tasks[i].id \notin ToSet(tasks[i].needs)
                /\ NoRepeats(tasks[i].needs)
                /\ ToSet(tasks[i].needs) \subseteq Ids(tasks)
           /\ ToSet(KahnOrder(tasks)) = Ids(tasks)
<1> DEFINE N == Len(tasks)
           each == {tasks[i] : i \in DOMAIN tasks}
<1>1. N \in Nat /\ DOMAIN tasks = 1..N
  BY DEF IsGraph
<1>2. Len(KahnOrder(tasks)) = Cardinality(Ids(tasks)) <=> ToSet(KahnOrder(tasks)) = Ids(tasks)
  BY KahnSound, SoundCount
<1>3. tasks = <<>> <=> ~ N > 0
  BY <1>1, EmptySeq
<1>4. \A t : t \in each <=> \E i \in 1..N : t = tasks[i]
  BY <1>1
<1> HIDE DEF N, each
<1>5. ValidDag(tasks) <=>
        /\ tasks # <<>>
        /\ Cardinality(Ids(tasks)) = Len(tasks)
        /\ \A t \in each : /\ t.id \notin ToSet(t.needs)
                           /\ NoRepeats(t.needs)
                           /\ ToSet(t.needs) \subseteq Ids(tasks)
        /\ Len(KahnOrder(tasks)) = Cardinality(Ids(tasks))
  BY DEF ValidDag, Refusals, each
<1> QED
  BY <1>2, <1>3, <1>4, <1>5 DEF N

(* It is complete if the tasks can be ranked so that each has a higher rank
   than those it needs. *)
Ranks(tasks, rank) ==
  \A t \in Ids(tasks) :
    /\ rank[t] \in Nat
    /\ \A d \in Needs(tasks, t) \cap Ids(tasks) : rank[d] < rank[t]

LEMMA KahnComplete ==
  ASSUME NEW tasks, IsGraph(tasks), NEW rank, Ranks(tasks, rank)
  PROVE  ToSet(KahnOrder(tasks)) = Ids(tasks)
<1> DEFINE o == KahnOrder(tasks)
           I == Ids(tasks)
           left == I \ ToSet(o)
           R == {rank[t] : t \in left}
<1>1. Sound(tasks, o) /\ ToSet(o) \in SUBSET I
  BY KahnSound, SoundCount
<1> SUFFICES ASSUME left # {} PROVE FALSE
  BY <1>1
<1>2. R \in SUBSET Nat /\ R # {}
  BY DEF Ranks
<1>3. PICK n \in R : \A m \in R : n <= m
  BY <1>2, LeastNat
<1>4. PICK t \in left : rank[t] = n
  BY <1>3
<1>5. ASSUME NEW d \in Needs(tasks, t) \cap I PROVE d \in ToSet(o)
  <2>1. rank[d] < rank[t] /\ rank[d] \in Nat /\ rank[t] \in Nat
    BY <1>4 DEF Ranks
  <2>2. d \notin left
    BY <1>3, <1>4, <2>1
  <2> QED
    BY <2>2
<1>6. t \in Unblocked(tasks, ToSet(o))
  BY <1>4, <1>5 DEF Unblocked
<1> QED
  BY <1>6, KahnSound

(* A complete order ranks the tasks. *)
LEMMA OrderRanks ==
  ASSUME NEW tasks, IsGraph(tasks), NEW s, Sound(tasks, s), ToSet(s) = Ids(tasks)
  PROVE  \E rank : /\ Ranks(tasks, rank)
                   /\ \A t \in Ids(tasks) : rank[t] \in 1..Len(s) /\ s[rank[t]] = t
<1> DEFINE rank == [t \in Ids(tasks) |-> CHOOSE i \in 1..Len(s) : s[i] = t]
<1>1. s \in Seq(Ids(tasks)) /\ Len(s) \in Nat /\ DOMAIN s = 1..Len(s)
  BY LenProperties DEF Sound
<1>2. \A t \in Ids(tasks) : rank[t] \in 1..Len(s) /\ s[rank[t]] = t
  BY <1>1 DEF ToSet
<1> HIDE DEF rank
<1>3. ASSUME NEW t \in Ids(tasks), NEW d \in Needs(tasks, t) \cap Ids(tasks)
      PROVE  rank[d] < rank[t]
  <2>1. PICK i \in 1..(rank[t] - 1) : s[i] = d
    BY <1>2, <1>3 DEF Sound
  <2>2. i \in 1..Len(s) /\ i < rank[t] /\ i = rank[d]
    BY <1>1, <1>2, <2>1 DEF Sound
  <2> QED
    BY <2>2
<1> QED
  BY <1>1, <1>2, <1>3 DEF Ranks

-----------------------------------------------------------------------------
(* The closure: the recursion has a solution and AncestorRun is one. *)
UpTo(tasks, t, n, g) ==
  [i \in 0..n |-> IF i = 0 THEN Above(tasks, {t})
                  ELSE Widened(tasks, g[i - 1])]

LEMMA UpToExists ==
  ASSUME NEW tasks, NEW t, NEW n \in Nat
  PROVE  \E g : g = UpTo(tasks, t, n, g)
<1> DEFINE Bad == {m \in Nat : ~ \E g : g = UpTo(tasks, t, m, g)}
<1> SUFFICES ASSUME Bad # {} PROVE FALSE
  OBVIOUS
<1>1. PICK m \in Bad : \A k \in Bad : m <= k
  BY LeastNat
<1>2. CASE m = 0
  <2> DEFINE g == [i \in 0..0 |-> Above(tasks, {t})]
  <2>1. g = UpTo(tasks, t, 0, g)
    BY DEF UpTo
  <2> QED
    BY <1>1, <1>2, <2>1
<1>3. CASE m # 0
  <2>1. m - 1 \in Nat /\ m - 1 \notin Bad
    BY <1>1, <1>3
  <2>2. PICK g : g = UpTo(tasks, t, m - 1, g)
    BY <2>1
  <2> DEFINE next == Widened(tasks, g[m - 1])
             h == [i \in 0..m |-> IF i = m THEN next ELSE g[i]]
  <2>3. ASSUME NEW i \in 0..m
        PROVE  h[i] = IF i = 0 THEN Above(tasks, {t})
                      ELSE Widened(tasks, h[i - 1])
    <3>1. CASE i # m
      <4>1. i \in 0..(m - 1) /\ (i # 0 => i - 1 \in 0..m /\ i - 1 # m)
        BY <2>1, <3>1
      <4>2. UpTo(tasks, t, m - 1, g)[i]
              = IF i = 0 THEN Above(tasks, {t}) ELSE Widened(tasks, g[i - 1])
        BY <4>1 DEF UpTo
      <4>3. h[i] = g[i] /\ (i # 0 => h[i - 1] = g[i - 1])
        BY <3>1, <4>1
      <4> HIDE DEF h
      <4> QED
        BY <2>2, <4>2, <4>3
    <3>2. CASE i = m
      <4>1. m - 1 \in 0..m /\ m - 1 # m /\ m \in 0..m
        BY <2>1
      <4>2. h[m] = next /\ h[m - 1] = g[m - 1]
        BY <4>1
      <4> HIDE DEF h
      <4> QED
        BY <1>3, <3>2, <4>2
    <3> QED
      BY <3>1, <3>2
  <2>4. h = UpTo(tasks, t, m, h)
    <3>1. h = [i \in 0..m |-> h[i]]
      OBVIOUS
    <3> HIDE DEF h
    <3> QED
      BY <2>3, <3>1 DEF UpTo
  <2> HIDE DEF h
  <2> QED
    BY <1>1, <2>4
<1> QED
  BY <1>2, <1>3

LEMMA AncestorSteps ==
  ASSUME NEW tasks, NEW t, Len(tasks) \in Nat
  PROVE  /\ AncestorRun(tasks, t)[0] = Above(tasks, {t})
         /\ \A n \in 1..Len(tasks) :
              AncestorRun(tasks, t)[n] = Widened(tasks, AncestorRun(tasks, t)[n - 1])
<1> DEFINE N == Len(tasks)
           up == AncestorRun(tasks, t)
<1>1. up = CHOOSE g : g = UpTo(tasks, t, N, g)
  BY DEF AncestorRun, UpTo
<1>2. up = UpTo(tasks, t, N, up)
  BY <1>1, UpToExists
<1> HIDE DEF up
<1>3. UpTo(tasks, t, N, up)[0] = Above(tasks, {t})
  BY DEF UpTo
<1>4. \A n \in 1..N : UpTo(tasks, t, N, up)[n] = Widened(tasks, up[n - 1])
  <2>1. \A n \in 1..N : n \in 0..N /\ n # 0
    OBVIOUS
  <2> QED
    BY <2>1 DEF UpTo
<1> QED
  BY <1>2, <1>3, <1>4 DEF up

(* No dependency is missing. *)
NoneMissing(tasks) == \A t \in Ids(tasks) : Needs(tasks, t) \in SUBSET Ids(tasks)

UpClosed(tasks, S) == Above(tasks, S) \in SUBSET S

(* Each round of the closure adds a task, until there is none to add. *)
LEMMA AncestorGrowth ==
  ASSUME NEW tasks, IsGraph(tasks), NEW t \in Ids(tasks), NEW n \in 0..Len(tasks)
  PROVE  LET S == AncestorRun(tasks, t)[n] IN
         UpClosed(tasks, S) \/ Cardinality(S \cap Ids(tasks)) >= n + 1
<1> DEFINE N == Len(tasks)
           I == Ids(tasks)
           up == AncestorRun(tasks, t)
           count(S) == Cardinality(S \cap I)
           Fine(m) == UpClosed(tasks, up[m]) \/ count(up[m]) >= m + 1
           Bad == {m \in 0..N : ~ Fine(m)}
<1>1. N \in Nat
  BY DEF IsGraph
<1>2. /\ up[0] = Above(tasks, {t})
      /\ \A m \in 1..N : up[m] = Widened(tasks, up[m - 1])
  BY <1>1, AncestorSteps
<1>3. IsFiniteSet(I)
  BY GraphIds
<1>4. \A S : Above(tasks, S) = Above(tasks, S \cap I)
  BY DEF Above
<1>5. \A S : IsFiniteSet(S \cap I) /\ count(S) \in Nat
  <2> TAKE S
  <2>1. S \cap I \in SUBSET I
    OBVIOUS
  <2> QED
    BY <1>3, <2>1, FS_Subset, FS_CardinalityType
<1> HIDE DEF up, N, I
<1> SUFFICES ASSUME Bad # {} PROVE FALSE
  BY DEF up, N, I
<1>6. PICK m \in Bad : \A k \in Bad : m <= k
  <2>1. Bad \in SUBSET Nat
    BY <1>1
  <2> HIDE DEF Bad
  <2> QED
    BY <2>1, LeastNat
<1>7. CASE m = 0
  <2> DEFINE S == up[0]
  <2>1. CASE S \cap I = {}
    <3>1. Above(tasks, S) = {}
      BY <2>1 DEF Above, I
    <3> QED
      BY <1>6, <1>7, <3>1 DEF UpClosed
  <2>2. CASE S \cap I # {}
    <3>1. count(S) # 0 /\ count(S) \in Nat
      BY <1>5, <2>2, FS_EmptySet
    <3>2. count(S) >= 0 + 1
      <4> HIDE DEF count, S
      <4> QED
        BY <3>1
    <3> HIDE DEF count
    <3> QED
      BY <1>6, <1>7, <3>2
  <2> QED
    BY <2>1, <2>2
<1>8. CASE m # 0
  <2>1. m \in 1..N /\ m - 1 \in 0..N /\ m - 1 < m
    BY <1>1, <1>6, <1>8
  <2>2. Fine(m - 1)
    <3>1. m - 1 \notin Bad
      BY <1>6, <2>1
    <3> HIDE DEF Fine
    <3> QED
      BY <2>1, <3>1
  <2> DEFINE S == up[m - 1]
             T == up[m]
  <2>3. T = S \cup Above(tasks, S)
    BY <1>2, <2>1 DEF Widened
  <2>4. CASE T \cap I = S \cap I
    <3>1. Above(tasks, T) = Above(tasks, S)
      BY <1>4, <2>4
    <3>2. UpClosed(tasks, T)
      BY <2>3, <3>1 DEF UpClosed
    <3> QED
      BY <1>6, <3>2
  <2>5. CASE T \cap I # S \cap I
    <3>1. ~ UpClosed(tasks, S)
      BY <2>3, <2>5 DEF UpClosed
    <3>2. count(S) >= m - 1 + 1
      BY <2>2, <3>1
    <3>3. S \cap I \in SUBSET (T \cap I)
      BY <2>3
    <3>4. /\ count(S) <= count(T) /\ count(S) # count(T)
          /\ count(S) \in Nat /\ count(T) \in Nat
      BY <1>5, <2>5, <3>3, FS_Subset
    <3>5. count(T) >= m + 1
      <4> HIDE DEF S, T, count
      <4> QED
        BY <2>1, <3>2, <3>4
    <3> QED
      BY <1>6, <3>5
  <2> QED
    BY <2>4, <2>5
<1> QED
  BY <1>7, <1>8

(* It has what t needs and, with a task, what that one needs, also when
   dependencies are missing or of several tasks with the same name only the
   first counts. *)
LEMMA AncestorsHold ==
  ASSUME NEW tasks, IsGraph(tasks), NEW t \in Ids(tasks)
  PROVE  /\ Needs(tasks, t) \in SUBSET Ancestors(tasks, t)
         /\ \A u \in Ancestors(tasks, t) \cap Ids(tasks) :
              Needs(tasks, u) \in SUBSET Ancestors(tasks, t)
<1> DEFINE N == Len(tasks)
           A == Ancestors(tasks, t)
           up == AncestorRun(tasks, t)
<1>1. N \in Nat
  BY DEF IsGraph
<1>2. A = up[N]
  BY DEF Ancestors
<1>3. UpClosed(tasks, A) \/ Cardinality(A \cap Ids(tasks)) >= N + 1
  BY <1>1, <1>2, AncestorGrowth
<1>4. UpClosed(tasks, A)
  <2>1. /\ IsFiniteSet(Ids(tasks))
        /\ Cardinality(Ids(tasks)) \in Nat
        /\ Cardinality(Ids(tasks)) <= N
    BY GraphIds
  <2> DEFINE B == A \cap Ids(tasks)
  <2>2. B \in SUBSET Ids(tasks)
    OBVIOUS
  <2> HIDE DEF A, N, B
  <2>3. Cardinality(B) <= Cardinality(Ids(tasks)) /\ Cardinality(B) \in Nat
    BY <2>1, <2>2, FS_Subset, FS_CardinalityType
  <2>4. UpClosed(tasks, A) \/ Cardinality(B) >= N + 1
    BY <1>3 DEF B
  <2> QED
    BY <1>1, <2>1, <2>3, <2>4
<1>5. Needs(tasks, t) = up[0]
  <2>1. Needs(tasks, t) = Above(tasks, {t})
    BY DEF Above
  <2>2. up[0] = Above(tasks, {t})
    BY <1>1, AncestorSteps
  <2> QED
    BY <2>1, <2>2
<1>6. \A n \in 0..N : Needs(tasks, t) \in SUBSET up[n]
  <2>0. \A k \in 1..N : up[k] = Widened(tasks, up[k - 1])
    BY <1>1, AncestorSteps
  <2> DEFINE Bad == {n \in 0..N : ~ Needs(tasks, t) \in SUBSET up[n]}
  <2> HIDE DEF up, N
  <2> SUFFICES ASSUME Bad # {} PROVE FALSE
    OBVIOUS
  <2>1. PICK m \in Bad : \A k \in Bad : m <= k
    <3>1. Bad \in SUBSET Nat
      BY <1>1
    <3> HIDE DEF Bad
    <3> QED
      BY <3>1, LeastNat
  <2>2. m # 0
    BY <1>5, <2>1
  <2>3. m \in 1..N /\ m - 1 \in 0..N /\ m - 1 < m
    BY <1>1, <2>1, <2>2
  <2>4. m - 1 \notin Bad
    BY <2>1, <2>3
  <2>5. up[m] = Widened(tasks, up[m - 1])
    BY <2>0, <2>3
  <2>6. Needs(tasks, t) \in SUBSET up[m - 1]
    BY <2>3, <2>4
  <2>7. Needs(tasks, t) \in SUBSET up[m]
    BY <2>5, <2>6 DEF Widened
  <2> QED
    BY <2>1, <2>7
<1>7. Needs(tasks, t) \in SUBSET A
  BY <1>1, <1>2, <1>6
<1>8. \A u \in A \cap Ids(tasks) : Needs(tasks, u) \in SUBSET A
  BY <1>4 DEF UpClosed, Above
<1> QED
  BY <1>7, <1>8

(* It is the least such set. *)
LEMMA AncestorsLeast ==
  ASSUME NEW tasks, IsGraph(tasks), NEW t \in Ids(tasks), NEW C,
         Needs(tasks, t) \in SUBSET C,
         \A u \in C \cap Ids(tasks) : Needs(tasks, u) \in SUBSET C
  PROVE  Ancestors(tasks, t) \in SUBSET C
<1> DEFINE N == Len(tasks)
           up == AncestorRun(tasks, t)
           Bad == {n \in 0..N : ~ up[n] \in SUBSET C}
<1>1. N \in Nat
  BY DEF IsGraph
<1>2. /\ up[0] = Above(tasks, {t})
      /\ \A m \in 1..N : up[m] = Widened(tasks, up[m - 1])
  BY <1>1, AncestorSteps
<1>3. \A S \in SUBSET C : Above(tasks, S) \in SUBSET C
  BY DEF Above
<1> HIDE DEF up, N
<1> SUFFICES ASSUME Bad # {} PROVE FALSE
  BY <1>1 DEF Ancestors, up, N
<1>4. PICK m \in Bad : \A k \in Bad : m <= k
  <2>1. Bad \in SUBSET Nat
    BY <1>1
  <2> HIDE DEF Bad
  <2> QED
    BY <2>1, LeastNat
<1>5. CASE m = 0
  BY <1>2, <1>4, <1>5 DEF Above
<1>6. CASE m # 0
  <2>1. m \in 1..N /\ m - 1 \in 0..N /\ m - 1 < m
    BY <1>1, <1>4, <1>6
  <2>2. m - 1 \notin Bad
    BY <1>4, <2>1
  <2>3. up[m] \in SUBSET C
    BY <1>2, <1>3, <2>1, <2>2 DEF Widened
  <2> QED
    BY <1>4, <2>3
<1> QED
  BY <1>5, <1>6

(* When no dependency is missing these are tasks. *)
LEMMA AncestorsClosed ==
  ASSUME NEW tasks, IsGraph(tasks), NoneMissing(tasks), NEW t \in Ids(tasks)
  PROVE  /\ Ancestors(tasks, t) \in SUBSET Ids(tasks)
         /\ Needs(tasks, t) \in SUBSET Ancestors(tasks, t)
         /\ \A u \in Ancestors(tasks, t) :
              Needs(tasks, u) \in SUBSET Ancestors(tasks, t)
<1>1. /\ Needs(tasks, t) \in SUBSET Ids(tasks)
      /\ \A u \in Ids(tasks) \cap Ids(tasks) : Needs(tasks, u) \in SUBSET Ids(tasks)
  BY DEF NoneMissing
<1>2. Ancestors(tasks, t) \in SUBSET Ids(tasks)
  BY <1>1, AncestorsLeast
<1> QED
  BY <1>2, AncestorsHold

-----------------------------------------------------------------------------
(* Kahn's loop places every task exactly when none waits for itself. *)
THEOREM AcyclicIsComplete ==
  ASSUME NEW tasks, IsGraph(tasks)
  PROVE  ToSet(KahnOrder(tasks)) = Ids(tasks)
           <=> \A t \in Ids(tasks) : t \notin Ancestors(tasks, t)
<1> DEFINE o == KahnOrder(tasks)
           I == Ids(tasks)
<1>1. Sound(tasks, o) /\ ToSet(o) \in SUBSET I
  BY KahnSound, SoundCount
<1>2. ASSUME ToSet(o) = I, NEW t \in I PROVE t \notin Ancestors(tasks, t)
  <2>1. PICK rank : Ranks(tasks, rank)
    BY <1>1, <1>2, OrderRanks
  <2> DEFINE named == I \cup UNION {Needs(tasks, u) : u \in I}
             C == {u \in named : u \in I => rank[u] < rank[t]}
  <2>2. Needs(tasks, t) \in SUBSET C
    BY <2>1 DEF Ranks
  <2>3. \A u \in C \cap I : Needs(tasks, u) \in SUBSET C
    <3> SUFFICES ASSUME NEW u \in C \cap I, NEW d \in Needs(tasks, u) PROVE d \in C
      OBVIOUS
    <3>1. d \in named
      OBVIOUS
    <3>2. ASSUME d \in I PROVE rank[d] < rank[t]
      <4>1. rank[d] < rank[u] /\ rank[d] \in Nat /\ rank[u] \in Nat /\ rank[t] \in Nat
        BY <2>1, <3>2 DEF Ranks
      <4>2. rank[u] < rank[t]
        OBVIOUS
      <4> QED
        BY <4>1, <4>2
    <3> HIDE DEF named
    <3> QED
      BY <3>1, <3>2
  <2>4. Ancestors(tasks, t) \in SUBSET C
    <3> HIDE DEF C
    <3> QED
      BY <2>2, <2>3, AncestorsLeast
  <2>5. t \notin C
    BY <2>1 DEF Ranks
  <2> QED
    BY <2>4, <2>5
<1>3. ASSUME ToSet(o) # I PROVE \E t \in I : t \in Ancestors(tasks, t)
  <2> DEFINE left == I \ ToSet(o)
             of(t) == Ancestors(tasks, t) \cap I
             size(t) == Cardinality(of(t))
             Sizes == {size(t) : t \in left}
  <2>1. left # {}
    BY <1>1, <1>3
  <2>2. \A t \in left : \E u \in left : u \in Needs(tasks, t)
    <3> SUFFICES ASSUME NEW t \in left, \A u \in left : u \notin Needs(tasks, t)
                 PROVE  FALSE
      OBVIOUS
    <3>1. Needs(tasks, t) \cap I \in SUBSET ToSet(o)
      OBVIOUS
    <3>2. t \in Unblocked(tasks, ToSet(o))
      BY <3>1 DEF Unblocked
    <3> QED
      BY <1>3, <3>2, KahnSound
  <2>3. \A t \in left : IsFiniteSet(of(t)) /\ size(t) \in Nat
    <3> TAKE t \in left
    <3>1. of(t) \in SUBSET I /\ IsFiniteSet(I)
      BY GraphIds
    <3> QED
      BY <3>1, FS_Subset, FS_CardinalityType
  <2>4. PICK n \in Sizes : \A m \in Sizes : n <= m
    <3>1. Sizes \in SUBSET Nat /\ Sizes # {}
      BY <2>1, <2>3
    <3> HIDE DEF Sizes
    <3> QED
      BY <3>1, LeastNat
  <2>5. PICK t \in left : size(t) = n
    BY <2>4
  <2>6. PICK u \in left : u \in Needs(tasks, t)
    BY <2>2
  <2>7. u \in of(t) /\ of(u) \in SUBSET of(t)
    <3>1. u \in Ancestors(tasks, t)
      BY <2>6, AncestorsHold
    <3>2. \A d \in Ancestors(tasks, t) \cap I :
            Needs(tasks, d) \in SUBSET Ancestors(tasks, t)
      BY AncestorsHold
    <3>3. Ancestors(tasks, u) \in SUBSET Ancestors(tasks, t)
      BY <3>1, <3>2, AncestorsLeast
    <3> QED
      BY <3>1, <3>3
  <2>8. size(t) <= size(u) /\ size(t) \in Nat /\ size(u) \in Nat
    BY <2>3, <2>4, <2>5
  <2>9. size(u) <= size(t) /\ (size(u) = size(t) => of(u) = of(t))
    <3> HIDE DEF of
    <3> QED
      BY <2>3, <2>7, FS_Subset
  <2>10. size(u) = size(t)
    <3> HIDE DEF size
    <3> QED
      BY <2>8, <2>9
  <2> QED
    BY <2>7, <2>9, <2>10
<1> QED
  BY <1>2, <1>3
=============================================================================
