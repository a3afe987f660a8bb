------------------------- MODULE WorkflowBuilderProofs -------------------------
(***************************************************************************)
(* The builder holds graphs the coordinator takes, whatever is called in   *)
(* whatever order; the delay between attempts is what it should be; and    *)
(* the algorithms of the DSL compute of every such graph what their        *)
(* reference definitions say.                                              *)
(***************************************************************************)
EXTENDS BuiltGraphs, DagProofs

Task == [id : Nat, needs : Seq(Nat)]

(* Nothing but other tasks, and none of them twice. *)
Wired(all, i) ==
  /\ \A k \in 1..Len(all[i].needs) : all[i].needs[k] \in Ids(all) \ {all[i].id}
  /\ \A j, k \in 1..Len(all[i].needs) : all[i].needs[j] = all[i].needs[k] => j = k

(* The graphs the builder can hold. *)
IsBuilt(all) ==
  /\ all \in Seq(Task)
  /\ Len(all) <= Len(TaskNames)
  /\ \A i \in 1..Len(all) : all[i].id = TaskNames[i] /\ Wired(all, i)

IInv == IsBuilt(tasks) /\ (fresh => Buildable /\ built = KahnOrder(tasks))

LEMMA NamesDistinct ==
  /\ Len(TaskNames) \in Nat
  /\ \A i \in 1..Len(TaskNames) : TaskNames[i] \in Nat
  /\ \A i, k \in 1..Len(TaskNames) : TaskNames[i] = TaskNames[k] => i = k
<1> DEFINE N == Len(TaskNames)
           f == [i \in 1..N |-> TaskNames[i]]
<1>1. N \in Nat /\ DOMAIN TaskNames = 1..N /\ \A i \in 1..N : TaskNames[i] \in Nat
  BY NamesAssumption, LenProperties, ElementOfSeq
<1>2. IsFiniteSet(1..N) /\ Cardinality(1..N) = N
  BY <1>1, IntervalCount
<1>3. f \in Surjection(1..N, ToSet(TaskNames))
  BY <1>1 DEF ToSet, Surjection
<1>4. Cardinality(ToSet(TaskNames)) = N
  BY NamesAssumption DEF NoRepeats
<1>5. f \in Injection(1..N, ToSet(TaskNames))
  <2> HIDE DEF f, N
  <2> QED
    BY <1>2, <1>3, <1>4, FS_Surjection
<1> QED
  BY <1>1, <1>5 DEF Injection, IsInjective

LEMMA BuiltIsGraph ==
  ASSUME NEW all, IsBuilt(all)
  PROVE  /\ IsGraph(all) /\ NoneMissing(all)
         /\ Len(all) \in Nat /\ DOMAIN all = 1..Len(all)
         /\ Cardinality(Ids(all)) = Len(all)
         /\ \A i \in 1..Len(all) : all[i] \in Task /\ ToSet(all[i].needs) = Needs(all, all[i].id)
<1>1. /\ Len(all) \in Nat /\ DOMAIN all = 1..Len(all)
      /\ \A i \in 1..Len(all) : all[i] \in Task
  BY LenProperties, ElementOfSeq DEF IsBuilt
<1>2. IsGraph(all)
  BY <1>1 DEF IsGraph, Task
<1>3. \A i, k \in 1..Len(all) : all[i].id = all[k].id => i = k
  BY <1>1, NamesDistinct DEF IsBuilt
<1>4. Cardinality(Ids(all)) = Len(all)
  BY <1>2, <1>3, GraphIds
<1>5. \A i \in 1..Len(all) : ToSet(all[i].needs) \in SUBSET Ids(all)
  <2> TAKE i \in 1..Len(all)
  <2>1. all[i].needs \in Seq(Nat)
    BY <1>1 DEF Task
  <2>2. DOMAIN all[i].needs = 1..Len(all[i].needs)
    BY <2>1, LenProperties
  <2> QED
    BY <2>2 DEF ToSet, IsBuilt, Wired
<1>6. \A i \in 1..Len(all) : ById(all, all[i].id) = all[i]
  BY <1>1, <1>3 DEF ById
<1>7. NoneMissing(all)
  BY <1>1, <1>5, <1>6 DEF NoneMissing, Needs, Ids
<1> QED
  BY <1>1, <1>2, <1>4, <1>6, <1>7 DEF Needs

(* task keeps the shape. *)
LEMMA NamedIsBuilt ==
  ASSUME NEW all, IsBuilt(all), Len(all) < Len(TaskNames)
  PROVE  IsBuilt(Append(all, [id |-> TaskNames[Len(all) + 1], needs |-> <<>>]))
<1> DEFINE new == [id |-> TaskNames[Len(all) + 1], needs |-> <<>>]
           more == Append(all, new)
           N == Len(all)
<1>1. N \in Nat /\ DOMAIN all = 1..N /\ all \in Seq(Task) /\ \A i \in 1..N : all[i] \in Task
  BY BuiltIsGraph DEF IsBuilt
<1>2. N + 1 \in 1..Len(TaskNames)
  BY <1>1, NamesDistinct
<1>3. <<>> \in Seq(Nat) /\ Len(<<>>) = 0
  BY EmptySeq
<1>4. new \in Task
  BY <1>2, <1>3, NamesDistinct DEF Task
<1>5. /\ more \in Seq(Task) /\ Len(more) = N + 1
      /\ \A i \in 1..N : more[i] = all[i]
      /\ more[N + 1] = new
  <2> HIDE DEF new
  <2> QED
    BY <1>1, <1>4, AppendProperties
<1>6. DOMAIN more = 1..(N + 1)
  BY <1>5, LenProperties
<1>7. Ids(all) \in SUBSET Ids(more)
  BY <1>1, <1>5, <1>6 DEF Ids
<1> HIDE DEF more
<1>8. ASSUME NEW i \in 1..(N + 1) PROVE more[i].id = TaskNames[i] /\ Wired(more, i)
  <2>1. CASE i = N + 1
    BY <1>3, <1>5, <2>1 DEF Wired
  <2>2. CASE i # N + 1
    <3>1. i \in 1..N
      BY <1>1, <2>2
    <3> QED
      BY <1>5, <1>7, <3>1 DEF IsBuilt, Wired
  <2> QED
    BY <2>1, <2>2
<1> QED
  BY <1>2, <1>5, <1>8 DEF IsBuilt, more

(* One dependency of depends_on keeps it, and the names. *)
LEMMA ConnectedIsBuilt ==
  ASSUME NEW all, IsBuilt(all), NEW i \in 1..Len(all), NEW d
  PROVE  IsBuilt(Connected(all, i, d)) /\ Len(Connected(all, i, d)) = Len(all)
<1> DEFINE N == Len(all)
           s == all[i].needs
           more == [all EXCEPT ![i].needs = Append(@, d)]
<1> SUFFICES ASSUME d \in Ids(all) \ {all[i].id}, d \notin ToSet(s)
             PROVE  IsBuilt(more) /\ Len(more) = N
  BY DEF Connected
<1>1. N \in Nat /\ DOMAIN all = 1..N /\ all \in Seq(Task) /\ all[i] \in Task
  BY BuiltIsGraph DEF IsBuilt
<1>2. d \in Nat
  BY BuiltIsGraph, GraphIds
<1>3. s \in Seq(Nat)
  BY <1>1 DEF Task
<1>4. Len(s) \in Nat /\ DOMAIN s = 1..Len(s)
  BY <1>3, LenProperties
<1>5. /\ Append(s, d) \in Seq(Nat) /\ Len(Append(s, d)) = Len(s) + 1
      /\ \A k \in 1..Len(s) : Append(s, d)[k] = s[k]
      /\ Append(s, d)[Len(s) + 1] = d
  <2> HIDE DEF s
  <2> QED
    BY <1>2, <1>3, AppendProperties
<1> DEFINE r == [all[i] EXCEPT !.needs = Append(@, d)]
<1>6. r \in Task /\ r.id = all[i].id /\ r.needs = Append(s, d)
  BY <1>1, <1>5 DEF Task
<1>7. more = [all EXCEPT ![i] = r]
  OBVIOUS
<1>8. more \in Seq(Task) /\ Len(more) = N /\ more[i] = r
      /\ \A k \in 1..N : k # i => more[k] = all[k]
  <2> HIDE DEF r, more
  <2> QED
    BY <1>1, <1>6, <1>7, ExceptSeq
<1>9. DOMAIN more = 1..N
  BY <1>8, LenProperties
<1> HIDE DEF more, r
<1>10. \A k \in 1..N : more[k].id = all[k].id
  BY <1>6, <1>8
<1>11. Ids(more) = Ids(all)
  BY <1>1, <1>9, <1>10 DEF Ids
<1>12. Wired(more, i)
  <2>1. Wired(all, i)
    BY DEF IsBuilt
  <2>2. \A k \in 1..Len(s) : s[k] # d
    BY <1>4 DEF ToSet
  <2>3. \A k \in 1..(Len(s) + 1) : k = Len(s) + 1 \/ k \in 1..Len(s)
    BY <1>4
  <2>4. more[i].id = all[i].id /\ more[i].needs = Append(s, d)
    BY <1>6, <1>8
  <2>5. \A k \in 1..(Len(s) + 1) : Append(s, d)[k] \in Ids(all) \ {all[i].id}
    BY <1>5, <2>1, <2>3 DEF Wired
  <2>6. \A j, k \in 1..(Len(s) + 1) : Append(s, d)[j] = Append(s, d)[k] => j = k
    BY <1>5, <2>1, <2>2, <2>3 DEF Wired
  <2> HIDE DEF s
  <2> QED
    BY <1>5, <1>11, <2>4, <2>5, <2>6 DEF Wired
<1>13. \A k \in 1..N : Wired(more, k)
  <2> TAKE k \in 1..N
  <2>1. CASE k # i
    BY <1>8, <1>11, <2>1 DEF IsBuilt, Wired
  <2> QED
    BY <1>12, <2>1
<1> QED
  BY <1>8, <1>10, <1>13 DEF IsBuilt

-----------------------------------------------------------------------------
THEOREM BuilderTypes == Spec => []IInv
<1>1. Init => IInv
  <2> SUFFICES ASSUME Init PROVE IInv
    OBVIOUS
  <2>1. tasks \in Seq(Task) /\ Len(tasks) = 0 /\ fresh = FALSE
    BY EmptySeq DEF Init
  <2> QED
    BY <2>1, NamesDistinct DEF IInv, IsBuilt
<1>2. IInv /\ [Next]_vars => IInv'
  <2> SUFFICES ASSUME IInv, [Next]_vars PROVE IInv'
    OBVIOUS
  <2>1. CASE NameTask
    BY <2>1, NamedIsBuilt DEF NameTask, IInv
  <2>2. CASE Connect
    <3>1. PICK i \in DOMAIN tasks : \E c, d \in Ids(tasks) \cup {Unknown} :
            tasks' = IF Raises(tasks, i, c) THEN tasks
                     ELSE Connected(Connected(tasks, i, c), i, d)
      BY <2>2 DEF Connect
    <3>2. PICK c, d \in Ids(tasks) \cup {Unknown} :
            tasks' = IF Raises(tasks, i, c) THEN tasks
                     ELSE Connected(Connected(tasks, i, c), i, d)
      BY <3>1
    <3>3. i \in 1..Len(tasks) /\ IsBuilt(tasks)
      BY BuiltIsGraph DEF IInv
    <3>4. IsBuilt(Connected(tasks, i, c)) /\ Len(Connected(tasks, i, c)) = Len(tasks)
      BY <3>3, ConnectedIsBuilt
    <3>5. IsBuilt(Connected(Connected(tasks, i, c), i, d))
      BY <3>3, <3>4, ConnectedIsBuilt
    <3>6. IsBuilt(tasks')
      BY <3>2, <3>3, <3>5
    <3>7. fresh' => fresh /\ tasks' = tasks /\ built' = built
      BY <2>2 DEF Connect
    <3> QED
      BY <3>6, <3>7 DEF IInv, Buildable
  <2>3. CASE Build
    BY <2>3 DEF Build, IInv, Buildable
  <2>4. CASE UNCHANGED vars
    BY <2>4 DEF vars, IInv, Buildable
  <2> QED
    BY <2>1, <2>2, <2>3, <2>4 DEF Next
<1> QED
  BY <1>1, <1>2, PTL DEF Spec

-----------------------------------------------------------------------------
(* What validate_dag finds nothing to say about, but for a cycle. *)
LEMMA BuiltIsNotRefused ==
  ASSUME NEW all, IsBuilt(all)
  PROVE  Refusals(all) \subseteq {"no task", "cycle"}
<1> DEFINE N == Len(all)
<1>1. /\ N \in Nat /\ DOMAIN all = 1..N
      /\ Cardinality(Ids(all)) = N
      /\ \A i \in 1..N : all[i] \in Task
  BY BuiltIsGraph
<1>2. ASSUME NEW i \in 1..N
      PROVE  /\ all[i].id \notin ToSet(all[i].needs)
             /\ NoRepeats(all[i].needs)
             /\ ToSet(all[i].needs) \subseteq Ids(all)
  <2>1. all[i].needs \in Seq(Nat)
    BY <1>1 DEF Task
  <2>2. DOMAIN all[i].needs = 1..Len(all[i].needs)
    BY <2>1, LenProperties
  <2>3. Wired(all, i)
    BY DEF IsBuilt
  <2>4. NoRepeats(all[i].needs)
    BY <2>1, <2>3, DistinctCount DEF Wired, NoRepeats
  <2> QED
    BY <2>2, <2>3, <2>4 DEF Wired, ToSet
<1> DEFINE each == {all[i] : i \in DOMAIN all}
<1>3. \A t \in each : /\ t.id \notin ToSet(t.needs)
                      /\ NoRepeats(t.needs)
                      /\ ToSet(t.needs) \subseteq Ids(all)
  BY <1>1, <1>2
<1> HIDE DEF each
<1>4. \A reason : reason \in {"duplicate id", "self", "repeats", "unknown"} =>
        ~ CASE reason = "no task"      -> all = <<>>
            [] reason = "duplicate id" -> Cardinality(Ids(all)) # Len(all)
            [] reason = "self"         -> \E t \in each : t.id \in ToSet(t.needs)
            [] reason = "repeats"      -> \E t \in each : ~ NoRepeats(t.needs)
            [] reason = "unknown"      -> \E t \in each : ~ ToSet(t.needs) \subseteq Ids(all)
            [] reason = "cycle"        -> Len(KahnOrder(all)) # Cardinality(Ids(all))
  BY <1>1, <1>3
<1> QED
  BY <1>4 DEF Refusals, each

(* build goes through exactly when no task waits for itself. *)
LEMMA CompleteIffAcyclic ==
  ASSUME NEW all, IsBuilt(all)
  PROVE  /\ Sound(all, KahnOrder(all))
         /\ Len(KahnOrder(all)) = Len(all) <=> ToSet(KahnOrder(all)) = Ids(all)
         /\ Len(KahnOrder(all)) = Len(all) <=> ~ Cyclic(all)
<1>1. IsGraph(all) /\ NoneMissing(all) /\ Cardinality(Ids(all)) = Len(all)
  BY BuiltIsGraph
<1>2. Sound(all, KahnOrder(all))
  BY <1>1, KahnSound
<1>3. Len(KahnOrder(all)) = Len(all) <=> ToSet(KahnOrder(all)) = Ids(all)
  BY <1>1, <1>2, SoundCount
<1>4. ToSet(KahnOrder(all)) = Ids(all) <=> ~ Cyclic(all)
  BY <1>1, AcyclicIsComplete DEF Cyclic
<1> QED
  BY <1>2, <1>3, <1>4

LEMMA CompleteIsOrdered ==
  ASSUME NEW all, IsBuilt(all), Len(KahnOrder(all)) = Len(all)
  PROVE  Ordered(KahnOrder(all), all)
<1> DEFINE o == KahnOrder(all)
<1>1. NoneMissing(all)
  BY BuiltIsGraph
<1>2. Sound(all, o) /\ ToSet(o) = Ids(all)
  BY CompleteIffAcyclic
<1>3. Len(o) \in Nat /\ DOMAIN o = 1..Len(o)
  BY <1>2, LenProperties DEF Sound
<1> HIDE DEF o
<1>4. ASSUME NEW t \in Ids(all), NEW u \in Needs(all, t) PROVE Before(o, u, t)
  <2>1. PICK k \in 1..Len(o) : o[k] = t
    BY <1>2, <1>3 DEF ToSet
  <2>2. PICK i \in 1..(k - 1) : o[i] = u
    BY <1>1, <1>2, <2>1 DEF Sound, NoneMissing
  <2>3. i \in 1..Len(o) /\ i < k
    BY <1>3
  <2> QED
    BY <1>3, <2>1, <2>2, <2>3 DEF Before
<1> QED
  BY <1>2, <1>4 DEF Ordered, o

(* For all names and dependencies, in whatever order task, depends_on and
   build are called: the builder holds no graph validate_dag would refuse but
   for a cycle, builds exactly when there is none, and lists every task after
   what it needs. *)
THEOREM BuilderIsValid == Spec => []BuildsWhatIsValid
<1>1. IInv => BuildsWhatIsValid
  BY BuiltIsNotRefused, CompleteIffAcyclic, CompleteIsOrdered
     DEF IInv, BuildsWhatIsValid, Buildable
<1> QED
  BY <1>1, BuilderTypes, PTL

-----------------------------------------------------------------------------
(* 2 to the power of n, as a recursive function. *)
PowersTo(n) ==
  LET power[i \in 0..n] == IF i = 0 THEN 1 ELSE 2 * power[i - 1] IN power

PowerOf2(n) == PowersTo(n)[n]

LEMMA PowerSteps ==
  ASSUME NEW n \in Nat
  PROVE  /\ PowersTo(n)[0] = 1
         /\ \A i \in 1..n : PowersTo(n)[i] = 2 * PowersTo(n)[i - 1]
         /\ \A i \in 0..n : PowersTo(n)[i] \in Nat \ {0}
<1> DEFINE F == [i \in 1..n |-> [v \in Nat |-> 2 * v]]
           p == PowersTo(n)
           To(g) == [i \in 0..n |-> IF i = 0 THEN 1 ELSE 2 * g[i - 1]]
<1>1. PICK g \in [0..n -> Nat] : g[0] = 1 /\ \A i \in 1..n : g[i] = F[i][g[i - 1]]
  <2>1. F \in [1..n -> [Nat -> Nat]]
    OBVIOUS
  <2>2. 1 \in Nat
    OBVIOUS
  <2> HIDE DEF F
  <2>3. \E g : Turns(g, Nat, 1, n, F)
    BY <2>1, <2>2, RecursionExists, Zenon
  <2> QED
    BY <2>3 DEF Turns
<1>2. \A i \in 1..n : g[i] = 2 * g[i - 1]
  <2>1. \A i \in 1..n : i - 1 \in 0..n
    OBVIOUS
  <2> QED
    BY <1>1, <2>1
<1>4. g = To(g)
  <2>1. g = [i \in 0..n |-> g[i]]
    BY <1>1
  <2>2. \A i \in 0..n : g[i] = IF i = 0 THEN 1 ELSE 2 * g[i - 1]
    <3> TAKE i \in 0..n
    <3>1. CASE i = 0
      BY <1>1, <3>1
    <3>2. CASE i # 0
      <4>1. i \in 1..n
        BY <3>2
      <4> QED
        BY <1>2, <3>2, <4>1
    <3> QED
      BY <3>1, <3>2
  <2> HIDE DEF F
  <2> QED
    BY <2>1, <2>2
<1>5. p = To(p)
  BY <1>4 DEF PowersTo
<1> HIDE DEF p
<1>6. p[0] = 1 /\ \A i \in 1..n : p[i] = 2 * p[i - 1]
  <2>1. \A i \in 1..n : i \in 0..n /\ i # 0
    OBVIOUS
  <2>2. \A i \in 0..n : p[i] = To(p)[i]
    BY <1>5
  <2> QED
    BY <2>1, <2>2
<1>7. \A i \in 0..n : p[i] \in Nat \ {0}
  <2> DEFINE Bad == {i \in 0..n : p[i] \notin Nat \ {0}}
  <2> SUFFICES ASSUME Bad # {} PROVE FALSE
    OBVIOUS
  <2>1. PICK m \in Bad : \A k \in Bad : m <= k
    <3>1. Bad \in SUBSET Nat
      OBVIOUS
    <3> HIDE DEF Bad
    <3> QED
      BY <3>1, LeastNat
  <2>2. m \in 1..n /\ m - 1 \in 0..n /\ m - 1 < m
    BY <1>6, <2>1
  <2>3. p[m - 1] \in Nat \ {0}
    BY <2>1, <2>2
  <2>4. p[m] = 2 * p[m - 1]
    BY <1>6, <2>2
  <2> DEFINE q == p[m - 1]
  <2>5. q \in Nat \ {0} /\ p[m] = 2 * q
    BY <2>3, <2>4
  <2> HIDE DEF q
  <2>6. p[m] \in Nat \ {0}
    BY <2>5
  <2> QED
    BY <2>1, <2>6
<1> QED
  BY <1>6, <1>7 DEF p

(* The least of the maximum and the base doubled. *)
Capped(base, max, x) == Min({max, base * x})

(* Doubling under the maximum doubles, and stays at the maximum. *)
LEMMA CappedDoubles ==
  ASSUME NEW base \in Nat, NEW max \in Nat, NEW x \in Nat
  PROVE  /\ Capped(base, max, x) \in Nat
         /\ Doubled(Capped(base, max, x), max) = Capped(base, max, 2 * x)
<1> DEFINE y == base * x
           z == Capped(base, max, x)
<1>1. y \in Nat /\ base * (2 * x) = 2 * y
  OBVIOUS
<1> HIDE DEF y
<1>2. z = IF max <= y THEN max ELSE y
  BY <1>1, LeastOfTwo DEF Capped, y
<1>3. Capped(base, max, 2 * x) = IF max <= 2 * y THEN max ELSE 2 * y
  BY <1>1, LeastOfTwo DEF Capped
<1>4. z \in Nat
  BY <1>1, <1>2
<1> HIDE DEF z
<1>5. Doubled(z, max) = IF max <= 2 * z THEN max ELSE 2 * z
  BY <1>4, LeastOfTwo DEF Doubled
<1>6. Doubled(z, max) = Capped(base, max, 2 * x)
  BY <1>1, <1>2, <1>3, <1>5
<1> QED
  BY <1>4, <1>6 DEF z

(* The loop, for every attempt. *)
LEMMA BackoffDoubles ==
  ASSUME NEW q, q.base \in Nat, q.max \in Nat, q.base <= q.max, NEW n \in Nat
  PROVE  Backoff(q, n) =
           Capped(q.base, q.max, PowerOf2(IF n = 0 THEN 0 ELSE n - 1))
<1> DEFINE T == IF n = 0 THEN 0 ELSE n - 1
           p == PowersTo(T)
           To(g) == [i \in 0..T |-> IF i = 0 THEN q.base ELSE Doubled(g[i - 1], q.max)]
           after == CHOOSE g : g = To(g)
           h == [i \in 0..T |-> Capped(q.base, q.max, p[i])]
<1>1. T \in Nat /\ Max({0, n - 1}) = T
  BY LeastOfTwo
<1>2. /\ p[0] = 1 /\ \A i \in 1..T : p[i] = 2 * p[i - 1]
      /\ \A i \in 0..T : p[i] \in Nat
  BY <1>1, PowerSteps
<1> HIDE DEF p, T
<1>3. h = To(h)
  <2>1. ASSUME NEW i \in 0..T
        PROVE  h[i] = IF i = 0 THEN q.base ELSE Doubled(h[i - 1], q.max)
    <3>1. CASE i = 0
      <4>1. q.base * 1 = q.base
        OBVIOUS
      <4>2. Capped(q.base, q.max, 1) = q.base
        BY <4>1, LeastOfTwo DEF Capped
      <4>3. h[0] = Capped(q.base, q.max, 1)
        BY <1>1, <1>2
      <4> QED
        BY <3>1, <4>2, <4>3
    <3>2. CASE i # 0
      <4>1. i \in 1..T /\ i - 1 \in 0..T
        BY <1>1, <3>2
      <4>2. p[i] = 2 * p[i - 1] /\ p[i - 1] \in Nat
        BY <1>2, <4>1
      <4>3. Doubled(Capped(q.base, q.max, p[i - 1]), q.max) =
              Capped(q.base, q.max, 2 * p[i - 1])
        BY <4>2, CappedDoubles
      <4>4. h[i] = Capped(q.base, q.max, p[i]) /\ h[i - 1] = Capped(q.base, q.max, p[i - 1])
        BY <4>1
      <4> QED
        BY <3>2, <4>2, <4>3, <4>4
    <3> QED
      BY <3>1, <3>2
  <2>2. h = [i \in 0..T |-> h[i]]
    OBVIOUS
  <2> HIDE DEF h
  <2> QED
    BY <2>1, <2>2
<1>4. after = To(after)
  <2> HIDE DEF To
  <2> QED
    BY <1>3
<1>5. Backoff(q, n) = after[T]
  BY <1>1 DEF Backoff
<1> HIDE DEF after
<1>6. \A i \in 0..T : after[i] = Capped(q.base, q.max, p[i])
  <2> DEFINE Bad == {i \in 0..T : after[i] # Capped(q.base, q.max, p[i])}
  <2>1. \A i \in 0..T : after[i] = IF i = 0 THEN q.base ELSE Doubled(after[i - 1], q.max)
    <3>1. \A i \in 0..T : To(after)[i] = IF i = 0 THEN q.base ELSE Doubled(after[i - 1], q.max)
      OBVIOUS
    <3> HIDE DEF To
    <3> QED
      BY <1>4, <3>1
  <2>2. \A i \in 0..T : h[i] = IF i = 0 THEN q.base ELSE Doubled(h[i - 1], q.max)
    <3>1. \A i \in 0..T : To(h)[i] = IF i = 0 THEN q.base ELSE Doubled(h[i - 1], q.max)
      OBVIOUS
    <3> HIDE DEF To, h
    <3> QED
      BY <1>3, <3>1
  <2>3. \A i \in 0..T : h[i] = Capped(q.base, q.max, p[i])
    OBVIOUS
  <2> HIDE DEF h, To
  <2> SUFFICES ASSUME Bad # {} PROVE FALSE
    OBVIOUS
  <2>4. PICK m \in Bad : \A k \in Bad : m <= k
    <3>1. Bad \in SUBSET Nat
      BY <1>1
    <3> HIDE DEF Bad
    <3> QED
      BY <3>1, LeastNat
  <2>5. m # 0
    <3>1. 0 \in 0..T
      BY <1>1
    <3> QED
      BY <2>1, <2>2, <2>3, <2>4, <3>1
  <2>6. m - 1 \in 0..T /\ m - 1 < m /\ m \in 0..T
    BY <1>1, <2>4, <2>5
  <2>7. after[m - 1] = h[m - 1]
    BY <2>3, <2>4, <2>6
  <2> QED
    BY <2>1, <2>2, <2>3, <2>4, <2>5, <2>6, <2>7
<1>7. T \in 0..T
  BY <1>1
<1> QED
  BY <1>5, <1>6, <1>7 DEF PowerOf2, p, T

LEMMA SmallPowers ==
  ASSUME NEW n \in 0..5
  PROVE  PowerOf2(n) = 2 ^ n
<1> DEFINE p == PowersTo(n)
<1>1. p[0] = 1 /\ \A i \in 1..n : p[i] = 2 * p[i - 1]
  BY PowerSteps
<1>2. PowerOf2(n) = p[n]
  BY DEF PowerOf2
<1> HIDE DEF p
<1>3. n >= 1 => p[1] = 2
  BY <1>1
<1>4. n >= 2 => p[2] = 4
  BY <1>1, <1>3
<1>5. n >= 3 => p[3] = 8
  BY <1>1, <1>4
<1>6. n >= 4 => p[4] = 16
  BY <1>1, <1>5
<1>7. n >= 5 => p[5] = 32
  BY <1>1, <1>6
<1>8. 2 ^ 0 = 1 /\ 2 ^ 1 = 2 /\ 2 ^ 2 = 4 /\ 2 ^ 3 = 8 /\ 2 ^ 4 = 16 /\ 2 ^ 5 = 32
  OBVIOUS
<1>9. n = 0 \/ n = 1 \/ n = 2 \/ n = 3 \/ n = 4 \/ n = 5
  OBVIOUS
<1>10. CASE n = 0
  BY <1>1, <1>2, <1>8, <1>10
<1>11. CASE n = 1
  BY <1>2, <1>3, <1>8, <1>11
<1>12. CASE n = 2
  BY <1>2, <1>4, <1>8, <1>12
<1>13. CASE n = 3
  BY <1>2, <1>5, <1>8, <1>13
<1>14. CASE n = 4
  BY <1>2, <1>6, <1>8, <1>14
<1>15. CASE n = 5
  BY <1>2, <1>7, <1>8, <1>15
<1> QED
  BY <1>9, <1>10, <1>11, <1>12, <1>13, <1>14, <1>15

(* Both ways of normalising give a policy that makes sense. *)
MakesSense(q) == q.base \in 1..q.max /\ q.max \in Nat /\ q.attempts \in 1..100

LEMMA NormalizedMakesSense ==
  ASSUME NEW p \in Policies
  PROVE  /\ MakesSense(Normalized(p)) /\ MakesSense(NormalizedByDefaults(p, Defaults))
         /\ p.base \in 1..Defaults.mostBase /\ p.max \in p.base..Defaults.mostMax =>
              Normalized(p) = NormalizedByDefaults(p, Defaults)
<1> DEFINE d == Defaults
           attempts == Min({100, Max({1, p.attempts})})
           base == Max({1, p.base})
           within(x, default, most) == Min({most, IF x <= 0 THEN default ELSE x})
           baseD == within(p.base, d.base, d.mostBase)
           maxD  == within(p.max, d.max, d.mostMax)
<1>0. 1 \in Int
  OBVIOUS
<1>1. p.attempts \in Int /\ p.base \in Int /\ p.max \in Int
  BY PoliciesAssumption
<1>2. /\ d.base \in Nat \ {0} /\ d.max \in Nat \ {0}
      /\ d.mostBase \in Nat \ {0} /\ d.mostMax \in Nat \ {0}
  BY DefaultsAssumption
<1>3. attempts \in 1..100
  <2> DEFINE m == Max({1, p.attempts})
  <2>1. m = IF 1 <= p.attempts THEN p.attempts ELSE 1
    BY <1>0, <1>1, LeastOfTwo, Zenon
  <2>2. m \in Int /\ m >= 1
    BY <1>1, <2>1
  <2> HIDE DEF m
  <2>3. Min({100, m}) = IF 100 <= m THEN 100 ELSE m
    BY <2>2, LeastOfTwo
  <2> QED
    BY <2>2, <2>3 DEF m
<1>4. base \in Nat \ {0} /\ (p.base >= 1 => base = p.base)
  <2>1. base = IF 1 <= p.base THEN p.base ELSE 1
    BY <1>0, <1>1, LeastOfTwo, Zenon
  <2> QED
    BY <1>1, <2>1
<1>5. \A x \in Int, default, most \in Nat \ {0} :
        /\ within(x, default, most) \in Nat \ {0}
        /\ x \in 1..most => within(x, default, most) = x
  <2> TAKE x \in Int, default, most \in Nat \ {0}
  <2>1. (IF x <= 0 THEN default ELSE x) \in Nat \ {0}
    OBVIOUS
  <2> QED
    BY <2>1, LeastOfTwo
<1>6. /\ baseD \in Nat \ {0} /\ maxD \in Nat \ {0}
      /\ p.base \in 1..d.mostBase => baseD = p.base
      /\ p.max \in 1..d.mostMax => maxD = p.max
  <2> HIDE DEF within
  <2> QED
    BY <1>1, <1>2, <1>5
<1>7. /\ Normalized(p) = [attempts |-> attempts, base |-> base, max |-> Max({base, p.max})]
      /\ NormalizedByDefaults(p, d) =
           [attempts |-> attempts, base |-> baseD, max |-> Max({baseD, maxD})]
  BY DEF Normalized, NormalizedByDefaults
<1> HIDE DEF attempts, base, baseD, maxD, d
<1>8. /\ Max({base, p.max}) \in Nat /\ Max({base, p.max}) >= base
      /\ Max({baseD, maxD}) \in Nat /\ Max({baseD, maxD}) >= baseD
  <2>1. Max({base, p.max}) = IF base <= p.max THEN p.max ELSE base
    <3>1. base \in Int
      BY <1>4
    <3> QED
      BY <1>1, <3>1, LeastOfTwo, Zenon
  <2>2. Max({baseD, maxD}) = IF baseD <= maxD THEN maxD ELSE baseD
    BY <1>6, LeastOfTwo
  <2> QED
    BY <1>1, <1>4, <1>6, <2>1, <2>2
<1>9. MakesSense(Normalized(p)) /\ MakesSense(NormalizedByDefaults(p, d))
  BY <1>3, <1>4, <1>6, <1>7, <1>8 DEF MakesSense
<1>10. ASSUME p.base \in 1..d.mostBase, p.max \in p.base..d.mostMax
       PROVE  Normalized(p) = NormalizedByDefaults(p, d)
  <2>1. p.max \in 1..d.mostMax /\ p.base >= 1
    BY <1>1, <1>2, <1>10
  <2>2. base = p.base /\ baseD = p.base /\ maxD = p.max
    BY <1>4, <1>6, <1>10, <2>1
  <2> QED
    BY <1>7, <2>2
<1> QED
  BY <1>9, <1>10 DEF d

(* For all policies, defaults and attempts there are assumptions about nothing
   but signs: the delay is the base doubled or the maximum, whichever is
   less. *)
THEOREM BackoffIsRight == Spec => []BackoffIsCapped
<1>1. BackoffIsCapped
  <2> SUFFICES ASSUME NEW p \in Policies
               PROVE  /\ \A q \in {Normalized(p), NormalizedByDefaults(p, Defaults)} :
                           /\ q.base \in 1..q.max /\ q.attempts \in 1..100
                           /\ \A n \in 0..6 :
                                Backoff(q, n) = Min({q.max, q.base * 2 ^ (Max({n, 1}) - 1)})
                      /\ p.base \in 1..Defaults.mostBase /\ p.max \in p.base..Defaults.mostMax =>
                           Normalized(p) = NormalizedByDefaults(p, Defaults)
    BY DEF BackoffIsCapped
  <2>1. ASSUME NEW q, MakesSense(q), NEW n \in 0..6
        PROVE  Backoff(q, n) = Min({q.max, q.base * 2 ^ (Max({n, 1}) - 1)})
    <3> DEFINE k == IF n = 0 THEN 0 ELSE n - 1
    <3>1. Max({n, 1}) = IF n <= 1 THEN 1 ELSE n
      <4>1. n \in Int /\ 1 \in Int
        OBVIOUS
      <4> QED
        BY <4>1, LeastOfTwo, Zenon
    <3>2. k \in 0..5 /\ Max({n, 1}) - 1 = k
      BY <3>1
    <3>3. Backoff(q, n) = Capped(q.base, q.max, PowerOf2(k))
      BY <2>1, BackoffDoubles DEF MakesSense
    <3> HIDE DEF k
    <3> QED
      BY <3>2, <3>3, SmallPowers DEF Capped
  <2>2. MakesSense(Normalized(p)) /\ MakesSense(NormalizedByDefaults(p, Defaults))
    BY NormalizedMakesSense
  <2>3. \A q \in {Normalized(p), NormalizedByDefaults(p, Defaults)} :
          /\ q.base \in 1..q.max /\ q.attempts \in 1..100
          /\ \A n \in 0..6 :
               Backoff(q, n) = Min({q.max, q.base * 2 ^ (Max({n, 1}) - 1)})
    <3> TAKE q \in {Normalized(p), NormalizedByDefaults(p, Defaults)}
    <3>1. MakesSense(q)
      BY <2>2
    <3> QED
      BY <2>1, <3>1 DEF MakesSense
  <2> QED
    BY <2>3, NormalizedMakesSense
<1> QED
  BY <1>1, PTL

-----------------------------------------------------------------------------
(* The waves of estimate_parallelism: the recursion has a solution and WaveRun
   is one. *)
WaveStates(all) == [placed : SUBSET Ids(all), wave : SUBSET Ids(all), most : Nat]

LEMMA UnblockedCount ==
  ASSUME NEW all, IsGraph(all), NEW P
  PROVE  /\ Unblocked(all, P) \in SUBSET Ids(all)
         /\ Cardinality(Unblocked(all, P)) \in Nat
<1>1. Unblocked(all, P) \in SUBSET Ids(all)
  BY DEF Unblocked
<1> QED
  BY <1>1, GraphIds, FS_Subset, FS_CardinalityType

LEMMA WavedIsState ==
  ASSUME NEW all, IsGraph(all), NEW s \in WaveStates(all)
  PROVE  LET next == Unblocked(all, s.placed \cup s.wave) IN
         /\ Waved(all, s) \in WaveStates(all)
         /\ Waved(all, s).placed = s.placed \cup s.wave
         /\ Waved(all, s).wave = next
         /\ Waved(all, s).most = IF s.most <= Cardinality(next)
                                 THEN Cardinality(next) ELSE s.most
<1> DEFINE next == Unblocked(all, s.placed \cup s.wave)
           c == Cardinality(next)
<1>1. next \in SUBSET Ids(all) /\ c \in Nat
  BY UnblockedCount
<1>2. s.placed \in SUBSET Ids(all) /\ s.wave \in SUBSET Ids(all) /\ s.most \in Nat
  BY DEF WaveStates
<1>3. Max({s.most, c}) = IF s.most <= c THEN c ELSE s.most
  <2>1. s.most \in Int /\ c \in Int
    BY <1>1, <1>2
  <2> QED
    BY <2>1, LeastOfTwo, Zenon
<1>4. Waved(all, s) = [placed |-> s.placed \cup s.wave, wave |-> next, most |-> Max({s.most, c})]
  BY DEF Waved, NextWave
<1> HIDE DEF next, c
<1>5. Max({s.most, c}) \in Nat
  BY <1>1, <1>2, <1>3
<1>6. Waved(all, s) \in WaveStates(all)
  BY <1>1, <1>2, <1>4, <1>5 DEF WaveStates
<1> QED
  BY <1>3, <1>4, <1>6 DEF next, c

LEMMA WaveRunSteps ==
  ASSUME NEW all, IsGraph(all)
  PROVE  LET w == WaveRun(all) IN
         /\ w \in [0..Len(all) -> WaveStates(all)]
         /\ w[0] = [placed |-> {}, wave |-> Unblocked(all, {}),
                    most |-> Cardinality(Unblocked(all, {}))]
         /\ \A n \in 1..Len(all) : w[n] = Waved(all, w[n - 1])
<1> DEFINE N == Len(all)
           first == Unblocked(all, {})
           x == [placed |-> {}, wave |-> first, most |-> Cardinality(first)]
           S == WaveStates(all)
           F == [i \in 1..N |-> [s \in S |-> Waved(all, s)]]
           To(g) == [n \in 0..N |-> IF n = 0 THEN x ELSE Waved(all, g[n - 1])]
           w == WaveRun(all)
<1>1. N \in Nat
  BY DEF IsGraph
<1>2. x \in S
  BY UnblockedCount DEF WaveStates
<1>3. F \in [1..N -> [S -> S]]
  <2>1. \A s \in S : Waved(all, s) \in S
    BY WavedIsState
  <2> HIDE DEF S
  <2> QED
    BY <2>1
<1>4. w = CHOOSE g : g = To(g)
  BY DEF WaveRun
<1> HIDE DEF w, S, x, N
<1>5. PICK g : Turns(g, S, x, N, F)
  <2> HIDE DEF F
  <2> QED
    BY <1>1, <1>2, <1>3, RecursionExists, Zenon
<1>6. \A n \in 1..N : n - 1 \in 0..N /\ n \in 0..N /\ n # 0
  BY <1>1
<1>7. \A n \in 1..N : g[n] = Waved(all, g[n - 1])
  BY <1>5, <1>6 DEF Turns
<1>8. g = To(g)
  <2>1. g = [n \in 0..N |-> g[n]]
    BY <1>5 DEF Turns
  <2>2. \A n \in 0..N : g[n] = IF n = 0 THEN x ELSE Waved(all, g[n - 1])
    <3> TAKE n \in 0..N
    <3>1. n = 0 \/ n \in 1..N
      BY <1>1
    <3> QED
      BY <1>5, <1>7, <3>1 DEF Turns
  <2> QED
    BY <2>1, <2>2, Zenon
<1>9. w = To(w)
  <2> HIDE DEF To
  <2> QED
    BY <1>4, <1>8
<1>10. w[0] = x /\ \A n \in 1..N : w[n] = Waved(all, w[n - 1])
  <2>1. 0 \in 0..N
    BY <1>1
  <2>2. \A n \in 0..N : w[n] = To(w)[n]
    BY <1>9, Zenon
  <2> QED
    BY <1>6, <2>1, <2>2
<1>11. \A n \in 0..N : w[n] \in S
  <2> DEFINE Bad == {n \in 0..N : w[n] \notin S}
  <2> SUFFICES ASSUME Bad # {} PROVE FALSE
    OBVIOUS
  <2>1. PICK m \in Bad : \A k \in Bad : m <= k
    <3>1. Bad \in SUBSET Nat
      BY <1>1
    <3> HIDE DEF Bad
    <3> QED
      BY <3>1, LeastNat
  <2>2. m # 0
    BY <1>2, <1>10, <2>1
  <2>3. m \in 1..N /\ m - 1 \in 0..N /\ m - 1 < m
    BY <1>1, <2>1, <2>2
  <2>4. w[m - 1] \in S
    BY <2>1, <2>3
  <2>5. w[m] \in S
    BY <1>10, <2>3, <2>4, WavedIsState DEF S
  <2> QED
    BY <2>1, <2>5
<1>12. w = [n \in 0..N |-> w[n]]
  <2>1. To(w) = [n \in 0..N |-> To(w)[n]]
    OBVIOUS
  <2> QED
    BY <1>9, <2>1, Zenon
<1> QED
  BY <1>10, <1>11, <1>12 DEF w, S, x, N

Wide(all, most) ==
  \E S \in SUBSET Ids(all) : Cardinality(S) = most /\ Independent(all, S)

(* No task of a wave waits for another of the same wave. *)
LEMMA WaveIsIndependent ==
  ASSUME NEW all, IsGraph(all), NoneMissing(all), NEW P \in SUBSET Ids(all),
         \A u \in P : Needs(all, u) \in SUBSET P
  PROVE  Independent(all, Unblocked(all, P))
<1> SUFFICES ASSUME NEW t \in Unblocked(all, P), NEW u \in Unblocked(all, P)
             PROVE  t \notin Ancestors(all, u)
  BY DEF Independent
<1>1. u \in Ids(all) /\ t \notin P /\ Needs(all, u) \in SUBSET P
  BY DEF Unblocked, NoneMissing
<1>2. Ancestors(all, u) \in SUBSET P
  BY <1>1, AncestorsLeast
<1> QED
  BY <1>1, <1>2

(* What is placed is closed under dependencies, and the most is the size of
   some wave so far. *)
LEMMA WavesAreWide ==
  ASSUME NEW all, IsGraph(all), NoneMissing(all), NEW n \in 0..Len(all)
  PROVE  LET most == WaveRun(all)[n].most IN
         Wide(all, most) /\ most \in Nat /\ Cardinality(Unblocked(all, {})) <= most
<1> DEFINE N == Len(all)
           w == WaveRun(all)
           c == Cardinality(Unblocked(all, {}))
           Fine(s) == /\ s \in WaveStates(all)
                      /\ \A u \in s.placed : Needs(all, u) \in SUBSET s.placed
                      /\ s.wave = Unblocked(all, s.placed)
                      /\ Wide(all, s.most) /\ c <= s.most
           Bad == {m \in 0..N : ~ Fine(w[m])}
<1>1. N \in Nat
  BY DEF IsGraph
<1>2. /\ w \in [0..N -> WaveStates(all)]
      /\ w[0] = [placed |-> {}, wave |-> Unblocked(all, {}), most |-> c]
      /\ \A m \in 1..N : w[m] = Waved(all, w[m - 1])
  BY WaveRunSteps
<1> HIDE DEF w, N
<1>3. Fine(w[0])
  <2>1. 0 \in 0..N
    BY <1>1
  <2>2. Independent(all, Unblocked(all, {}))
    BY WaveIsIndependent
  <2>3. Unblocked(all, {}) \in SUBSET Ids(all) /\ c \in Nat
    BY UnblockedCount
  <2>4. Wide(all, c)
    BY <2>2, <2>3 DEF Wide
  <2>5. w[0] \in WaveStates(all)
    BY <1>2, <2>1
  <2> DEFINE r == w[0]
  <2>6. r.placed = {} /\ r.wave = Unblocked(all, {}) /\ r.most = c
    BY <1>2
  <2>7. c <= c
    BY <2>3
  <2> HIDE DEF r, c
  <2>8. r.wave = Unblocked(all, r.placed) /\ Wide(all, r.most) /\ c <= r.most
    BY <2>4, <2>6, <2>7
  <2>9. \A u \in r.placed : Needs(all, u) \in SUBSET r.placed
    BY <2>6
  <2> QED
    BY <2>5, <2>8, <2>9 DEF r
<1>4. ASSUME NEW s \in WaveStates(all), Fine(s) PROVE Fine(Waved(all, s))
  <2> DEFINE P == s.placed \cup s.wave
             next == Unblocked(all, P)
             d == Cardinality(next)
             r == Waved(all, s)
  <2>1. r \in WaveStates(all) /\ r.placed = P /\ r.wave = next
        /\ r.most = IF s.most <= d THEN d ELSE s.most
    BY WavedIsState
  <2>2. s.placed \in SUBSET Ids(all) /\ s.wave \in SUBSET Ids(all) /\ s.most \in Nat
    BY DEF WaveStates
  <2>3. \A u \in s.wave : Needs(all, u) \in SUBSET s.placed
    BY <1>4 DEF Unblocked, NoneMissing
  <2>4. \A u \in P : Needs(all, u) \in SUBSET P
    BY <1>4, <2>3
  <2>5. P \in SUBSET Ids(all)
    BY <2>2
  <2>6. Independent(all, next)
    BY <2>4, <2>5, WaveIsIndependent
  <2>7. next \in SUBSET Ids(all) /\ d \in Nat
    BY UnblockedCount
  <2>8. Wide(all, d)
    BY <2>6, <2>7 DEF Wide
  <2>9. c \in Nat
    BY UnblockedCount
  <2> HIDE DEF r, P, next, d, c
  <2>10. Wide(all, r.most) /\ c <= r.most
    BY <1>4, <2>1, <2>2, <2>7, <2>8, <2>9
  <2>11. r.wave = Unblocked(all, r.placed)
    BY <2>1 DEF next
  <2> QED
    BY <2>1, <2>4, <2>10, <2>11 DEF r
<1>5. Bad = {}
  <2> SUFFICES ASSUME Bad # {} PROVE FALSE
    OBVIOUS
  <2> HIDE DEF Fine
  <2>1. PICK m \in Bad : \A k \in Bad : m <= k
    <3>1. Bad \in SUBSET Nat
      BY <1>1
    <3> HIDE DEF Bad
    <3> QED
      BY <3>1, LeastNat
  <2>2. m # 0
    BY <1>3, <2>1
  <2>3. m \in 1..N /\ m - 1 \in 0..N /\ m - 1 < m
    BY <1>1, <2>1, <2>2
  <2>4. Fine(w[m - 1]) /\ w[m - 1] \in WaveStates(all)
    BY <1>2, <2>1, <2>3
  <2>5. Fine(w[m])
    BY <1>2, <1>4, <2>3, <2>4
  <2> QED
    BY <2>1, <2>5
<1>6. Fine(w[n]) /\ w[n] \in WaveStates(all)
  <2> HIDE DEF Fine
  <2> QED
    BY <1>2, <1>5 DEF N
<1> QED
  BY <1>6 DEF w, WaveStates

(* For every graph the builder can come to: what estimate_parallelism returns
   is the size of a set of tasks none of which waits for another, and is no
   less than the number of roots. *)
THEOREM EstimateIsReached == Spec => []WidthIsReached
<1>1. IInv => WidthIsReached
  <2> SUFFICES ASSUME IInv PROVE WidthIsReached
    OBVIOUS
  <2>1. /\ IsGraph(tasks) /\ NoneMissing(tasks) /\ DOMAIN tasks = 1..Len(tasks)
        /\ Len(tasks) \in Nat
        /\ \A i \in 1..Len(tasks) : ToSet(tasks[i].needs) = Needs(tasks, tasks[i].id)
    BY BuiltIsGraph DEF IInv
  <2> DEFINE width == Statistics(tasks).width
  <2>2. width = WaveRun(tasks)[Len(tasks)].most
    BY DEF Statistics, EstimateParallelism
  <2>3. Len(tasks) \in 0..Len(tasks)
    BY <2>1
  <2>4. Wide(tasks, width) /\ width \in Nat /\ Cardinality(Unblocked(tasks, {})) <= width
    BY <2>1, <2>2, <2>3, WavesAreWide
  <2>5. Roots(tasks) \in SUBSET Unblocked(tasks, {})
    <3> SUFFICES ASSUME NEW i \in 1..Len(tasks), tasks[i].needs = <<>>
                 PROVE  tasks[i].id \in Unblocked(tasks, {})
      BY <2>1 DEF Roots
    <3>1. tasks[i].id \in Ids(tasks)
      BY <2>1 DEF Ids
    <3>2. ToSet(tasks[i].needs) = {}
      BY DEF ToSet
    <3> QED
      BY <2>1, <3>1, <3>2 DEF Unblocked
  <2>6. /\ IsFiniteSet(Unblocked(tasks, {}))
        /\ Cardinality(Unblocked(tasks, {})) \in Nat
    BY <2>1, UnblockedCount, GraphIds, FS_Subset
  <2>7. Cardinality(Roots(tasks)) <= Cardinality(Unblocked(tasks, {}))
        /\ Cardinality(Roots(tasks)) \in Nat
    BY <2>5, <2>6, FS_Subset, FS_CardinalityType
  <2> HIDE DEF width
  <2>8. Cardinality(Roots(tasks)) <= width
    BY <2>4, <2>6, <2>7
  <2> QED
    BY <2>4, <2>8 DEF WidthIsReached, Wide, width
<1> QED
  BY <1>1, BuilderTypes, PTL

-----------------------------------------------------------------------------
(* Of finitely many tasks some have the highest score, and one of these is
   the smallest. *)
LEMMA HighestScore ==
  ASSUME NEW D, IsFiniteSet(D), D # {}, NEW score, \A d \in D : score[d] \in Nat
  PROVE  \E d \in D : \A e \in D : score[e] <= score[d]
<1> DEFINE Top(T) == \E d \in T : \A e \in T : score[e] <= score[d]
           Bad == {k \in Nat : \E T \in SUBSET D : T # {} /\ Cardinality(T) = k /\ ~ Top(T)}
<1>1. \A T \in SUBSET D : IsFiniteSet(T) /\ Cardinality(T) \in Nat
  BY FS_Subset, FS_CardinalityType
<1> SUFFICES ASSUME Bad # {} PROVE FALSE
  BY <1>1
<1>2. PICK k \in Bad : \A j \in Bad : k <= j
  <2> HIDE DEF Bad
  <2>1. Bad \in SUBSET Nat
    BY DEF Bad
  <2> QED
    BY <2>1, LeastNat
<1>3. PICK T \in SUBSET D : T # {} /\ Cardinality(T) = k /\ ~ Top(T)
  BY <1>2
<1>4. PICK x \in T : TRUE
  BY <1>3
<1> DEFINE U == T \ {x}
<1>5. IsFiniteSet(U) /\ Cardinality(U) = k - 1 /\ U \in SUBSET D
  BY <1>1, <1>3, <1>4, FS_RemoveElement
<1>6. k - 1 \in Nat /\ k - 1 \notin Bad
  <2>1. k - 1 \in Nat
    BY <1>1, <1>5
  <2> QED
    BY <1>2, <2>1
<1>7. CASE U = {}
  <2>1. \A e \in T : e = x
    BY <1>7
  <2>2. Top(T)
    BY <1>4, <2>1
  <2> QED
    BY <1>3, <2>2
<1>8. CASE U # {}
  <2>1. PICK y \in U : \A e \in U : score[e] <= score[y]
    BY <1>5, <1>6, <1>8
  <2>2. score[x] \in Nat /\ \A e \in T : score[e] \in Nat
    BY <1>3, <1>4
  <2>3. CASE score[x] <= score[y]
    <3>1. \A e \in T : score[e] <= score[y]
      BY <2>1, <2>3
    <3> QED
      BY <1>3, <2>1, <3>1
  <2>4. CASE ~ score[x] <= score[y]
    <3>1. \A e \in T : score[e] <= score[x]
      BY <2>1, <2>2, <2>4
    <3> QED
      BY <1>3, <1>4, <3>1
  <2> QED
    BY <2>3, <2>4
<1> QED
  BY <1>7, <1>8

LEMMA BestIsBest ==
  ASSUME NEW D \in SUBSET Nat, IsFiniteSet(D), D # {},
         NEW score, \A d \in D : score[d] \in Nat
  PROVE  /\ BestParent(D, score) \in D
         /\ \A e \in D : score[e] <= score[BestParent(D, score)]
<1> DEFINE M == {d \in D : \A e \in D : score[e] <= score[d]}
<1>1. M \in SUBSET Nat /\ M # {}
  BY HighestScore
<1>2. BestParent(D, score) = Min(M)
  BY DEF BestParent
<1>3. Min(M) \in M
  <2> HIDE DEF M
  <2> QED
    BY <1>1, MinOfNats
<1> QED
  BY <1>2, <1>3

(* It is found by the scores of the dependencies alone. *)
LEMMA BestIsLocal ==
  ASSUME NEW D, NEW score, NEW other, \A d \in D : score[d] = other[d]
  PROVE  BestParent(D, score) = BestParent(D, other)
<1>1. {d \in D : \A e \in D : score[e] <= score[d]} = {d \in D : \A e \in D : other[e] <= other[d]}
  OBVIOUS
<1> QED
  BY <1>1 DEF BestParent

(* What the weights and the built graphs have in common. *)
Weighs(all, weight) == \A t \in Ids(all) : weight[t] \in Int

LEMMA PositiveIsNat ==
  ASSUME NEW all, NEW weight, Weighs(all, weight), NEW t \in Ids(all)
  PROVE  Positive(weight[t]) \in Nat
<1> DEFINE w == weight[t]
<1>1. w \in Int /\ 0 \in Int
  BY DEF Weighs
<1>2. Positive(weight[t]) = IF w <= 0 THEN 0 ELSE w
  BY <1>1, LeastOfTwo, Zenon DEF Positive
<1> HIDE DEF w
<1> QED
  BY <1>1, <1>2

LEMMA NeedsFinite ==
  ASSUME NEW all, IsGraph(all), NoneMissing(all), NEW t \in Ids(all)
  PROVE  Needs(all, t) \in SUBSET Nat /\ IsFiniteSet(Needs(all, t))
BY GraphIds, FS_Subset DEF NoneMissing

(* The score of a task by those of its dependencies. *)
ScoreOf(all, weight, score, t) ==
  Positive(weight[t])
    + IF Needs(all, t) = {} THEN 0 ELSE score[BestParent(Needs(all, t), score)]

LEMMA ScoreOfIsNat ==
  ASSUME NEW all, IsGraph(all), NoneMissing(all), NEW weight, Weighs(all, weight),
         NEW score \in [Ids(all) -> Nat], NEW t \in Ids(all)
  PROVE  ScoreOf(all, weight, score, t) \in Nat
<1> DEFINE D == Needs(all, t)
           b == BestParent(D, score)
<1>1. Positive(weight[t]) \in Nat
  BY PositiveIsNat
<1>2. D \in SUBSET Ids(all)
  BY DEF NoneMissing
<1>3. D \in SUBSET Nat /\ IsFiniteSet(D) /\ \A d \in D : score[d] \in Nat
  BY <1>2, NeedsFinite
<1>4. D # {} => b \in D
  <2> HIDE DEF D
  <2> QED
    BY <1>3, BestIsBest
<1>5. D # {} => score[b] \in Nat
  BY <1>3, <1>4
<1> HIDE DEF D
<1> QED
  BY <1>1, <1>5 DEF ScoreOf, D

LEMMA ScoredIsScore ==
  ASSUME NEW all, IsGraph(all), NoneMissing(all), NEW weight, Weighs(all, weight),
         NEW score \in [Ids(all) -> Nat], NEW t \in Ids(all)
  PROVE  /\ Scored(all, weight, score, t) \in [Ids(all) -> Nat]
         /\ Scored(all, weight, score, t)[t] = ScoreOf(all, weight, score, t)
         /\ \A u \in Ids(all) : u # t => Scored(all, weight, score, t)[u] = score[u]
<1> DEFINE v == ScoreOf(all, weight, score, t)
<1>1. v \in Nat
  BY ScoreOfIsNat
<1>2. Scored(all, weight, score, t) = [score EXCEPT ![t] = v]
  BY DEF Scored, ScoreOf
<1> HIDE DEF v
<1> QED
  BY <1>1, <1>2 DEF v

(* The loop over the order: the recursion has a solution and ScoreRun is
   one. *)
LEMMA ScoreRunSteps ==
  ASSUME NEW all, IsGraph(all), NoneMissing(all), NEW weight, Weighs(all, weight),
         TopologicalOrder(all).order \in Seq(Ids(all))
  PROVE  LET o == TopologicalOrder(all).order
             r == ScoreRun(all, weight) IN
         /\ r[0] = [t \in Ids(all) |-> 0]
         /\ \A n \in 1..Len(o) : r[n] = Scored(all, weight, r[n - 1], o[n])
         /\ \A n \in 0..Len(o) : r[n] \in [Ids(all) -> Nat]
<1> DEFINE o == TopologicalOrder(all).order
           N == Len(o)
           I == Ids(all)
           x == [t \in I |-> 0]
           S == [I -> Nat]
           Step(s, n) == Scored(all, weight, s, o[n])
           F == [i \in 1..N |-> [s \in S |-> Step(s, i)]]
           To(g) == [n \in 0..N |-> IF n = 0 THEN x ELSE Step(g[n - 1], n)]
           r == ScoreRun(all, weight)
<1>1. N \in Nat /\ \A n \in 1..N : o[n] \in I
  BY LenProperties, ElementOfSeq
<1>2. x \in S
  OBVIOUS
<1>3. \A n \in 1..N, s \in S : Step(s, n) \in S
  BY <1>1, ScoredIsScore
<1>4. r = CHOOSE g : g = To(g)
  <2>1. Named(all) = I
    BY DEF Named, NoneMissing
  <2> QED
    BY <2>1 DEF ScoreRun
<1> HIDE DEF r, S, x, N, Step
<1>5. F \in [1..N -> [S -> S]]
  BY <1>3
<1>6. PICK g : Turns(g, S, x, N, F)
  <2> HIDE DEF F
  <2> QED
    BY <1>1, <1>2, <1>5, RecursionExists, Zenon
<1>7. \A n \in 1..N : n - 1 \in 0..N /\ n \in 0..N /\ n # 0
  BY <1>1
<1>8. \A n \in 1..N : g[n] = Step(g[n - 1], n)
  BY <1>6, <1>7 DEF Turns
<1>9. g = To(g)
  <2>1. g = [n \in 0..N |-> g[n]]
    BY <1>6 DEF Turns
  <2>2. \A n \in 0..N : g[n] = IF n = 0 THEN x ELSE Step(g[n - 1], n)
    <3> TAKE n \in 0..N
    <3>1. n = 0 \/ n \in 1..N
      BY <1>1
    <3> QED
      BY <1>6, <1>8, <3>1 DEF Turns
  <2> QED
    BY <2>1, <2>2, Zenon
<1>10. r = To(r)
  <2> HIDE DEF To
  <2> QED
    BY <1>4, <1>9
<1>11. r[0] = x /\ \A n \in 1..N : r[n] = Step(r[n - 1], n)
  <2>1. 0 \in 0..N
    BY <1>1
  <2>2. \A n \in 0..N : r[n] = To(r)[n]
    BY <1>10, Zenon
  <2> QED
    BY <1>7, <2>1, <2>2
<1>12. \A n \in 0..N : r[n] \in S
  <2> DEFINE Bad == {n \in 0..N : r[n] \notin S}
  <2> SUFFICES ASSUME Bad # {} PROVE FALSE
    OBVIOUS
  <2>1. PICK m \in Bad : \A k \in Bad : m <= k
    <3>1. Bad \in SUBSET Nat
      BY <1>1
    <3> HIDE DEF Bad
    <3> QED
      BY <3>1, LeastNat
  <2>2. m # 0
    BY <1>2, <1>11, <2>1
  <2>3. m \in 1..N /\ m - 1 \in 0..N /\ m - 1 < m
    BY <1>1, <2>1, <2>2
  <2>4. r[m - 1] \in S
    BY <2>1, <2>3
  <2>5. r[m] \in S
    BY <1>3, <1>11, <2>3, <2>4
  <2> QED
    BY <2>1, <2>5
<1> QED
  BY <1>11, <1>12 DEF r, S, x, N, Step

(* The scores agree with those of the dependencies once the loop has ended. *)
SolvesScores(all, weight, score) ==
  /\ score \in [Ids(all) -> Nat]
  /\ \A t \in Ids(all) : score[t] = ScoreOf(all, weight, score, t)

LEMMA ScoresSolve ==
  ASSUME NEW all, IsGraph(all), NoneMissing(all), NEW weight, Weighs(all, weight),
         Sound(all, TopologicalOrder(all).order),
         ToSet(TopologicalOrder(all).order) = Ids(all)
  PROVE  SolvesScores(all, weight, Scores(all, weight))
<1> DEFINE o == TopologicalOrder(all).order
           N == Len(o)
           I == Ids(all)
           r == ScoreRun(all, weight)
           Of(s, t) == ScoreOf(all, weight, s, t)
           Fine(n) == \A k \in 1..n : r[n][o[k]] = Of(r[n], o[k])
           Bad == {n \in 0..N : ~ Fine(n)}
<1>1. /\ o \in Seq(I) /\ N \in Nat /\ DOMAIN o = 1..N
      /\ \A n \in 1..N : o[n] \in I
  BY LenProperties, ElementOfSeq DEF Sound
<1>2. \A i, k \in 1..N : o[i] = o[k] => i = k
  BY DEF Sound
<1>3. \A k \in 1..N : \A d \in Needs(all, o[k]) : \E i \in 1..(k - 1) : o[i] = d
  BY <1>1 DEF Sound, NoneMissing
<1>4. /\ \A n \in 1..N : r[n] = Scored(all, weight, r[n - 1], o[n])
      /\ \A n \in 0..N : r[n] \in [I -> Nat]
  BY <1>1, ScoreRunSteps
<1>5. \A t \in I : \E k \in 1..N : o[k] = t
  BY <1>1 DEF ToSet
<1>6. Scores(all, weight) = r[N]
  BY DEF Scores
<1> HIDE DEF r, N, o, Of
<1>7. ASSUME NEW n \in 1..N, Fine(n - 1) PROVE Fine(n)
  <2> DEFINE s == r[n - 1]
             q == r[n]
             t == o[n]
  <2>1. n - 1 \in 0..N /\ n \in 0..N /\ n - 1 \in Nat
    BY <1>1
  <2>2. s \in [I -> Nat] /\ q \in [I -> Nat] /\ t \in I
    BY <1>1, <1>4, <2>1
  <2>3. q[t] = Of(s, t) /\ \A u \in I : u # t => q[u] = s[u]
    <3>1. q = Scored(all, weight, s, t)
      BY <1>4
    <3>2. s \in [Ids(all) -> Nat] /\ t \in Ids(all)
      BY <2>2 DEF I
    <3>3. \A z \in [Ids(all) -> Nat], v \in Ids(all) :
            /\ Scored(all, weight, z, v)[v] = ScoreOf(all, weight, z, v)
            /\ \A u \in Ids(all) : u # v => Scored(all, weight, z, v)[u] = z[u]
      BY ScoredIsScore
    <3> HIDE DEF q, s, t
    <3>4. /\ Scored(all, weight, s, t)[t] = ScoreOf(all, weight, s, t)
          /\ \A u \in Ids(all) : u # t => Scored(all, weight, s, t)[u] = s[u]
      BY <3>2, <3>3, Zenon
    <3> QED
      BY <3>1, <3>4 DEF Of, I
  <2>4. ASSUME NEW k \in 1..n PROVE Of(q, o[k]) = Of(s, o[k])
    <3> DEFINE D == Needs(all, o[k])
    <3>1. k \in 1..N
      BY <1>1
    <3>2. \A d \in D : d \in I /\ d # t
      <4> TAKE d \in D
      <4>1. PICK i \in 1..(k - 1) : o[i] = d
        BY <1>3, <3>1
      <4>2. i \in 1..N /\ i # n
        BY <1>1, <3>1
      <4> QED
        BY <1>1, <1>2, <4>1, <4>2
    <3>3. \A d \in D : q[d] = s[d]
      BY <2>3, <3>2
    <3>4. BestParent(D, q) = BestParent(D, s)
      BY <3>3, BestIsLocal
    <3>5. D # {} => BestParent(D, s) \in D
      <4>1. o[k] \in I
        BY <1>1, <3>1
      <4>2. D \in SUBSET Nat /\ IsFiniteSet(D)
        BY <4>1, NeedsFinite DEF I
      <4>3. \A d \in D : s[d] \in Nat
        BY <2>2, <3>2
      <4> HIDE DEF D
      <4> QED
        BY <4>2, <4>3, BestIsBest
    <3>6. D # {} => q[BestParent(D, q)] = s[BestParent(D, s)]
      BY <3>3, <3>4, <3>5
    <3> QED
      BY <3>6, Zenon DEF Of, ScoreOf
  <2>5. ASSUME NEW k \in 1..n PROVE q[o[k]] = Of(q, o[k])
    <3>1. CASE k = n
      BY <2>3, <2>4, <3>1
    <3>2. CASE k # n
      <4>1. k \in 1..(n - 1) /\ k \in 1..N /\ n \in 1..N
        BY <1>1, <3>2
      <4>2. s[o[k]] = Of(s, o[k])
        BY <1>7, <4>1
      <4>3. o[k] # t /\ o[k] \in I
        BY <1>1, <1>2, <3>2, <4>1
      <4> QED
        BY <2>3, <2>4, <4>2, <4>3
    <3> QED
      BY <3>1, <3>2
  <2> QED
    BY <2>5
<1>8. Bad = {}
  <2> SUFFICES ASSUME Bad # {} PROVE FALSE
    OBVIOUS
  <2>1. PICK m \in Bad : \A k \in Bad : m <= k
    <3>1. Bad \in SUBSET Nat
      BY <1>1
    <3> HIDE DEF Bad
    <3> QED
      BY <3>1, LeastNat
  <2>2. m # 0
    BY <2>1
  <2>3. m \in 1..N /\ m - 1 \in 0..N /\ m - 1 < m
    BY <1>1, <2>1, <2>2
  <2>4. Fine(m - 1)
    <3> HIDE DEF Fine
    <3> QED
      BY <2>1, <2>3
  <2> QED
    BY <1>7, <2>1, <2>3, <2>4
<1>9. N \in 0..N /\ Fine(N)
  <2>1. N \in 0..N
    BY <1>1
  <2> HIDE DEF Fine
  <2> QED
    BY <1>8, <2>1
<1>10. \A t \in I : r[N][t] = Of(r[N], t)
  BY <1>5, <1>9
<1> QED
  BY <1>4, <1>6, <1>9, <1>10 DEF SolvesScores, Of

(* The weight of a chain: the recursion has a solution and SumRun is one. *)
LEMMA SumRunSteps ==
  ASSUME NEW all, NEW weight, Weighs(all, weight), NEW c \in Seq(Ids(all))
  PROVE  LET sum == SumRun(c, weight) IN
         /\ sum[0] = 0
         /\ \A n \in 1..Len(c) : sum[n] = sum[n - 1] + Positive(weight[c[n]])
         /\ \A n \in 0..Len(c) : sum[n] \in Nat
<1> DEFINE N == Len(c)
           w(n) == Positive(weight[c[n]])
           F == [i \in 1..N |-> [s \in Nat |-> s + w(i)]]
           To(g) == [n \in 0..N |-> IF n = 0 THEN 0 ELSE g[n - 1] + w(n)]
           r == SumRun(c, weight)
<1>1. N \in Nat /\ \A n \in 1..N : c[n] \in Ids(all)
  BY LenProperties, ElementOfSeq
<1>2. \A n \in 1..N : w(n) \in Nat
  BY <1>1, PositiveIsNat
<1>3. r = CHOOSE g : g = To(g)
  BY DEF SumRun
<1> HIDE DEF r, N, w
<1>4. F \in [1..N -> [Nat -> Nat]]
  BY <1>2
<1>5. PICK g : Turns(g, Nat, 0, N, F)
  <2>1. 0 \in Nat
    OBVIOUS
  <2> HIDE DEF F
  <2> QED
    BY <1>1, <1>4, <2>1, RecursionExists, Zenon
<1>6. \A n \in 1..N : n - 1 \in 0..N /\ n \in 0..N /\ n # 0
  BY <1>1
<1>7. \A n \in 1..N : g[n] = g[n - 1] + w(n)
  BY <1>5, <1>6 DEF Turns
<1>8. g = To(g)
  <2>1. g = [n \in 0..N |-> g[n]]
    BY <1>5 DEF Turns
  <2>2. \A n \in 0..N : g[n] = IF n = 0 THEN 0 ELSE g[n - 1] + w(n)
    <3> TAKE n \in 0..N
    <3>1. n = 0 \/ n \in 1..N
      BY <1>1
    <3> QED
      BY <1>5, <1>7, <3>1 DEF Turns
  <2> QED
    BY <2>1, <2>2, Zenon
<1>9. r = To(r)
  <2> HIDE DEF To
  <2> QED
    BY <1>3, <1>8
<1>10. r[0] = 0 /\ \A n \in 1..N : r[n] = r[n - 1] + w(n)
  <2>1. 0 \in 0..N
    BY <1>1
  <2>2. \A n \in 0..N : r[n] = To(r)[n]
    BY <1>9, Zenon
  <2> QED
    BY <1>6, <2>1, <2>2
<1>11. \A n \in 0..N : r[n] \in Nat
  <2> DEFINE Bad == {n \in 0..N : r[n] \notin Nat}
  <2> SUFFICES ASSUME Bad # {} PROVE FALSE
    OBVIOUS
  <2>1. PICK m \in Bad : \A k \in Bad : m <= k
    <3>1. Bad \in SUBSET Nat
      BY <1>1
    <3> HIDE DEF Bad
    <3> QED
      BY <3>1, LeastNat
  <2>2. m # 0
    BY <1>10, <2>1
  <2>3. m \in 1..N /\ m - 1 \in 0..N /\ m - 1 < m
    BY <1>1, <2>1, <2>2
  <2>4. r[m - 1] \in Nat
    BY <2>1, <2>3
  <2>5. r[m] \in Nat
    BY <1>2, <1>10, <2>3, <2>4
  <2> QED
    BY <2>1, <2>5
<1> QED
  BY <1>10, <1>11 DEF r, N, w

(* One more task weighs what it weighs. *)
LEMMA WeightOfAppend ==
  ASSUME NEW all, NEW weight, Weighs(all, weight),
         NEW c \in Seq(Ids(all)), NEW t \in Ids(all)
  PROVE  /\ WeightOf(c, weight) \in Nat
         /\ WeightOf(Append(c, t), weight) = WeightOf(c, weight) + Positive(weight[t])
<1> DEFINE N == Len(c)
           h == Append(c, t)
           a == SumRun(c, weight)
           b == SumRun(h, weight)
           Bad == {n \in 0..N : b[n] # a[n]}
<1>1. N \in Nat
  BY LenProperties
<1>2. /\ h \in Seq(Ids(all)) /\ Len(h) = N + 1
      /\ \A i \in 1..N : h[i] = c[i]
      /\ h[N + 1] = t
  BY AppendProperties
<1>3. /\ a[0] = 0 /\ \A n \in 0..N : a[n] \in Nat
      /\ \A n \in 1..N : a[n] = a[n - 1] + Positive(weight[c[n]])
  BY SumRunSteps
<1> HIDE DEF h
<1>4. b[0] = 0 /\ \A n \in 1..(N + 1) : b[n] = b[n - 1] + Positive(weight[h[n]])
  BY <1>2, SumRunSteps
<1>5. WeightOf(c, weight) = a[N] /\ WeightOf(h, weight) = b[N + 1]
  BY <1>2 DEF WeightOf
<1> HIDE DEF a, b, N
<1>6. Bad = {}
  <2> SUFFICES ASSUME Bad # {} PROVE FALSE
    OBVIOUS
  <2>1. PICK m \in Bad : \A k \in Bad : m <= k
    <3>1. Bad \in SUBSET Nat
      BY <1>1
    <3> HIDE DEF Bad
    <3> QED
      BY <3>1, LeastNat
  <2>2. m # 0
    BY <1>3, <1>4, <2>1
  <2>3. m \in 1..N /\ m - 1 \in 0..N /\ m - 1 < m /\ m \in 1..(N + 1)
    BY <1>1, <2>1, <2>2
  <2>4. b[m - 1] = a[m - 1]
    BY <2>1, <2>3
  <2>5. b[m] = a[m]
    BY <1>2, <1>3, <1>4, <2>3, <2>4
  <2> QED
    BY <2>1, <2>5
<1>7. N \in 0..N /\ N + 1 \in 1..(N + 1) /\ N + 1 - 1 = N
  BY <1>1
<1>8. b[N] = a[N] /\ a[N] \in Nat
  BY <1>3, <1>6, <1>7
<1>9. b[N + 1] = b[N] + Positive(weight[t])
  BY <1>2, <1>4, <1>7
<1> QED
  BY <1>5, <1>8, <1>9 DEF h

(* The chains: the recursion has a solution and ChainRun is one. *)
LEMMA LongerIsChains ==
  ASSUME NEW all, NEW S \in SUBSET Seq(Ids(all))
  PROVE  Longer(all, S) \in SUBSET Seq(Ids(all))
BY AppendProperties DEF Longer

LEMMA ChainRunSteps ==
  ASSUME NEW all, IsGraph(all)
  PROVE  LET r == ChainRun(all) IN
         /\ r[0] = {<<t>> : t \in Ids(all)}
         /\ \A n \in 1..Len(all) : r[n] = Longer(all, r[n - 1])
         /\ \A n \in 0..Len(all) : r[n] \in SUBSET Seq(Ids(all))
<1> DEFINE N == Len(all)
           S == SUBSET Seq(Ids(all))
           x == {<<t>> : t \in Ids(all)}
           F == [i \in 1..N |-> [s \in S |-> Longer(all, s)]]
           To(g) == [n \in 0..N |-> IF n = 0 THEN x ELSE Longer(all, g[n - 1])]
           r == ChainRun(all)
<1>1. N \in Nat
  BY DEF IsGraph
<1>2. x \in S
  <2>1. \A t \in Ids(all) : <<t>> \in Seq(Ids(all))
    OBVIOUS
  <2> QED
    BY <2>1
<1>3. \A s \in S : Longer(all, s) \in S
  BY LongerIsChains
<1>4. r = CHOOSE g : g = To(g)
  BY DEF ChainRun
<1> HIDE DEF r, N, x, S
<1>5. F \in [1..N -> [S -> S]]
  BY <1>3
<1>6. PICK g : Turns(g, S, x, N, F)
  <2> HIDE DEF F
  <2> QED
    BY <1>1, <1>2, <1>5, RecursionExists, Zenon
<1>7. \A n \in 1..N : n - 1 \in 0..N /\ n \in 0..N /\ n # 0
  BY <1>1
<1>8. \A n \in 1..N : g[n] = Longer(all, g[n - 1])
  BY <1>6, <1>7 DEF Turns
<1>9. g = To(g)
  <2>1. g = [n \in 0..N |-> g[n]]
    BY <1>6 DEF Turns
  <2>2. \A n \in 0..N : g[n] = IF n = 0 THEN x ELSE Longer(all, g[n - 1])
    <3> TAKE n \in 0..N
    <3>1. n = 0 \/ n \in 1..N
      BY <1>1
    <3> QED
      BY <1>6, <1>8, <3>1 DEF Turns
  <2> QED
    BY <2>1, <2>2, Zenon
<1>10. r = To(r)
  <2> HIDE DEF To
  <2> QED
    BY <1>4, <1>9
<1>11. r[0] = x /\ \A n \in 1..N : r[n] = Longer(all, r[n - 1])
  <2>1. 0 \in 0..N
    BY <1>1
  <2>2. \A n \in 0..N : r[n] = To(r)[n]
    BY <1>10, Zenon
  <2> QED
    BY <1>7, <2>1, <2>2
<1>12. \A n \in 0..N : r[n] \in S
  <2> DEFINE Bad == {n \in 0..N : r[n] \notin S}
  <2> SUFFICES ASSUME Bad # {} PROVE FALSE
    OBVIOUS
  <2>1. PICK m \in Bad : \A k \in Bad : m <= k
    <3>1. Bad \in SUBSET Nat
      BY <1>1
    <3> HIDE DEF Bad
    <3> QED
      BY <3>1, LeastNat
  <2>2. m # 0
    BY <1>2, <1>11, <2>1
  <2>3. m \in 1..N /\ m - 1 \in 0..N /\ m - 1 < m
    BY <1>1, <2>1, <2>2
  <2>4. r[m - 1] \in S
    BY <2>1, <2>3
  <2>5. r[m] \in S
    BY <1>3, <1>11, <2>3, <2>4
  <2> QED
    BY <2>1, <2>5
<1> QED
  BY <1>11, <1>12 DEF r, N, x, S

(* No chain weighs more than the score of its last task. *)
LEMMA ChainsWeighLess ==
  ASSUME NEW all, IsGraph(all), NoneMissing(all), NEW weight, Weighs(all, weight),
         NEW score, SolvesScores(all, weight, score), NEW n \in 0..Len(all)
  PROVE  \A c \in ChainRun(all)[n] :
           /\ c \in Seq(Ids(all)) /\ Len(c) \in Nat \ {0} /\ c[Len(c)] \in Ids(all)
           /\ WeightOf(c, weight) \in Nat /\ WeightOf(c, weight) <= score[c[Len(c)]]
<1> DEFINE N == Len(all)
           I == Ids(all)
           r == ChainRun(all)
           Fine(c) == /\ c \in Seq(I) /\ Len(c) \in Nat \ {0} /\ c[Len(c)] \in I
                      /\ WeightOf(c, weight) \in Nat
                      /\ WeightOf(c, weight) <= score[c[Len(c)]]
           Bad == {m \in 0..N : ~ \A c \in r[m] : Fine(c)}
<1>1. N \in Nat
  BY DEF IsGraph
<1>2. r[0] = {<<t>> : t \in I} /\ \A m \in 1..N : r[m] = Longer(all, r[m - 1])
  BY ChainRunSteps
<1>3. ASSUME NEW t \in I
      PROVE  /\ score[t] \in Nat /\ Positive(weight[t]) \in Nat
             /\ Positive(weight[t]) <= score[t]
             /\ \A u \in Needs(all, t) : u \in I /\ score[u] + Positive(weight[t]) <= score[t]
  <2> DEFINE D == Needs(all, t)
             b == BestParent(D, score)
             w == Positive(weight[t])
  <2>1. w \in Nat /\ score[t] \in Nat
    BY PositiveIsNat DEF SolvesScores
  <2>2. D \in SUBSET I /\ D \in SUBSET Nat /\ IsFiniteSet(D)
    BY NeedsFinite DEF NoneMissing
  <2>3. \A d \in D : score[d] \in Nat
    BY <2>2 DEF SolvesScores
  <2>4. score[t] = w + IF D = {} THEN 0 ELSE score[b]
    BY DEF SolvesScores, ScoreOf
  <2>5. CASE D = {}
    BY <2>1, <2>4, <2>5
  <2>6. CASE D # {}
    <3>1. b \in D /\ \A u \in D : score[u] <= score[b]
      <4> HIDE DEF D
      <4> QED
        BY <2>2, <2>3, <2>6, BestIsBest
    <3> DEFINE top == score[b]
    <3>2. top \in Nat /\ score[t] = w + top
      BY <2>3, <2>4, <2>6, <3>1
    <3> HIDE DEF w, b
    <3> QED
      BY <2>1, <2>2, <2>3, <3>1, <3>2 DEF w
  <2> QED
    BY <2>5, <2>6
<1>4. ASSUME NEW t \in I PROVE Fine(<<t>>)
  <2>1. <<>> \in Seq(I) /\ Len(<<>>) = 0
    BY EmptySeq
  <2>2. <<t>> = Append(<<>>, t)
    OBVIOUS
  <2>3. WeightOf(<<>>, weight) = 0
    BY <2>1, SumRunSteps DEF WeightOf
  <2>4. WeightOf(<<t>>, weight) = 0 + Positive(weight[t])
    BY <2>1, <2>2, <2>3, WeightOfAppend
  <2>5. <<t>> \in Seq(I) /\ Len(<<t>>) = 1 /\ <<t>>[1] = t
    OBVIOUS
  <2> QED
    BY <1>3, <2>4, <2>5
<1>5. ASSUME NEW c \in Seq(I), Fine(c), NEW t \in I, c[Len(c)] \in Needs(all, t)
      PROVE  Fine(Append(c, t))
  <2> DEFINE h == Append(c, t)
             a == WeightOf(c, weight)
             w == Positive(weight[t])
             u == c[Len(c)]
  <2>1. a \in Nat /\ WeightOf(h, weight) = a + w
    BY WeightOfAppend
  <2>2. h \in Seq(I) /\ Len(h) = Len(c) + 1 /\ h[Len(c) + 1] = t
    BY AppendProperties
  <2>3. w \in Nat /\ score[t] \in Nat /\ u \in I /\ score[u] + w <= score[t] /\ score[u] \in Nat
    BY <1>3, <1>5
  <2>4. a <= score[u]
    BY <1>5
  <2> HIDE DEF h, a, w, u
  <2>5. a + w \in Nat /\ a + w <= score[t]
    BY <2>1, <2>3, <2>4
  <2>6. Len(h) \in Nat \ {0} /\ h[Len(h)] = t
    BY <1>5, <2>2
  <2> QED
    BY <2>1, <2>2, <2>5, <2>6 DEF h
<1> HIDE DEF r, N
<1>6. Bad = {}
  <2> SUFFICES ASSUME Bad # {} PROVE FALSE
    OBVIOUS
  <2> HIDE DEF Fine
  <2>1. PICK m \in Bad : \A k \in Bad : m <= k
    <3>1. Bad \in SUBSET Nat
      BY <1>1
    <3> HIDE DEF Bad
    <3> QED
      BY <3>1, LeastNat
  <2>2. m # 0
    BY <1>2, <1>4, <2>1
  <2>3. m \in 1..N /\ m - 1 \in 0..N /\ m - 1 < m
    BY <1>1, <2>1, <2>2
  <2>4. \A c \in r[m - 1] : Fine(c)
    BY <2>1, <2>3
  <2>5. r[m] = Longer(all, r[m - 1])
    BY <1>2, <2>3
  <2>6. ASSUME NEW c \in r[m] PROVE Fine(c)
    <3>1. CASE c \in r[m - 1]
      BY <2>4, <3>1
    <3>2. CASE c \notin r[m - 1]
      <4>1. PICK p \in r[m - 1], t \in I : p[Len(p)] \in Needs(all, t) /\ c = Append(p, t)
        BY <2>5, <3>2 DEF Longer
      <4>2. Fine(p) /\ p \in Seq(I)
        BY <2>4 DEF Fine
      <4> QED
        BY <1>5, <4>1, <4>2
    <3> QED
      BY <3>1, <3>2
  <2> QED
    BY <2>1, <2>6
<1> QED
  BY <1>6 DEF r, N

(* The way back over the best dependencies. *)
LEMMA ExtendedIsPath ==
  ASSUME NEW all, IsGraph(all), NoneMissing(all),
         NEW score \in [Ids(all) -> Nat],
         NEW p \in Seq(Ids(all)), Len(p) \in Nat \ {0}
  PROVE  LET q == Extended(all, score, p)
             D == Needs(all, p[1]) IN
         /\ p[1] \in Ids(all)
         /\ D = {} => q = p
         /\ D # {} =>
              /\ q \in Seq(Ids(all)) /\ Len(q) = Len(p) + 1
              /\ q[1] = BestParent(D, score) /\ q[1] \in D
              /\ \A i \in 2..Len(q) : q[i] = p[i - 1]
<1> DEFINE I == Ids(all)
           t == p[1]
           D == Needs(all, t)
           b == BestParent(D, score)
           q == <<b>> \o p
<1>1. t \in I /\ Head(p) = t
  BY ElementOfSeq
<1>2. Extended(all, score, p) = IF D = {} THEN p ELSE q
  BY <1>1 DEF Extended
<1>3. CASE D = {}
  BY <1>1, <1>2, <1>3
<1>4. CASE D # {}
  <2>1. D \in SUBSET I
    BY <1>1 DEF NoneMissing
  <2>2. D \in SUBSET Nat /\ IsFiniteSet(D)
    BY <1>1, NeedsFinite
  <2>3. \A d \in D : score[d] \in Nat
    BY <2>1
  <2>4. b \in D
    <3> HIDE DEF D
    <3> QED
      BY <1>4, <2>2, <2>3, BestIsBest
  <2>5. b \in I
    BY <2>1, <2>4
  <2> HIDE DEF b
  <2>6. <<b>> \in Seq(I) /\ Len(<<b>>) = 1 /\ <<b>>[1] = b
    BY <2>5
  <2>7. /\ q \in Seq(I) /\ Len(q) = 1 + Len(p)
        /\ \A i \in 1..(1 + Len(p)) : q[i] = IF i <= 1 THEN <<b>>[i] ELSE p[i - 1]
    <3> DEFINE a == <<b>>
    <3> HIDE DEF a
    <3>1. a \in Seq(I) /\ Len(a) = 1
      BY <2>6 DEF a
    <3> HIDE DEF I
    <3>2. a \o p \in Seq(I) /\ Len(a \o p) = Len(a) + Len(p)
          /\ \A i \in 1..(Len(a) + Len(p)) :
               (a \o p)[i] = IF i <= Len(a) THEN a[i] ELSE p[i - Len(a)]
      <4>1. p \in Seq(I)
        BY DEF I
      <4> QED
        BY <3>1, <4>1, ConcatProperties, Zenon
    <3> QED
      BY <3>1, <3>2 DEF a
  <2> HIDE DEF q
  <2>8. 1 \in 1..(1 + Len(p)) /\ 1 + Len(p) = Len(p) + 1
    OBVIOUS
  <2>9. q[1] = b
    BY <2>6, <2>7, <2>8
  <2>10. \A i \in 2..Len(q) : q[i] = p[i - 1]
    <3>1. \A i \in 2..Len(q) : i \in 1..(1 + Len(p)) /\ ~ i <= 1
      BY <2>7
    <3> QED
      BY <2>7, <3>1
  <2> HIDE DEF D
  <2> QED
    BY <1>1, <1>2, <1>4, <2>4, <2>7, <2>8, <2>9, <2>10 DEF b, D
<1> QED
  BY <1>3, <1>4

LEMMA PathRunSteps ==
  ASSUME NEW all, IsGraph(all), NoneMissing(all),
         NEW score \in [Ids(all) -> Nat], NEW end \in Ids(all)
  PROVE  LET r == PathRun(all, score, end) IN
         /\ r[0] = <<end>>
         /\ \A n \in 1..Len(all) : r[n] = Extended(all, score, r[n - 1])
<1> DEFINE N == Len(all)
           S == {p \in Seq(Ids(all)) : Len(p) \in Nat \ {0}}
           x == <<end>>
           Step(p) == Extended(all, score, p)
           F == [i \in 1..N |-> [p \in S |-> Step(p)]]
           To(g) == [n \in 0..N |-> IF n = 0 THEN x ELSE Step(g[n - 1])]
           r == PathRun(all, score, end)
<1>1. N \in Nat
  BY DEF IsGraph
<1>2. x \in S
  OBVIOUS
<1>3. ASSUME NEW p \in S PROVE Step(p) \in S
  <2> DEFINE D == Needs(all, p[1])
  <2>1. CASE D = {}
    BY <2>1, ExtendedIsPath
  <2>2. CASE D # {}
    <3>1. Step(p) \in Seq(Ids(all)) /\ Len(Step(p)) = Len(p) + 1
      BY <2>2, ExtendedIsPath
    <3> QED
      BY <3>1
  <2> QED
    BY <2>1, <2>2
<1>4. r = CHOOSE g : g = To(g)
  BY DEF PathRun
<1> HIDE DEF r, N, x, S, Step
<1>5. F \in [1..N -> [S -> S]]
  BY <1>3
<1>6. PICK g : Turns(g, S, x, N, F)
  <2> HIDE DEF F
  <2> QED
    BY <1>1, <1>2, <1>5, RecursionExists, Zenon
<1>7. \A n \in 1..N : n - 1 \in 0..N /\ n \in 0..N /\ n # 0
  BY <1>1
<1>8. \A n \in 1..N : g[n] = Step(g[n - 1])
  BY <1>6, <1>7 DEF Turns
<1>9. g = To(g)
  <2>1. g = [n \in 0..N |-> g[n]]
    BY <1>6 DEF Turns
  <2>2. \A n \in 0..N : g[n] = IF n = 0 THEN x ELSE Step(g[n - 1])
    <3> TAKE n \in 0..N
    <3>1. n = 0 \/ n \in 1..N
      BY <1>1
    <3> QED
      BY <1>6, <1>8, <3>1 DEF Turns
  <2> QED
    BY <2>1, <2>2, Zenon
<1>10. r = To(r)
  <2> HIDE DEF To
  <2> QED
    BY <1>4, <1>9
<1>11. 0 \in 0..N
  BY <1>1
<1>12. \A n \in 0..N : r[n] = To(r)[n]
  BY <1>10, Zenon
<1>13. r[0] = x /\ \A n \in 1..N : r[n] = Step(r[n - 1])
  BY <1>7, <1>11, <1>12
<1> QED
  BY <1>13 DEF r, N, x, Step

(* A way down over best dependencies that starts where there is none. *)
BestPath(all, score, p) ==
  /\ p \in Seq(Ids(all)) /\ Len(p) \in 1..Len(all)
  /\ Needs(all, p[1]) = {}
  /\ \A i \in 2..Len(p) :
       /\ Needs(all, p[i]) # {}
       /\ p[i - 1] = BestParent(Needs(all, p[i]), score)
       /\ p[i - 1] \in Needs(all, p[i])

(* As each task ranks higher than those it needs, the way back ends. *)
LEMMA PathEnds ==
  ASSUME NEW all, IsGraph(all), NoneMissing(all),
         NEW score \in [Ids(all) -> Nat], NEW end \in Ids(all),
         NEW rank, Ranks(all, rank), \A t \in Ids(all) : rank[t] \in 1..Len(all)
  PROVE  LET p == PathRun(all, score, end)[Len(all)] IN
         BestPath(all, score, p) /\ p[Len(p)] = end
<1> DEFINE N == Len(all)
           I == Ids(all)
           r == PathRun(all, score, end)
           Linked(p) == \A i \in 2..Len(p) :
                          /\ Needs(all, p[i]) # {}
                          /\ p[i - 1] = BestParent(Needs(all, p[i]), score)
                          /\ p[i - 1] \in Needs(all, p[i])
           Fine(p, n) == /\ p \in Seq(I) /\ Len(p) \in Nat \ {0}
                         /\ p[Len(p)] = end
                         /\ Linked(p)
                         /\ rank[p[1]] + Len(p) <= N + 1
                         /\ Needs(all, p[1]) = {} \/ Len(p) = n + 1
           Bad == {m \in 0..N : ~ Fine(r[m], m)}
<1>1. N \in Nat
  BY DEF IsGraph
<1>2. r[0] = <<end>> /\ \A n \in 1..N : r[n] = Extended(all, score, r[n - 1])
  BY PathRunSteps
<1>3. \A t \in I : rank[t] \in Nat /\ rank[t] >= 1 /\ rank[t] <= N
  BY <1>1
<1>4. Fine(<<end>>, 0)
  <2>1. <<end>> \in Seq(I) /\ Len(<<end>>) = 1 /\ <<end>>[1] = end
    OBVIOUS
  <2> DEFINE p == <<end>>
  <2>2. Linked(p)
    BY <2>1
  <2>3. rank[end] + 1 <= N + 1
    BY <1>1, <1>3
  <2> HIDE DEF p, Linked
  <2>4. p \in Seq(I) /\ Len(p) = 1 /\ p[1] = end
    BY <2>1 DEF p
  <2> QED
    BY <2>2, <2>3, <2>4 DEF p
<1>5. ASSUME NEW p, NEW n \in Nat, Fine(p, n) PROVE Fine(Extended(all, score, p), n + 1)
  <2> DEFINE D == Needs(all, p[1])
             q == Extended(all, score, p)
  <2>1. CASE D = {}
    <3>1. q = p
      BY <1>5, <2>1, ExtendedIsPath
    <3> HIDE DEF q
    <3> QED
      BY <1>5, <2>1, <3>1 DEF q
  <2>2. CASE D # {}
    <3>1. /\ q \in Seq(I) /\ Len(q) = Len(p) + 1 /\ p[1] \in I
          /\ q[1] = BestParent(D, score) /\ q[1] \in D
          /\ \A i \in 2..Len(q) : q[i] = p[i - 1]
      <4>1. p \in Seq(Ids(all)) /\ Len(p) \in Nat \ {0}
        BY <1>5
      <4> HIDE DEF Fine
      <4> QED
        BY <2>2, <4>1, ExtendedIsPath, Zenon
    <3>7. \A i \in 2..Len(q) : q[i] = p[i - 1]
      BY <3>1, Zenon
    <3> HIDE DEF q
    <3>2. Len(p) \in Nat \ {0} /\ Len(q) \in 2..Len(q)
      BY <1>5, <3>1
    <3>3. q[Len(q)] = end
      <4>1. q[Len(q)] = p[Len(q) - 1] /\ Len(q) - 1 = Len(p)
        BY <3>1, <3>2
      <4> QED
        BY <1>5, <4>1
    <3>4. Linked(q)
      <4> SUFFICES ASSUME NEW i \in 2..Len(q)
                   PROVE  /\ Needs(all, q[i]) # {}
                          /\ q[i - 1] = BestParent(Needs(all, q[i]), score)
                          /\ q[i - 1] \in Needs(all, q[i])
        OBVIOUS
      <4>1. q[i] = p[i - 1]
        BY <3>1
      <4>2. CASE i = 2
        <5>1. q[i] = p[1] /\ q[i - 1] = q[1]
          BY <4>1, <4>2
        <5> QED
          BY <2>2, <3>1, <5>1
      <4>3. CASE i # 2
        <5>1. i - 1 \in 2..Len(p) /\ i - 1 \in 2..Len(q)
          BY <3>1, <3>2, <4>3
        <5>2. q[i - 1] = p[i - 2]
          <6>1. q[i - 1] = p[i - 1 - 1] /\ i - 1 - 1 = i - 2
            BY <3>7, <5>1
          <6> QED
            BY <6>1
        <5>3. /\ Needs(all, p[i - 1]) # {}
              /\ p[i - 1 - 1] = BestParent(Needs(all, p[i - 1]), score)
              /\ p[i - 1 - 1] \in Needs(all, p[i - 1])
          BY <1>5, <5>1
        <5>4. i - 1 - 1 = i - 2
          OBVIOUS
        <5> QED
          BY <4>1, <5>2, <5>3, <5>4
      <4> QED
        BY <4>2, <4>3
    <3>5. rank[q[1]] + Len(q) <= N + 1
      <4>1. q[1] \in I /\ rank[q[1]] < rank[p[1]]
        BY <3>1 DEF NoneMissing, Ranks
      <4>2. rank[q[1]] \in Nat /\ rank[p[1]] \in Nat
        BY <1>3, <3>1, <4>1
      <4>3. rank[p[1]] + Len(p) <= N + 1
        BY <1>5
      <4>4. \A a, b, l \in Nat : a < b /\ b + l <= N + 1 => a + (l + 1) <= N + 1
        BY <1>1
      <4>5. Len(q) = Len(p) + 1
        BY <3>1
      <4> QED
        BY <3>2, <4>1, <4>2, <4>3, <4>4, <4>5
    <3>6. Len(q) = n + 1 + 1 /\ Len(q) \in Nat \ {0}
      <4>1. Len(p) = n + 1
        BY <1>5, <2>2
      <4> QED
        BY <3>1, <4>1
    <3> HIDE DEF Linked
    <3> QED
      BY <3>1, <3>3, <3>4, <3>5, <3>6 DEF q
  <2> QED
    BY <2>1, <2>2
<1> HIDE DEF r, N
<1>6. Bad = {}
  <2> SUFFICES ASSUME Bad # {} PROVE FALSE
    OBVIOUS
  <2> HIDE DEF Fine
  <2>1. PICK m \in Bad : \A k \in Bad : m <= k
    <3>1. Bad \in SUBSET Nat
      BY <1>1
    <3> HIDE DEF Bad
    <3> QED
      BY <3>1, LeastNat
  <2>2. m # 0
    BY <1>2, <1>4, <2>1
  <2>3. m \in 1..N /\ m - 1 \in 0..N /\ m - 1 < m /\ m - 1 + 1 = m /\ m - 1 \in Nat
    BY <1>1, <2>1, <2>2
  <2>4. Fine(r[m - 1], m - 1)
    BY <2>1, <2>3
  <2>5. Fine(Extended(all, score, r[m - 1]), m - 1 + 1)
    BY <1>5, <2>3, <2>4
  <2>6. Fine(r[m], m)
    BY <1>2, <2>3, <2>5
  <2> QED
    BY <2>1, <2>6
<1> DEFINE p == r[N]
<1>7. Fine(p, N)
  <2>1. N \in 0..N
    BY <1>1
  <2> HIDE DEF Fine
  <2> QED
    BY <1>6, <2>1
<1> HIDE DEF p
<1>8. Len(p) \in Nat \ {0} /\ p \in Seq(I) /\ rank[p[1]] + Len(p) <= N + 1
  BY <1>7
<1>9. p[1] \in I
  BY <1>8, ElementOfSeq
<1>10. Len(p) \in 1..N
  BY <1>1, <1>3, <1>8, <1>9
<1>11. Needs(all, p[1]) = {}
  <2>1. Len(p) # N + 1
    BY <1>1, <1>10
  <2> HIDE DEF Linked
  <2> QED
    BY <1>7, <2>1
<1>12. Linked(p) /\ p[Len(p)] = end
  <2> HIDE DEF Linked
  <2> QED
    BY <1>7
<1> QED
  BY <1>8, <1>10, <1>11, <1>12 DEF BestPath, p, r, N

(* Such a path weighs what its last task scores. *)
LEMMA BestPathWeighs ==
  ASSUME NEW all, IsGraph(all), NoneMissing(all), NEW weight, Weighs(all, weight),
         NEW score, SolvesScores(all, weight, score), NEW p, BestPath(all, score, p)
  PROVE  WeightOf(p, weight) = score[p[Len(p)]]
<1> DEFINE L == Len(p)
           a == SumRun(p, weight)
           Bad == {n \in 1..L : a[n] # score[p[n]]}
<1>1. L \in Nat \ {0} /\ p \in Seq(Ids(all)) /\ \A n \in 1..L : p[n] \in Ids(all)
  BY LenProperties, ElementOfSeq DEF BestPath
<1>2. a[0] = 0 /\ \A n \in 1..L : a[n] = a[n - 1] + Positive(weight[p[n]])
  BY <1>1, SumRunSteps
<1>3. \A n \in 1..L : Positive(weight[p[n]]) \in Nat
  BY <1>1, PositiveIsNat
<1>4. \A n \in 1..L : score[p[n]] = Positive(weight[p[n]])
        + IF Needs(all, p[n]) = {} THEN 0 ELSE score[BestParent(Needs(all, p[n]), score)]
  BY <1>1 DEF SolvesScores, ScoreOf
<1>5. /\ Needs(all, p[1]) = {}
      /\ \A i \in 2..L : /\ Needs(all, p[i]) # {}
                         /\ p[i - 1] = BestParent(Needs(all, p[i]), score)
  BY DEF BestPath
<1>6. \A n \in 1..L : score[p[n]] \in Nat
  BY <1>1 DEF SolvesScores
<1> HIDE DEF a, L
<1>7. Bad = {}
  <2> SUFFICES ASSUME Bad # {} PROVE FALSE
    OBVIOUS
  <2>1. PICK m \in Bad : \A k \in Bad : m <= k
    <3>1. Bad \in SUBSET Nat
      BY <1>1
    <3> HIDE DEF Bad
    <3> QED
      BY <3>1, LeastNat
  <2> DEFINE w == Positive(weight[p[m]])
  <2>2. w \in Nat /\ a[m] = a[m - 1] + w
    BY <1>2, <1>3, <2>1
  <2>3. CASE m = 1
    <3>1. score[p[m]] = w + 0
      BY <1>4, <1>5, <2>1, <2>3
    <3>2. a[m] = 0 + w
      BY <1>2, <2>2, <2>3
    <3> HIDE DEF w
    <3> QED
      BY <2>1, <2>2, <3>1, <3>2
  <2>4. CASE m # 1
    <3>1. m \in 2..L /\ m - 1 \in 1..L /\ m - 1 < m
      BY <1>1, <2>1, <2>4
    <3>2. a[m - 1] = score[p[m - 1]]
      BY <2>1, <3>1
    <3>3. score[p[m]] = w + score[p[m - 1]]
      BY <1>4, <1>5, <2>1, <3>1
    <3>4. score[p[m - 1]] \in Nat
      BY <1>6, <3>1
    <3> HIDE DEF w
    <3> QED
      BY <2>1, <2>2, <3>2, <3>3, <3>4
  <2> QED
    BY <2>3, <2>4
<1>8. L \in 1..L
  BY <1>1
<1> QED
  BY <1>7, <1>8 DEF WeightOf, a, L

(* And it is one of the chains. *)
LEMMA BestPathIsChain ==
  ASSUME NEW all, IsGraph(all), NEW score, NEW p, BestPath(all, score, p)
  PROVE  p \in Chains(all)
<1> DEFINE N == Len(all)
           I == Ids(all)
           r == ChainRun(all)
           L == Len(p)
           Upto(k) == SubSeq(p, 1, k)
           Fine(n) == \A k \in 1..L : k <= n + 1 => Upto(k) \in r[n]
           Bad == {n \in 0..N : ~ Fine(n)}
<1>1. N \in Nat
  BY DEF IsGraph
<1>2. r[0] = {<<t>> : t \in I} /\ \A n \in 1..N : r[n] = Longer(all, r[n - 1])
  BY ChainRunSteps
<1>3. L \in Nat \ {0} /\ p \in Seq(I) /\ L <= N /\ \A n \in 1..L : p[n] \in I
  BY <1>1, LenProperties, ElementOfSeq DEF BestPath
<1>4. \A i \in 2..L : p[i - 1] \in Needs(all, p[i])
  BY DEF BestPath
<1>5. ASSUME NEW k \in 1..L
      PROVE  Upto(k) \in Seq(I) /\ Len(Upto(k)) = k /\ \A i \in 1..k : Upto(k)[i] = p[i]
  <2>1. \A i \in 1..k : p[i] \in I
    BY <1>3
  <2>2. 1 \in Int /\ k \in Int /\ k - 1 + 1 = k /\ 1 <= k
    BY <1>3
  <2>3. /\ Upto(k) \in Seq(I)
        /\ Len(Upto(k)) = k - 1 + 1
        /\ \A i \in 1..(k - 1 + 1) : Upto(k)[i] = p[1 + i - 1]
    <3> HIDE DEF I
    <3> QED
      BY <2>1, <2>2, SubSeqProperties
  <2>4. \A i \in 1..k : 1 + i - 1 = i
    OBVIOUS
  <2> HIDE DEF Upto
  <2> QED
    BY <2>2, <2>3, <2>4
<1> HIDE DEF r, N, L, Upto
<1>6. Fine(0)
  <2>1. 1 \in 1..L
    BY <1>3
  <2>2. Upto(1) = <<p[1]>>
    <3>1. /\ <<p[1]>> \in Seq(I) /\ Len(<<p[1]>>) = 1 /\ <<p[1]>>[1] = p[1]
      BY <1>3, <2>1
    <3>2. Upto(1) \in Seq(I) /\ Len(Upto(1)) = 1 /\ Upto(1)[1] = p[1]
      <4>1. /\ Upto(1) \in Seq(I) /\ Len(Upto(1)) = 1
            /\ \A i \in 1..1 : Upto(1)[i] = p[i]
        BY <1>5, <2>1, Zenon
      <4>2. 1 \in 1..1
        OBVIOUS
      <4> QED
        BY <4>1, <4>2
    <3>3. \A i \in 1..1 : Upto(1)[i] = <<p[1]>>[i]
      BY <3>1, <3>2
    <3> DEFINE u == <<p[1]>>
    <3> HIDE DEF I, u
    <3> QED
      BY <3>1, <3>2, <3>3, SeqEqual DEF u
  <2>3. Upto(1) \in r[0]
    BY <1>2, <1>3, <2>1, <2>2
  <2>4. \A k \in 1..L : k <= 0 + 1 => k = 1
    BY <1>3
  <2> QED
    BY <2>3, <2>4
<1>7. ASSUME NEW n \in 1..N, Fine(n - 1) PROVE Fine(n)
  <2> SUFFICES ASSUME NEW k \in 1..L, k <= n + 1 PROVE Upto(k) \in r[n]
    OBVIOUS
  <2>1. r[n] = Longer(all, r[n - 1])
    BY <1>2
  <2>2. CASE k <= n
    <3>1. k <= n - 1 + 1
      BY <1>1, <2>2
    <3>2. Upto(k) \in r[n - 1]
      BY <1>7, <3>1
    <3> QED
      BY <2>1, <3>2 DEF Longer
  <2>3. CASE ~ k <= n
    <3>1. k \in 2..L /\ k - 1 \in 1..L /\ k - 1 <= n - 1 + 1
      BY <1>1, <1>3, <2>3
    <3> DEFINE c == Upto(k - 1)
               t == p[k]
    <3>2. c \in r[n - 1]
      BY <1>7, <3>1
    <3>3. c \in Seq(I) /\ Len(c) = k - 1 /\ \A i \in 1..(k - 1) : c[i] = p[i]
      BY <1>5, <3>1
    <3>4. c[Len(c)] = p[k - 1] /\ t \in I
      <4>1. k - 1 \in 1..(k - 1)
        BY <3>1
      <4> QED
        BY <1>3, <3>3, <4>1
    <3>5. c[Len(c)] \in Needs(all, t)
      BY <1>4, <3>1, <3>4
    <3>6. Upto(k) = Append(c, t)
      <4> DEFINE h == Append(c, t)
                 u == Upto(k)
      <4>1. /\ h \in Seq(I) /\ Len(h) = k - 1 + 1
            /\ \A i \in 1..(k - 1) : h[i] = c[i]
            /\ h[k - 1 + 1] = t
        <5> HIDE DEF c, t, I
        <5>1. /\ h \in Seq(I) /\ Len(h) = Len(c) + 1
              /\ \A i \in 1..Len(c) : h[i] = c[i]
              /\ h[Len(c) + 1] = t
          BY <3>3, <3>4, AppendProperties
        <5> HIDE DEF h
        <5> QED
          BY <3>3, <5>1
      <4>2. u \in Seq(I) /\ Len(u) = k /\ \A i \in 1..k : u[i] = p[i]
        BY <1>5
      <4> HIDE DEF h, u
      <4>3. \A i \in 1..k : h[i] = u[i]
        <5> TAKE i \in 1..k
        <5>1. i \in 1..(k - 1) \/ i = k
          OBVIOUS
        <5>2. k - 1 + 1 = k
          OBVIOUS
        <5> QED
          BY <3>3, <4>1, <4>2, <5>1, <5>2
      <4>4. Len(h) = Len(u) /\ Len(u) = k
        BY <4>1, <4>2
      <4>5. h = u
        <5> HIDE DEF I
        <5> QED
          BY <4>1, <4>2, <4>3, <4>4, SeqEqual
      <4> QED
        BY <4>5 DEF h, u
    <3> QED
      BY <2>1, <3>2, <3>4, <3>5, <3>6 DEF Longer
  <2> QED
    BY <2>2, <2>3
<1>8. Bad = {}
  <2> SUFFICES ASSUME Bad # {} PROVE FALSE
    OBVIOUS
  <2> HIDE DEF Fine
  <2>1. PICK m \in Bad : \A k \in Bad : m <= k
    <3>1. Bad \in SUBSET Nat
      BY <1>1
    <3> HIDE DEF Bad
    <3> QED
      BY <3>1, LeastNat
  <2>2. m # 0
    BY <1>6, <2>1
  <2>3. m \in 1..N /\ m - 1 \in 0..N /\ m - 1 < m
    BY <1>1, <2>1, <2>2
  <2>4. Fine(m - 1)
    BY <2>1, <2>3
  <2> QED
    BY <1>7, <2>1, <2>3, <2>4
<1>9. Upto(L) \in r[N]
  <2>1. N \in 0..N /\ L \in 1..L /\ L <= N + 1
    BY <1>1, <1>3
  <2>2. Fine(N)
    <3> HIDE DEF Fine
    <3> QED
      BY <1>8, <2>1
  <2> QED
    BY <2>1, <2>2
<1>10. Upto(L) = p
  <2> DEFINE u == Upto(L)
  <2>1. L \in 1..L
    BY <1>3
  <2>2. u \in Seq(I) /\ Len(u) = L /\ \A i \in 1..L : u[i] = p[i]
    BY <1>5, <2>1
  <2>3. Len(p) = L
    BY DEF L
  <2> HIDE DEF u, I
  <2>4. u = p
    BY <1>3, <2>2, <2>3, SeqEqual
  <2> QED
    BY <2>4 DEF u
<1> QED
  BY <1>9, <1>10 DEF Chains, r, N

(* The built workflows are weighed by every weighting of the task names. *)
LEMMA BuiltWeighs ==
  ASSUME NEW all, IsBuilt(all), NEW weight \in Weightings
  PROVE  Weighs(all, weight)
<1>1. Len(all) <= Len(TaskNames) /\ Len(all) \in Nat /\ Len(TaskNames) \in Nat
      /\ DOMAIN all = 1..Len(all)
  BY BuiltIsGraph, NamesDistinct DEF IsBuilt
<1>2. \A k \in 1..Len(TaskNames) : TaskNames[k] \in ToSet(TaskNames)
  BY NamesAssumption, LenProperties DEF ToSet
<1>3. \A i \in 1..Len(all) : i \in 1..Len(TaskNames) /\ all[i].id = TaskNames[i]
  BY <1>1 DEF IsBuilt
<1>4. \A i \in 1..Len(all) : all[i].id \in ToSet(TaskNames)
  BY <1>2, <1>3, Zenon
<1>5. \A t \in Ids(all) : t \in ToSet(TaskNames)
  BY <1>1, <1>4 DEF Ids
<1> QED
  BY <1>5, WeightsAssumption, Zenon DEF Weighs

(* For every graph that the builder can come to and for all weights, negative
   ones too: critical_path raises just for a cycle; otherwise it returns a chain
   of dependencies and its weight, and no chain weighs more. *)
THEOREM CriticalPathIsRight == Spec => []CriticalPathIsLongest
<1>1. IInv => CriticalPathIsLongest
  <2> SUFFICES ASSUME IInv, NEW weight \in Weightings
               PROVE  LET found == CriticalPath(tasks, weight) IN
                      /\ found.error = IF Cyclic(tasks) THEN "DSLError" ELSE "none"
                      /\ ~ Cyclic(tasks) /\ tasks # <<>> =>
                           /\ found.path \in Chains(tasks)
                           /\ WeightOf(found.path, weight) = found.weight
                           /\ \A c \in Chains(tasks) :
                                WeightOf(c, weight) <= found.weight
    BY DEF CriticalPathIsLongest
  <2>1. TopologicalOrder(tasks).ok = ~ Cyclic(tasks)
    <3>1. Len(KahnOrder(tasks)) = Len(tasks) <=> ~ Cyclic(tasks)
      BY CompleteIffAcyclic DEF IInv
    <3>2. CASE Cyclic(tasks)
      BY <3>1, <3>2 DEF TopologicalOrder
    <3>3. CASE ~ Cyclic(tasks)
      BY <3>1, <3>3 DEF TopologicalOrder
    <3> QED
      BY <3>2, <3>3
  <2>2. CASE Cyclic(tasks)
    <3>1. CriticalPath(tasks, weight) = Answer("DSLError", <<>>, 0)
      BY <2>1, <2>2 DEF CriticalPath
    <3> QED
      BY <2>2, <3>1 DEF Answer
  <2>3. CASE ~ Cyclic(tasks) /\ tasks = <<>>
    <3>1. CriticalPath(tasks, weight) = Answer("none", <<>>, 0)
      BY <2>1, <2>3 DEF CriticalPath
    <3> QED
      BY <2>3, <3>1 DEF Answer
  <2> SUFFICES ASSUME ~ Cyclic(tasks), tasks # <<>>
               PROVE  LET found == CriticalPath(tasks, weight) IN
                      /\ found.error = "none"
                      /\ found.path \in Chains(tasks)
                      /\ WeightOf(found.path, weight) = found.weight
                      /\ \A c \in Chains(tasks) : WeightOf(c, weight) <= found.weight
    BY <2>2, <2>3
  <2> DEFINE I == Ids(tasks)
             o == TopologicalOrder(tasks).order
             score == Scores(tasks, weight)
             end == BestParent(I, score)
             p == PathRun(tasks, score, end)[Len(tasks)]
  <2> HIDE DEF o, score, end, p
  <2>4. /\ IsBuilt(tasks) /\ IsGraph(tasks) /\ NoneMissing(tasks)
        /\ Cardinality(I) = Len(tasks) /\ Len(tasks) \in Nat
        /\ DOMAIN tasks = 1..Len(tasks)
    BY BuiltIsGraph DEF IInv
  <2>5. Len(tasks) > 0
    <3>1. tasks \in Seq(Task)
      BY <2>4 DEF IsBuilt
    <3> QED
      BY <3>1, EmptySeq
  <2>6. Sound(tasks, o) /\ ToSet(o) = I /\ Len(o) = Len(tasks)
    <3>1. /\ Sound(tasks, KahnOrder(tasks)) /\ ToSet(KahnOrder(tasks)) = I
          /\ Len(KahnOrder(tasks)) = Len(tasks)
      BY <2>4, CompleteIffAcyclic
    <3>2. o = KahnOrder(tasks)
      BY <3>1 DEF TopologicalOrder, o
    <3> QED
      BY <3>1, <3>2
  <2>7. Weighs(tasks, weight)
    BY <2>4, BuiltWeighs
  <2>8. SolvesScores(tasks, weight, score)
    BY <2>4, <2>6, <2>7, ScoresSolve DEF o, score
  <2>9. score \in [I -> Nat]
    BY <2>8 DEF SolvesScores
  <2>10. end \in I /\ \A u \in I : score[u] <= score[end]
    <3>1. I \in SUBSET Nat /\ IsFiniteSet(I)
      BY <2>4, GraphIds
    <3>2. I # {}
      <4>1. 1 \in DOMAIN tasks
        BY <2>4, <2>5
      <4> HIDE DEF I
      <4>2. tasks[1].id \in Ids(tasks)
        BY <4>1 DEF Ids
      <4> QED
        BY <4>2 DEF I
    <3>3. \A u \in I : score[u] \in Nat
      BY <2>9
    <3> HIDE DEF I
    <3> QED
      BY <3>1, <3>2, <3>3, BestIsBest DEF end
  <2>11. CriticalPath(tasks, weight) = IF Head(p) \in I
                                       THEN Answer("none", p, score[end])
                                       ELSE Answer("KeyError", <<>>, 0)
    BY <2>1 DEF CriticalPath, BestParent, score, end, p
  <2> HIDE DEF I
  <2>12. BestPath(tasks, score, p) /\ p[Len(p)] = end
    <3>1. PICK rank : Ranks(tasks, rank) /\ \A t \in I : rank[t] \in 1..Len(tasks)
      BY <2>4, <2>6, OrderRanks DEF I
    <3> QED
      BY <2>4, <2>9, <2>10, <3>1, PathEnds DEF I, p
  <2>13. WeightOf(p, weight) = score[end]
    BY <2>4, <2>7, <2>8, <2>12, BestPathWeighs
  <2>14. p \in Chains(tasks)
    BY <2>4, <2>12, BestPathIsChain
  <2>15. \A c \in Chains(tasks) : WeightOf(c, weight) <= score[end]
    <3>1. Len(tasks) \in 0..Len(tasks)
      BY <2>4
    <3>2. \A c \in Chains(tasks) :
            /\ c[Len(c)] \in I
            /\ WeightOf(c, weight) \in Nat /\ WeightOf(c, weight) <= score[c[Len(c)]]
      BY <2>4, <2>7, <2>8, <3>1, ChainsWeighLess DEF Chains, I
    <3> TAKE c \in Chains(tasks)
    <3> DEFINE v == WeightOf(c, weight)
               a == score[c[Len(c)]]
               b == score[end]
    <3>3. v \in Nat /\ a \in Nat /\ b \in Nat /\ v <= a /\ a <= b
      BY <2>9, <2>10, <3>2
    <3> HIDE DEF v, a, b
    <3>4. v <= b
      BY <3>3
    <3> QED
      BY <3>4 DEF v, b
  <2>16. Head(p) \in I
    <3>1. p \in Seq(I) /\ Len(p) \in 1..Len(tasks)
      BY <2>12 DEF BestPath, I
    <3> QED
      BY <2>4, <3>1, ElementOfSeq
  <2>17. CriticalPath(tasks, weight) = Answer("none", p, score[end])
    BY <2>11, <2>16
  <2> QED
    BY <2>13, <2>14, <2>15, <2>17 DEF Answer
<1> QED
  BY <1>1, BuilderTypes, PTL

-----------------------------------------------------------------------------
(* What the depth-first search looks at: the names the last task of a name
   needs. *)
LastNeeds(all, t) == ToSet(LastById(all, t).needs)

(* Every node the DSL can write. *)
LEMMA NodeIsGraph ==
  ASSUME NEW all \in Seq(Task)
  PROVE  /\ IsGraph(all)
         /\ Len(all) \in Nat /\ DOMAIN all = 1..Len(all)
         /\ \A i \in 1..Len(all) : /\ all[i] \in Task
                                   /\ all[i].id \in Nat /\ all[i].needs \in Seq(Nat)
<1>1. /\ Len(all) \in Nat /\ DOMAIN all = 1..Len(all)
      /\ \A i \in 1..Len(all) : all[i] \in Task
  BY LenProperties, ElementOfSeq
<1>2. \A i \in 1..Len(all) : all[i].id \in Nat /\ all[i].needs \in Seq(Nat)
  BY <1>1 DEF Task
<1> QED
  BY <1>1, <1>2 DEF IsGraph

LEMMA MaxOfNats ==
  ASSUME NEW S \in SUBSET Nat, S # {}, NEW n \in Nat, \A m \in S : m <= n
  PROVE  Max(S) \in S
<1> DEFINE T == {n - m : m \in S}
<1>1. T \in SUBSET Nat /\ T # {}
  <2>1. \A m \in S : n - m \in Nat
    OBVIOUS
  <2>2. T \in SUBSET Nat
    BY <2>1
  <2>3. PICK m \in S : TRUE
    OBVIOUS
  <2>4. n - m \in T
    OBVIOUS
  <2> HIDE DEF T
  <2> QED
    BY <2>2, <2>4
<1>2. PICK k \in T : \A j \in T : k <= j
  <2> HIDE DEF T
  <2> QED
    BY <1>1, LeastNat
<1>3. PICK x \in S : k = n - x
  BY <1>2
<1>4. \A y \in S : x >= y
  <2> TAKE y \in S
  <2>1. n - y \in T
    OBVIOUS
  <2>2. n - x <= n - y /\ x \in Nat /\ y \in Nat
    BY <1>2, <1>3, <2>1
  <2> QED
    BY <2>2
<1> QED
  BY <1>4 DEF Max

LEMMA LastByIdIsTask ==
  ASSUME NEW all \in Seq(Task), NEW t \in Ids(all)
  PROVE  /\ \E i \in DOMAIN all : all[i].id = t /\ LastById(all, t) = all[i]
         /\ LastById(all, t).needs \in Seq(Nat)
         /\ Len(LastById(all, t).needs) \in Nat
<1> DEFINE P == {i \in DOMAIN all : all[i].id = t}
<1>1. /\ Len(all) \in Nat /\ DOMAIN all = 1..Len(all)
      /\ \A i \in 1..Len(all) : all[i] \in Task
  BY LenProperties, ElementOfSeq
<1>2. P \in SUBSET Nat /\ P # {} /\ \A i \in P : i <= Len(all)
  BY <1>1 DEF Ids
<1>3. Max(P) \in P
  <2> HIDE DEF P
  <2> QED
    BY <1>1, <1>2, MaxOfNats
<1>4. LastById(all, t) = all[Max(P)]
  BY DEF LastById
<1>5. LastById(all, t) \in Task
  BY <1>1, <1>3, <1>4
<1>6. LastById(all, t).needs \in Seq(Nat)
  BY <1>5 DEF Task
<1> QED
  BY <1>3, <1>4, <1>6, LenProperties

Visits(all) == [Ids(all) -> [Searches(all) -> Searches(all)]]

LEMMA SearchShape ==
  ASSUME NEW all, NEW s \in Searches(all)
  PROVE  /\ s.done \in SUBSET Ids(all)
         /\ s.stack \in Seq(Ids(all)) /\ Len(s.stack) \in Nat
         /\ DOMAIN s.stack = 1..Len(s.stack)
         /\ s.cycle \in Seq(Ids(all))
<1>1. s.done \in SUBSET Ids(all) /\ s.stack \in Seq(Ids(all)) /\ s.cycle \in Seq(Ids(all))
  BY DEF Searches
<1> QED
  BY <1>1, LenProperties

(* Where the way back starts. *)
LEMMA PlaceOnStack ==
  ASSUME NEW all, NEW s \in Searches(all), NEW t \in ToSet(s.stack)
  PROVE  LET k == SelectInSeq(s.stack, LAMBDA x : x = t)
             L == Len(s.stack)
             c == Closed(s, t).cycle IN
         /\ k \in 1..L /\ s.stack[k] = t
         /\ Closed(s, t) \in Searches(all)
         /\ c \in Seq(Ids(all)) /\ Len(c) = L - k + 2
         /\ \A i \in 1..(L - k + 1) : c[i] = s.stack[k + i - 1]
         /\ c[L - k + 2] = t
<1> DEFINE I == Ids(all)
           L == Len(s.stack)
           P == {i \in 1..L : s.stack[i] = t}
           k == SelectInSeq(s.stack, LAMBDA x : x = t)
           q == SubSeq(s.stack, k, L)
           c == Append(q, t)
<1>1. s.stack \in Seq(I) /\ L \in Nat /\ DOMAIN s.stack = 1..L
  BY SearchShape
<1>2. P \in SUBSET Nat /\ P # {}
  BY <1>1 DEF ToSet
<1>3. k = Min(P)
  BY <1>2 DEF SelectInSeq
<1>4. Min(P) \in P
  <2> HIDE DEF P
  <2> QED
    BY <1>2, MinOfNats
<1>5. k \in 1..L /\ s.stack[k] = t
  BY <1>3, <1>4
<1> HIDE DEF k
<1>6. \A i \in k..L : s.stack[i] \in I
  <2>1. \A i \in k..L : i \in 1..L
    BY <1>1, <1>5
  <2> QED
    BY <1>1, <2>1, ElementOfSeq
<1>7. /\ q \in Seq(I) /\ Len(q) = L - k + 1
      /\ \A i \in 1..(L - k + 1) : q[i] = s.stack[k + i - 1]
  <2>1. k \in Int /\ L \in Int /\ k <= L
    BY <1>1, <1>5
  <2> HIDE DEF I, L
  <2> QED
    BY <1>6, <2>1, SubSeqProperties
<1>8. t \in I
  BY <1>5, <1>6, <1>1
<1> HIDE DEF q, L, I
<1>9. /\ c \in Seq(I) /\ Len(c) = Len(q) + 1
      /\ \A i \in 1..Len(q) : c[i] = q[i]
      /\ c[Len(q) + 1] = t
  BY <1>7, <1>8, AppendProperties
<1>10. Closed(s, t) = [s EXCEPT !.cycle = c]
  BY DEF Closed, c, q, k, L
<1> HIDE DEF c
<1>11. Closed(s, t) \in Searches(all) /\ Closed(s, t).cycle = c
  BY <1>9, <1>10 DEF Searches, I
<1>12. Len(q) + 1 = L - k + 2
  BY <1>1, <1>5, <1>7
<1> QED
  BY <1>5, <1>7, <1>9, <1>11, <1>12 DEF L, I, k

LEMMA LeftIsSearch ==
  ASSUME NEW all, NEW s \in Searches(all), NEW t \in Ids(all)
  PROVE  /\ Left(s, t) \in Searches(all)
         /\ Left(s, t).stack = SubSeq(s.stack, 1, Len(s.stack) - 1)
         /\ Left(s, t).done = s.done \cup {t}
         /\ Left(s, t).cycle = s.cycle
<1> DEFINE f == SubSeq(s.stack, 1, Len(s.stack) - 1)
<1>1. s.stack \in Seq(Ids(all)) /\ Len(s.stack) \in Nat /\ s.done \in SUBSET Ids(all)
  BY SearchShape
<1>2. \A i \in 1..(Len(s.stack) - 1) : s.stack[i] \in Ids(all)
  <2>1. \A i \in 1..(Len(s.stack) - 1) : i \in 1..Len(s.stack)
    BY <1>1
  <2> QED
    BY <1>1, <2>1, ElementOfSeq
<1>3. f \in Seq(Ids(all))
  <2>1. 1 \in Int /\ Len(s.stack) - 1 \in Int
    BY <1>1
  <2> QED
    BY <1>2, <2>1, SubSeqProperties
<1>4. Left(s, t) = [s EXCEPT !.stack = f, !.done = s.done \cup {t}]
  BY DEF Left, Front
<1> HIDE DEF f
<1> QED
  BY <1>1, <1>3, <1>4 DEF Searches, f

Entered(s, t) == [s EXCEPT !.stack = Append(@, t)]

LEMMA EnteredIsSearch ==
  ASSUME NEW all, NEW s \in Searches(all), NEW t \in Ids(all)
  PROVE  /\ Entered(s, t) \in Searches(all)
         /\ Entered(s, t).done = s.done /\ Entered(s, t).cycle = s.cycle
         /\ Len(Entered(s, t).stack) = Len(s.stack) + 1
         /\ Entered(s, t).stack[Len(s.stack) + 1] = t
         /\ \A i \in 1..Len(s.stack) : Entered(s, t).stack[i] = s.stack[i]
         /\ SubSeq(Entered(s, t).stack, 1, Len(Entered(s, t).stack) - 1) = s.stack
<1> DEFINE h == Append(s.stack, t)
           L == Len(s.stack)
           I == Ids(all)
           e == [s EXCEPT !.stack = h]
<1>1. s.stack \in Seq(I) /\ L \in Nat
  BY SearchShape
<1>2. /\ h \in Seq(I) /\ Len(h) = L + 1 /\ h[L + 1] = t
      /\ \A i \in 1..L : h[i] = s.stack[i]
  <2> HIDE DEF I
  <2>1. t \in I
    BY DEF I
  <2> QED
    BY <1>1, <2>1, AppendProperties
<1> HIDE DEF h
<1>3. e \in Searches(all) /\ e.done = s.done /\ e.cycle = s.cycle /\ e.stack = h
  BY <1>2 DEF Searches
<1>4. SubSeq(h, 1, Len(h) - 1) = s.stack
  <2> DEFINE u == SubSeq(h, 1, L)
  <2>1. \A i \in 1..L : h[i] \in I
    BY <1>1, <1>2, ElementOfSeq
  <2>2. 1 \in Int /\ L \in Int
    BY <1>1
  <2>3. /\ u \in Seq(I) /\ Len(u) = IF 1 <= L THEN L - 1 + 1 ELSE 0
        /\ \A i \in 1..(L - 1 + 1) : u[i] = h[1 + i - 1]
    <3> HIDE DEF I, L
    <3> QED
      BY <2>1, <2>2, SubSeqProperties
  <2>4. Len(u) = L /\ \A i \in 1..L : u[i] = s.stack[i]
    <3> HIDE DEF u, L, I
    <3>1. L - 1 + 1 = L /\ \A i \in 1..L : 1 + i - 1 = i
      BY <1>1
    <3>2. Len(u) = L
      BY <1>1, <2>3
    <3>3. \A i \in 1..L : u[i] = h[i]
      BY <2>3, <3>1
    <3>4. \A i \in 1..L : h[i] = s.stack[i]
      BY <1>2
    <3> QED
      BY <3>2, <3>3, <3>4
  <2>5. Len(h) - 1 = L
    BY <1>1, <1>2
  <2> HIDE DEF I
  <2>6. u = s.stack
    <3> HIDE DEF u
    <3> QED
      BY <1>1, <2>3, <2>4, SeqEqual
  <2> QED
    BY <2>5, <2>6
<1>5. Entered(s, t) = e
  BY DEF Entered, h
<1> HIDE DEF e
<1> QED
  BY <1>2, <1>3, <1>4, <1>5

(* The loop over the dependencies: the recursion has a solution and DescendRun
   is one. *)
Descended(all, visit, d, s) == IF d \in Ids(all) THEN visit[d][s] ELSE s

LEMMA DescendSteps ==
  ASSUME NEW all, NEW visit \in Visits(all), NEW needs \in Seq(Nat),
         NEW s \in Searches(all)
  PROVE  LET r == DescendRun(all, visit, needs, s) IN
         /\ r[0] = s
         /\ \A n \in 1..Len(needs) : r[n] = Descended(all, visit, needs[n], r[n - 1])
         /\ \A n \in 0..Len(needs) : r[n] \in Searches(all)
<1> DEFINE N == Len(needs)
           S == Searches(all)
           Step(x, n) == Descended(all, visit, needs[n], x)
           F == [i \in 1..N |-> [x \in S |-> Step(x, i)]]
           To(g) == [n \in 0..N |-> IF n = 0 THEN s ELSE Step(g[n - 1], n)]
           r == DescendRun(all, visit, needs, s)
<1>1. N \in Nat
  BY LenProperties
<1>2. s \in S
  OBVIOUS
<1>3. \A n \in 1..N, x \in S : Step(x, n) \in S
  BY DEF Descended, Visits
<1>4. r = CHOOSE g : g = To(g)
  <2> DEFINE To2(g) == [n \in 0..N |->
               IF n = 0 THEN s
               ELSE IF needs[n] \in Ids(all) THEN visit[needs[n]][g[n - 1]] ELSE g[n - 1]]
  <2>1. r = CHOOSE g : g = To2(g)
    BY DEF DescendRun
  <2>2. \A g : To2(g) = To(g)
    BY DEF Descended
  <2> HIDE DEF r, To, To2
  <2> QED
    BY <2>1, <2>2
<1> HIDE DEF r, S, N, Step
<1>5. F \in [1..N -> [S -> S]]
  BY <1>3
<1>6. PICK g : Turns(g, S, s, N, F)
  <2> HIDE DEF F
  <2> QED
    BY <1>1, <1>2, <1>5, RecursionExists, Zenon
<1>7. \A n \in 1..N : n - 1 \in 0..N /\ n \in 0..N /\ n # 0
  BY <1>1
<1>8. \A n \in 1..N : g[n] = Step(g[n - 1], n)
  BY <1>6, <1>7 DEF Turns
<1>9. g = To(g)
  <2>1. g = [n \in 0..N |-> g[n]]
    BY <1>6 DEF Turns
  <2>2. \A n \in 0..N : g[n] = IF n = 0 THEN s ELSE Step(g[n - 1], n)
    <3> TAKE n \in 0..N
    <3>1. n = 0 \/ n \in 1..N
      BY <1>1
    <3> QED
      BY <1>6, <1>8, <3>1 DEF Turns
  <2> QED
    BY <2>1, <2>2, Zenon
<1>10. r = To(r)
  <2> HIDE DEF To
  <2> QED
    BY <1>4, <1>9
<1>11. r[0] = s /\ \A n \in 1..N : r[n] = Step(r[n - 1], n)
  <2>1. 0 \in 0..N
    BY <1>1
  <2>2. \A n \in 0..N : r[n] = To(r)[n]
    BY <1>10, Zenon
  <2> QED
    BY <1>7, <2>1, <2>2
<1>12. \A n \in 0..N : r[n] \in S
  <2> DEFINE Bad == {n \in 0..N : r[n] \notin S}
  <2> SUFFICES ASSUME Bad # {} PROVE FALSE
    OBVIOUS
  <2>1. PICK m \in Bad : \A k \in Bad : m <= k
    <3>1. Bad \in SUBSET Nat
      BY <1>1
    <3> HIDE DEF Bad
    <3> QED
      BY <3>1, LeastNat
  <2>2. m # 0
    BY <1>2, <1>11, <2>1
  <2>3. m \in 1..N /\ m - 1 \in 0..N /\ m - 1 < m
    BY <1>1, <2>1, <2>2
  <2>4. r[m - 1] \in S
    BY <2>1, <2>3
  <2>5. r[m] \in S
    BY <1>3, <1>11, <2>3, <2>4
  <2> QED
    BY <2>1, <2>5
<1> QED
  BY <1>11, <1>12 DEF r, S, N, Step

(* The search once the loop over the dependencies of t has ended. *)
Descent(all, visit, t, s) ==
  LET needs == LastById(all, t).needs IN
  DescendRun(all, visit, needs, Entered(s, t))[Len(needs)]

LEMMA VisitByIsSearch ==
  ASSUME NEW all \in Seq(Task), NEW visit \in Visits(all), NEW t \in Ids(all),
         NEW s \in Searches(all)
  PROVE  /\ Descent(all, visit, t, s) \in Searches(all)
         /\ VisitBy(all, visit, t, s) \in Searches(all)
         /\ VisitBy(all, visit, t, s) =
              IF s.cycle # <<>> \/ t \in s.done THEN s
              ELSE IF t \in ToSet(s.stack) THEN Closed(s, t)
              ELSE IF Descent(all, visit, t, s).cycle # <<>> THEN Descent(all, visit, t, s)
              ELSE Left(Descent(all, visit, t, s), t)
<1> DEFINE a == Descent(all, visit, t, s)
<1>1. a \in Searches(all)
  <2> DEFINE needs == LastById(all, t).needs
  <2>1. needs \in Seq(Nat) /\ Len(needs) \in Nat
    BY LastByIdIsTask
  <2>2. Entered(s, t) \in Searches(all)
    BY EnteredIsSearch
  <2> HIDE DEF needs
  <2>3. Len(needs) \in 0..Len(needs)
    BY <2>1
  <2>4. DescendRun(all, visit, needs, Entered(s, t))[Len(needs)] \in Searches(all)
    BY <2>1, <2>2, <2>3, DescendSteps
  <2> QED
    BY <2>4 DEF Descent, needs
<1>2. VisitBy(all, visit, t, s) =
              IF s.cycle # <<>> \/ t \in s.done THEN s
              ELSE IF t \in ToSet(s.stack) THEN Closed(s, t)
              ELSE IF a.cycle # <<>> THEN a
              ELSE Left(a, t)
  BY DEF VisitBy, Descent, Entered
<1> HIDE DEF a
<1>3. t \in ToSet(s.stack) => Closed(s, t) \in Searches(all)
  BY PlaceOnStack
<1>4. Left(a, t) \in Searches(all)
  BY <1>1, LeftIsSearch
<1> QED
  BY <1>1, <1>2, <1>3, <1>4 DEF a

(* visit by the number of open calls: the recursion has a solution and
   VisitRun is one. *)
NextVisit(all, visit) ==
  [t \in Ids(all) |-> [s \in Searches(all) |-> VisitBy(all, visit, t, s)]]

LEMMA VisitRunSteps ==
  ASSUME NEW all \in Seq(Task)
  PROVE  LET r == VisitRun(all)
             N == Cardinality(Ids(all)) + 1 IN
         /\ N \in Nat
         /\ \A n \in 0..N : r[n] \in Visits(all)
         /\ \A t \in Ids(all) : \A s \in Searches(all) : r[0][t][s] = s
         /\ \A n \in 1..N : \A t \in Ids(all) : \A s \in Searches(all) :
              r[n][t][s] = VisitBy(all, r[n - 1], t, s)
<1> DEFINE N == Cardinality(Ids(all)) + 1
           I == Ids(all)
           S == Searches(all)
           V == Visits(all)
           x == [t \in I |-> [s \in S |-> s]]
           Step(v) == NextVisit(all, v)
           F == [i \in 1..N |-> [v \in V |-> Step(v)]]
           To(g) == [n \in 0..N |-> IF n = 0 THEN x ELSE Step(g[n - 1])]
           r == VisitRun(all)
<1>1. N \in Nat
  <2>1. IsGraph(all)
    BY NodeIsGraph
  <2>2. Cardinality(I) \in Nat
    BY <2>1, GraphIds
  <2> QED
    BY <2>2
<1>2. x \in V
  BY DEF Visits
<1>3. \A v \in V : Step(v) \in V
  <2> TAKE v \in V
  <2>1. \A t \in I, s \in S : VisitBy(all, v, t, s) \in S
    BY VisitByIsSearch
  <2> HIDE DEF I, S
  <2> QED
    BY <2>1 DEF NextVisit, Visits, I, S
<1>4. r = CHOOSE g : g = To(g)
  <2> DEFINE To2(g) == [n \in 0..N |-> [t \in I |-> [s \in S |->
               IF n = 0 THEN s ELSE VisitBy(all, g[n - 1], t, s)]]]
  <2>1. r = CHOOSE g : g = To2(g)
    BY DEF VisitRun
  <2>2. ASSUME NEW g PROVE To2(g) = To(g)
    <3>1. ASSUME NEW n \in 0..N
          PROVE  [t \in I |-> [s \in S |-> IF n = 0 THEN s ELSE VisitBy(all, g[n - 1], t, s)]]
                   = IF n = 0 THEN x ELSE Step(g[n - 1])
      BY DEF NextVisit
    <3> HIDE DEF N, x, Step, I, S
    <3> QED
      BY <3>1, Zenon
  <2> HIDE DEF r, To, To2
  <2> QED
    BY <2>1, <2>2
<1> HIDE DEF r, V, N, Step, x
<1>5. F \in [1..N -> [V -> V]]
  BY <1>3
<1>6. PICK g : Turns(g, V, x, N, F)
  <2> HIDE DEF F
  <2> QED
    BY <1>1, <1>2, <1>5, RecursionExists, Zenon
<1>7. \A n \in 1..N : n - 1 \in 0..N /\ n \in 0..N /\ n # 0
  BY <1>1
<1>8. \A n \in 1..N : g[n] = Step(g[n - 1])
  BY <1>6, <1>7 DEF Turns
<1>9. g = To(g)
  <2>1. g = [n \in 0..N |-> g[n]]
    BY <1>6 DEF Turns
  <2>2. \A n \in 0..N : g[n] = IF n = 0 THEN x ELSE Step(g[n - 1])
    <3> TAKE n \in 0..N
    <3>1. n = 0 \/ n \in 1..N
      BY <1>1
    <3> QED
      BY <1>6, <1>8, <3>1 DEF Turns
  <2> QED
    BY <2>1, <2>2, Zenon
<1>10. r = To(r)
  <2> HIDE DEF To
  <2> QED
    BY <1>4, <1>9
<1>11. r[0] = x /\ \A n \in 1..N : r[n] = Step(r[n - 1])
  <2>1. 0 \in 0..N
    BY <1>1
  <2>2. \A n \in 0..N : r[n] = To(r)[n]
    BY <1>10, Zenon
  <2> QED
    BY <1>7, <2>1, <2>2
<1>12. \A n \in 0..N : r[n] \in V
  <2> DEFINE Bad == {n \in 0..N : r[n] \notin V}
  <2> SUFFICES ASSUME Bad # {} PROVE FALSE
    OBVIOUS
  <2>1. PICK m \in Bad : \A k \in Bad : m <= k
    <3>1. Bad \in SUBSET Nat
      BY <1>1
    <3> HIDE DEF Bad
    <3> QED
      BY <3>1, LeastNat
  <2>2. m # 0
    BY <1>2, <1>11, <2>1
  <2>3. m \in 1..N /\ m - 1 \in 0..N /\ m - 1 < m
    BY <1>1, <2>1, <2>2
  <2>4. r[m - 1] \in V
    BY <2>1, <2>3
  <2>5. r[m] \in V
    BY <1>3, <1>11, <2>3, <2>4
  <2> QED
    BY <2>1, <2>5
<1>13. \A t \in I : \A s \in S : r[0][t][s] = s
  BY <1>11 DEF x
<1>14. \A n \in 1..N : \A t \in I : \A s \in S : r[n][t][s] = VisitBy(all, r[n - 1], t, s)
  <2> TAKE n \in 1..N
  <2> TAKE t \in I
  <2> TAKE s \in S
  <2>1. r[n] = NextVisit(all, r[n - 1])
    BY <1>11 DEF Step
  <2>2. r[n][t] = [z \in S |-> VisitBy(all, r[n - 1], t, z)]
    BY <2>1 DEF NextVisit
  <2> HIDE DEF S
  <2> QED
    BY <2>2
<1> QED
  BY <1>1, <1>12, <1>13, <1>14 DEF r, N, V

(* The loop over the names: the recursion has a solution and SearchRun is
   one. *)
LEMMA SearchRunSteps ==
  ASSUME NEW all \in Seq(Task)
  PROVE  LET r == SearchRun(all)
             N == Cardinality(Ids(all)) IN
         /\ N \in Nat
         /\ r[0] = [done |-> {}, stack |-> <<>>, cycle |-> <<>>]
         /\ \A n \in 1..N : r[n] = SearchStep(all, r[n - 1])
         /\ \A n \in 0..N : r[n] \in Searches(all)
<1> DEFINE N == Cardinality(Ids(all))
           I == Ids(all)
           S == Searches(all)
           x == [done |-> {}, stack |-> <<>>, cycle |-> <<>>]
           Step(s) == SearchStep(all, s)
           F == [i \in 1..N |-> [s \in S |-> Step(s)]]
           To(g) == [n \in 0..N |-> IF n = 0 THEN x ELSE Step(g[n - 1])]
           r == SearchRun(all)
<1>1. IsGraph(all)
  BY NodeIsGraph
<1>2. N \in Nat /\ I \in SUBSET Nat
  BY <1>1, GraphIds
<1>3. x \in S
  BY EmptySeq DEF Searches
<1>4. ASSUME NEW s \in S PROVE Step(s) \in S
  <2> DEFINE left == I \ s.done
  <2>1. N + 1 \in 0..(N + 1)
    BY <1>2
  <2>2. DfsVisit(all) \in Visits(all)
    BY <2>1, VisitRunSteps DEF DfsVisit
  <2>3. left # {} => Min(left) \in I
    <3>1. left \in SUBSET Nat
      BY <1>2
    <3>2. left # {} => Min(left) \in left
      <4> HIDE DEF left
      <4> QED
        BY <3>1, MinOfNats
    <3> QED
      BY <3>2
  <2>4. left # {} => DfsVisit(all)[Min(left)][s] \in S
    BY <2>2, <2>3 DEF Visits
  <2> HIDE DEF S
  <2> QED
    BY <1>4, <2>4 DEF SearchStep
<1>5. r = CHOOSE g : g = To(g)
  BY DEF SearchRun
<1> HIDE DEF r, S, N, Step, x
<1>6. F \in [1..N -> [S -> S]]
  BY <1>4
<1>7. PICK g : Turns(g, S, x, N, F)
  <2> HIDE DEF F
  <2> QED
    BY <1>2, <1>3, <1>6, RecursionExists, Zenon
<1>8. \A n \in 1..N : n - 1 \in 0..N /\ n \in 0..N /\ n # 0
  BY <1>2
<1>9. \A n \in 1..N : g[n] = Step(g[n - 1])
  BY <1>7, <1>8 DEF Turns
<1>10. g = To(g)
  <2>1. g = [n \in 0..N |-> g[n]]
    BY <1>7 DEF Turns
  <2>2. \A n \in 0..N : g[n] = IF n = 0 THEN x ELSE Step(g[n - 1])
    <3> TAKE n \in 0..N
    <3>1. n = 0 \/ n \in 1..N
      BY <1>2
    <3> QED
      BY <1>7, <1>9, <3>1 DEF Turns
  <2> QED
    BY <2>1, <2>2, Zenon
<1>11. r = To(r)
  <2> HIDE DEF To
  <2> QED
    BY <1>5, <1>10
<1>12. r[0] = x /\ \A n \in 1..N : r[n] = Step(r[n - 1])
  <2>1. 0 \in 0..N
    BY <1>2
  <2>2. \A n \in 0..N : r[n] = To(r)[n]
    BY <1>11, Zenon
  <2> QED
    BY <1>8, <2>1, <2>2
<1>13. \A n \in 0..N : r[n] \in S
  <2> DEFINE Bad == {n \in 0..N : r[n] \notin S}
  <2> SUFFICES ASSUME Bad # {} PROVE FALSE
    OBVIOUS
  <2>1. PICK m \in Bad : \A k \in Bad : m <= k
    <3>1. Bad \in SUBSET Nat
      BY <1>2
    <3> HIDE DEF Bad
    <3> QED
      BY <3>1, LeastNat
  <2>2. m # 0
    BY <1>3, <1>12, <2>1
  <2>3. m \in 1..N /\ m - 1 \in 0..N /\ m - 1 < m
    BY <1>2, <2>1, <2>2
  <2>4. r[m - 1] \in S
    BY <2>1, <2>3
  <2>5. r[m] \in S
    BY <1>4, <1>12, <2>3, <2>4
  <2> QED
    BY <2>1, <2>5
<1> QED
  BY <1>2, <1>12, <1>13 DEF r, S, N, Step, x

(* A search between two steps: the stack is a way along dependencies, of names
   that differ and are not done; what is done can be ranked, each name above
   those it needs. *)
Stacked(all, s) ==
  /\ \A i, k \in 1..Len(s.stack) : s.stack[i] = s.stack[k] => i = k
  /\ \A i \in 1..Len(s.stack) : s.stack[i] \notin s.done
  /\ \A i \in 2..Len(s.stack) : s.stack[i] \in LastNeeds(all, s.stack[i - 1])

RanksDone(all, done, rank) ==
  \A t \in done :
    /\ rank[t] \in Nat /\ rank[t] < Cardinality(done)
    /\ \A d \in LastNeeds(all, t) \cap Ids(all) : d \in done /\ rank[d] < rank[t]

Sane(all, s) ==
  /\ s \in Searches(all) /\ s.cycle = <<>>
  /\ Stacked(all, s)
  /\ \E rank : RanksDone(all, s.done, rank)

(* One that has ended with a cycle. *)
Caught(all, s) == s \in Searches(all) /\ s.cycle # <<>> /\ IsCycle(all, s.cycle)

LEMMA StackCount ==
  ASSUME NEW all \in Seq(Task), NEW s, Sane(all, s)
  PROVE  Len(s.stack) \in Nat /\ Len(s.stack) <= Cardinality(Ids(all))
<1>1. /\ s.stack \in Seq(Ids(all)) /\ Len(s.stack) \in Nat
      /\ DOMAIN s.stack = 1..Len(s.stack)
  BY SearchShape DEF Sane
<1>2. Cardinality(ToSet(s.stack)) = Len(s.stack)
  BY <1>1, DistinctCount DEF Sane, Stacked
<1>3. ToSet(s.stack) \in SUBSET Ids(all)
  <2>1. \A i \in 1..Len(s.stack) : s.stack[i] \in Ids(all)
    BY <1>1, ElementOfSeq
  <2> QED
    BY <1>1, <2>1 DEF ToSet
<1>4. IsFiniteSet(Ids(all))
  BY NodeIsGraph, GraphIds
<1> QED
  BY <1>1, <1>2, <1>3, <1>4, FS_Subset

LEMMA RanksOneMore ==
  ASSUME NEW all \in Seq(Task), NEW done \in SUBSET Ids(all),
         NEW rank, RanksDone(all, done, rank), NEW t \in Ids(all) \ done,
         LastNeeds(all, t) \cap Ids(all) \in SUBSET done
  PROVE  \E more : RanksDone(all, done \cup {t}, more)
<1> DEFINE c == Cardinality(done)
           D == done \cup {t}
           more == [u \in D |-> IF u = t THEN c ELSE rank[u]]
<1>1. IsFiniteSet(done) /\ c \in Nat
  BY NodeIsGraph, GraphIds, FS_Subset, FS_CardinalityType
<1>2. Cardinality(D) = c + 1
  BY <1>1, FS_AddElement
<1>3. more[t] = c /\ \A u \in done : more[u] = rank[u]
  OBVIOUS
<1>4. \A u \in done : rank[u] \in Nat /\ rank[u] < c
  BY DEF RanksDone
<1> HIDE DEF more, c
<1>5. ASSUME NEW u \in D
      PROVE  /\ more[u] \in Nat /\ more[u] < c + 1
             /\ \A d \in LastNeeds(all, u) \cap Ids(all) : d \in D /\ more[d] < more[u]
  <2>1. CASE u = t
    <3>1. \A d \in LastNeeds(all, t) \cap Ids(all) : d \in done
      OBVIOUS
    <3> QED
      BY <1>1, <1>3, <1>4, <2>1, <3>1
  <2>2. CASE u # t
    <3>1. u \in done
      BY <2>2
    <3>2. \A d \in LastNeeds(all, u) \cap Ids(all) : d \in done /\ rank[d] < rank[u]
      BY <3>1 DEF RanksDone
    <3> QED
      BY <1>1, <1>3, <1>4, <3>1, <3>2
  <2> QED
    BY <2>1, <2>2
<1> HIDE DEF D
<1>6. RanksDone(all, D, more)
  BY <1>2, <1>5 DEF RanksDone
<1> QED
  BY <1>6 DEF D

(* The next name is one the top of the stack needs. *)
Follows(all, s, t) ==
  Len(s.stack) = 0 \/ t \in LastNeeds(all, s.stack[Len(s.stack)])

(* A name met again on the stack closes a cycle. *)
LEMMA ClosesCycle ==
  ASSUME NEW all \in Seq(Task), NEW s, Sane(all, s),
         NEW t \in ToSet(s.stack), Follows(all, s, t)
  PROVE  Caught(all, Closed(s, t))
<1> DEFINE L == Len(s.stack)
           k == SelectInSeq(s.stack, LAMBDA x : x = t)
           c == Closed(s, t).cycle
           I == Ids(all)
           b == Tail(c)
<1>1. L \in Nat /\ s \in Searches(all)
  BY SearchShape DEF Sane
<1>2. /\ k \in 1..L /\ s.stack[k] = t
      /\ Closed(s, t) \in Searches(all)
      /\ c \in Seq(I) /\ Len(c) = L - k + 2
      /\ \A i \in 1..(L - k + 1) : c[i] = s.stack[k + i - 1]
      /\ c[L - k + 2] = t
  BY <1>1, PlaceOnStack
<1>3. /\ \A i, j \in 1..L : s.stack[i] = s.stack[j] => i = j
      /\ \A i \in 2..L : s.stack[i] \in LastNeeds(all, s.stack[i - 1])
  BY DEF Sane, Stacked
<1>4. L # 0 => t \in LastNeeds(all, s.stack[L])
  BY <1>1 DEF Follows
<1> HIDE DEF k, c, L, I
<1>5. Len(c) \in Nat /\ Len(c) > 1 /\ c # <<>>
  <2>1. Len(c) \in Nat /\ Len(c) > 1
    BY <1>1, <1>2
  <2>2. Len(<<>>) = 0
    BY EmptySeq
  <2> QED
    BY <2>1, <2>2
<1>6. c[1] = t /\ c[Len(c)] = t
  <2>1. 1 \in 1..(L - k + 1) /\ k + 1 - 1 = k
    BY <1>1, <1>2
  <2>2. c[1] = s.stack[k + 1 - 1]
    BY <1>2, <2>1
  <2> QED
    BY <1>2, <2>1, <2>2
<1>7. ASSUME NEW i \in 1..(L - k + 1) PROVE c[i + 1] \in LastNeeds(all, c[i])
  <2>1. c[i] = s.stack[k + i - 1]
    BY <1>2
  <2>2. L \in Nat /\ k \in Nat /\ i \in Nat /\ 1 <= k /\ k <= L /\ 1 <= i /\ i <= L - k + 1
    BY <1>1, <1>2
  <2>3. CASE i = L - k + 1
    <3>1. i + 1 = L - k + 2
      BY <2>2, <2>3
    <3>2. k + i - 1 = L
      BY <2>2, <2>3
    <3>3. L # 0
      BY <2>2
    <3>4. c[i] = s.stack[L]
      BY <2>1, <3>2
    <3>5. c[i + 1] = t
      BY <1>2, <3>1
    <3> QED
      BY <1>4, <3>3, <3>4, <3>5
  <2>4. CASE i # L - k + 1
    <3> DEFINE j == k + i
    <3>1. i + 1 \in 1..(L - k + 1) /\ j \in 2..L
      BY <2>2, <2>4
    <3>2. k + (i + 1) - 1 = j /\ k + i - 1 = j - 1
      BY <2>2
    <3> HIDE DEF j
    <3>3. c[i + 1] = s.stack[j]
      BY <1>2, <3>1, <3>2
    <3>4. s.stack[j] \in LastNeeds(all, s.stack[j - 1])
      BY <1>3, <3>1
    <3> QED
      BY <2>1, <3>2, <3>3, <3>4
  <2> QED
    BY <2>3, <2>4
<1>8. NoRepeats(b)
  <2>1. /\ b \in Seq(I) /\ Len(b) = L - k + 1
        /\ \A i \in 1..(L - k + 1) : b[i] = c[i + 1]
    <3>1. b \in Seq(I) /\ Len(b) = Len(c) - 1 /\ \A i \in 1..Len(b) : b[i] = c[i + 1]
      BY <1>2, <1>5, HeadTailProperties
    <3>2. Len(c) - 1 = L - k + 1
      BY <1>1, <1>2
    <3> QED
      BY <3>1, <3>2
  <2> DEFINE at(i) == IF i = L - k + 1 THEN k ELSE k + i
  <2>2. \A i \in 1..(L - k + 1) : at(i) \in 1..L /\ b[i] = s.stack[at(i)]
    <3> TAKE i \in 1..(L - k + 1)
    <3>1. CASE i = L - k + 1
      <4>1. i + 1 = L - k + 2
        BY <1>1, <1>2, <3>1
      <4> QED
        BY <1>2, <2>1, <3>1, <4>1
    <3>2. CASE i # L - k + 1
      <4>1. i + 1 \in 1..(L - k + 1) /\ k + i \in 1..L /\ k + (i + 1) - 1 = k + i
        BY <1>1, <1>2, <3>2
      <4>2. c[i + 1] = s.stack[k + (i + 1) - 1]
        BY <1>2, <4>1
      <4> QED
        BY <2>1, <3>2, <4>1, <4>2
    <3> QED
      BY <3>1, <3>2
  <2>3. \A i, j \in 1..(L - k + 1) : at(i) = at(j) => i = j
    BY <1>1, <1>2
  <2> HIDE DEF at, b
  <2>4. ASSUME NEW i \in 1..Len(b), NEW j \in 1..Len(b), b[i] = b[j] PROVE i = j
    <3>1. i \in 1..(L - k + 1) /\ j \in 1..(L - k + 1)
      BY <2>1
    <3>2. s.stack[at(i)] = s.stack[at(j)] /\ at(i) \in 1..L /\ at(j) \in 1..L
      BY <2>2, <2>4, <3>1
    <3>3. at(i) = at(j)
      BY <1>3, <3>2
    <3> QED
      BY <2>3, <3>1, <3>3
  <2> QED
    BY <2>1, <2>4, DistinctCount DEF NoRepeats
<1>9. IsCycle(all, c)
  <2>1. Len(c) - 1 = L - k + 1
    BY <1>1, <1>2
  <2> QED
    BY <1>5, <1>6, <1>7, <1>8, <2>1 DEF IsCycle, LastNeeds
<1> QED
  BY <1>2, <1>5, <1>9 DEF Caught, c

LEMMA EnteredIsSane ==
  ASSUME NEW all \in Seq(Task), NEW s, Sane(all, s), NEW t \in Ids(all),
         Follows(all, s, t), t \notin s.done, t \notin ToSet(s.stack)
  PROVE  /\ Sane(all, Entered(s, t))
         /\ Entered(s, t).done = s.done
         /\ Len(Entered(s, t).stack) = Len(s.stack) + 1
         /\ Entered(s, t).stack[Len(s.stack) + 1] = t
         /\ SubSeq(Entered(s, t).stack, 1, Len(Entered(s, t).stack) - 1) = s.stack
<1> DEFINE e == Entered(s, t)
           L == Len(s.stack)
           a == s.stack
           h == e.stack
<1>1. L \in Nat /\ s \in Searches(all) /\ DOMAIN a = 1..L
  BY SearchShape DEF Sane
<1>2. /\ e \in Searches(all)
      /\ e.done = s.done /\ e.cycle = s.cycle
      /\ Len(h) = L + 1 /\ h[L + 1] = t
      /\ \A i \in 1..L : h[i] = a[i]
      /\ SubSeq(h, 1, Len(h) - 1) = a
  <2> HIDE DEF L, a, h, e
  <2>1. s \in Searches(all)
    BY <1>1
  <2>2. /\ Entered(s, t) \in Searches(all)
        /\ Entered(s, t).done = s.done /\ Entered(s, t).cycle = s.cycle
        /\ Len(Entered(s, t).stack) = Len(s.stack) + 1
        /\ Entered(s, t).stack[Len(s.stack) + 1] = t
        /\ \A i \in 1..Len(s.stack) : Entered(s, t).stack[i] = s.stack[i]
        /\ SubSeq(Entered(s, t).stack, 1, Len(Entered(s, t).stack) - 1) = s.stack
    BY <2>1, EnteredIsSearch
  <2> QED
    BY <2>2 DEF L, a, h, e
<1>3. /\ \A i, j \in 1..L : a[i] = a[j] => i = j
      /\ \A i \in 1..L : a[i] \notin s.done
      /\ \A i \in 2..L : a[i] \in LastNeeds(all, a[i - 1])
  BY DEF Sane, Stacked
<1>4. \A i \in 1..L : a[i] # t
  BY <1>1 DEF ToSet
<1>5. L # 0 => t \in LastNeeds(all, a[L])
  BY <1>1 DEF Follows
<1> HIDE DEF e, h, a, L
<1>6. \A i \in 1..(L + 1) : i = L + 1 \/ i \in 1..L
  BY <1>1
<1>7. \A i, j \in 1..(L + 1) : h[i] = h[j] => i = j
  BY <1>2, <1>3, <1>4, <1>6
<1>8. \A i \in 1..(L + 1) : h[i] \notin e.done
  BY <1>2, <1>3, <1>6
<1>9. ASSUME NEW i \in 2..(L + 1) PROVE h[i] \in LastNeeds(all, h[i - 1])
  <2>1. CASE i = L + 1
    <3>1. i - 1 = L /\ L \in 1..L /\ L # 0
      BY <1>1, <2>1
    <3> QED
      BY <1>2, <1>5, <2>1, <3>1
  <2>2. CASE i # L + 1
    <3>1. i \in 2..L /\ i \in 1..L /\ i - 1 \in 1..L
      BY <1>1, <2>2
    <3> QED
      BY <1>2, <1>3, <3>1
  <2> QED
    BY <2>1, <2>2
<1>10. Stacked(all, e)
  BY <1>2, <1>7, <1>8, <1>9 DEF Stacked, h
<1>11. Sane(all, e)
  BY <1>2, <1>10 DEF Sane
<1> QED
  BY <1>2, <1>11 DEF e, h, a, L

(* What a visit of t promises: a cycle, or t is done and the stack as before. *)
Reached(all, s, t, r) ==
  \/ Caught(all, r)
  \/ Sane(all, r) /\ r.stack = s.stack /\ s.done \in SUBSET r.done /\ t \in r.done

(* A visit keeps the promise when at least m names are on the stack. *)
Finds(all, visit, m) ==
  \A s : \A t \in Ids(all) :
    Sane(all, s) /\ Follows(all, s, t) /\ Len(s.stack) >= m => Reached(all, s, t, visit[t][s])

(* A cycle that was found stays. *)
Keeps(all, visit) ==
  \A t \in Ids(all) : \A s \in Searches(all) : s.cycle # <<>> => visit[t][s] = s

(* The loop over the dependencies of the name on top of the stack. *)
LEMMA DescentFinds ==
  ASSUME NEW all \in Seq(Task), NEW visit \in Visits(all), NEW m \in Nat,
         Keeps(all, visit), Finds(all, visit, m),
         NEW s, Sane(all, s), Len(s.stack) >= m,
         NEW t \in Ids(all), \A d \in LastNeeds(all, t) : Follows(all, s, d)
  PROVE  LET needs == LastById(all, t).needs
             r     == DescendRun(all, visit, needs, s)[Len(needs)] IN
         \/ Caught(all, r)
         \/ /\ Sane(all, r) /\ r.stack = s.stack /\ s.done \in SUBSET r.done
            /\ LastNeeds(all, t) \cap Ids(all) \in SUBSET r.done
<1> DEFINE needs == LastById(all, t).needs
           N == Len(needs)
           r == DescendRun(all, visit, needs, s)
           Same(n) == /\ Sane(all, r[n]) /\ r[n].stack = s.stack
                      /\ s.done \in SUBSET r[n].done
                      /\ \A j \in 1..n : needs[j] \in Ids(all) => needs[j] \in r[n].done
           Fine(n) == Caught(all, r[n]) \/ Same(n)
           Bad == {n \in 0..N : ~ Fine(n)}
<1>1. needs \in Seq(Nat) /\ N \in Nat /\ DOMAIN needs = 1..N
  BY LastByIdIsTask, LenProperties
<1>2. LastNeeds(all, t) = {needs[j] : j \in 1..N}
  BY <1>1 DEF LastNeeds, ToSet
<1>3. s \in Searches(all)
  BY DEF Sane
<1> HIDE DEF needs
<1>4. /\ r[0] = s
      /\ \A n \in 1..N : r[n] = Descended(all, visit, needs[n], r[n - 1])
      /\ \A n \in 0..N : r[n] \in Searches(all)
  BY <1>1, <1>3, DescendSteps, Zenon
<1> HIDE DEF r, N
<1>5. Fine(0)
  BY <1>4
<1>6. ASSUME NEW n \in 1..N, Fine(n - 1) PROVE Fine(n)
  <2> DEFINE a == r[n - 1]
             d == needs[n]
             b == r[n]
  <2>1. n - 1 \in 0..N /\ n \in Nat
    BY <1>1
  <2>2. a \in Searches(all) /\ b = IF d \in Ids(all) THEN visit[d][a] ELSE a
    BY <1>4, <2>1 DEF Descended
  <2>3. CASE Caught(all, a)
    <3>1. a.cycle # <<>>
      BY <2>3 DEF Caught
    <3> HIDE DEF a, b, d
    <3>2. b = a
      BY <2>2, <3>1 DEF Keeps
    <3>3. Caught(all, b)
      BY <2>3, <3>2
    <3> QED
      BY <3>3 DEF b
  <2>4. CASE Same(n - 1)
    <3>1. Sane(all, a) /\ a.stack = s.stack /\ s.done \in SUBSET a.done
      BY <2>4
    <3>2. \A j \in 1..(n - 1) : needs[j] \in Ids(all) => needs[j] \in a.done
      BY <2>4
    <3>3. \A j \in 1..n : j = n \/ j \in 1..(n - 1)
      BY <2>1
    <3>4. d \in LastNeeds(all, t)
      BY <1>2
    <3>5. Follows(all, a, d) /\ Len(a.stack) >= m
      BY <3>1, <3>4 DEF Follows
    <3>6. CASE d \in Ids(all)
      <4> HIDE DEF a, b, d
      <4>1. Reached(all, a, d, b)
        BY <2>2, <3>1, <3>5, <3>6 DEF Finds
      <4>2. CASE Caught(all, b)
        BY <4>2 DEF b
      <4>3. CASE Sane(all, b) /\ b.stack = a.stack /\ a.done \in SUBSET b.done /\ d \in b.done
        <5>1. \A j \in 1..n : needs[j] \in Ids(all) => needs[j] \in b.done
          BY <3>2, <3>3, <4>3 DEF d
        <5>2. Sane(all, b) /\ b.stack = s.stack /\ s.done \in SUBSET b.done
          BY <3>1, <4>3
        <5> QED
          BY <5>1, <5>2 DEF b
      <4> QED
        BY <4>1, <4>2, <4>3 DEF Reached
    <3>7. CASE d \notin Ids(all)
      <4>1. b = a
        BY <2>2, <3>7
      <4> HIDE DEF a, b
      <4>2. \A j \in 1..n : needs[j] \in Ids(all) => needs[j] \in b.done
        BY <3>2, <3>3, <3>7, <4>1
      <4>3. Sane(all, b) /\ b.stack = s.stack /\ s.done \in SUBSET b.done
        BY <3>1, <4>1
      <4> QED
        BY <4>2, <4>3 DEF b
    <3> QED
      BY <3>6, <3>7
  <2> QED
    BY <1>6, <2>3, <2>4
<1> HIDE DEF Fine
<1>7. \A n \in 0..N : Fine(n)
  <2> SUFFICES ASSUME Bad # {} PROVE FALSE
    OBVIOUS
  <2>1. PICK n \in Bad : \A k \in Bad : n <= k
    <3>1. Bad \in SUBSET Nat
      BY <1>1
    <3> HIDE DEF Bad
    <3> QED
      BY <3>1, LeastNat
  <2>2. n # 0
    BY <1>5, <2>1
  <2>3. n \in 1..N /\ n - 1 \in 0..N /\ n - 1 < n
    BY <1>1, <2>1, <2>2
  <2>4. Fine(n - 1)
    BY <2>1, <2>3
  <2> QED
    BY <1>6, <2>1, <2>3, <2>4
<1>8. N \in 0..N
  BY <1>1
<1>9. Caught(all, r[N]) \/ Same(N)
  BY <1>7, <1>8 DEF Fine
<1>10. Same(N) => LastNeeds(all, t) \cap Ids(all) \in SUBSET r[N].done
  BY <1>2
<1> QED
  BY <1>9, <1>10 DEF r, N, needs

(* t is on top of the stack, and what is below it is done. *)
Ended(all, s, t) ==
  /\ Len(s.stack) # 0 /\ s.stack[Len(s.stack)] = t
  /\ LastNeeds(all, t) \cap Ids(all) \in SUBSET s.done

LEMMA LeftIsSane ==
  ASSUME NEW all \in Seq(Task), NEW s \in Searches(all), NEW t \in Ids(all),
         Sane(all, s), Ended(all, s, t)
  PROVE  /\ Sane(all, Left(s, t))
         /\ Left(s, t).stack = SubSeq(s.stack, 1, Len(s.stack) - 1)
         /\ Left(s, t).done = s.done \cup {t}
<1> DEFINE L == Len(s.stack)
           a == s.stack
           h == SubSeq(a, 1, L - 1)
           r == Left(s, t)
<1>1. s \in Searches(all) /\ s.cycle = <<>>
  BY DEF Sane
<1>2. /\ L \in Nat /\ DOMAIN a = 1..L /\ a \in Seq(Ids(all)) /\ L > 0
      /\ s.done \in SUBSET Ids(all)
      /\ LastNeeds(all, t) \cap Ids(all) \in SUBSET s.done
  BY <1>1, SearchShape DEF Ended
<1>3. r \in Searches(all) /\ r.stack = h /\ r.done = s.done \cup {t} /\ r.cycle = s.cycle
  <2> HIDE DEF L, a, h, r
  <2>1. s \in Searches(all)
    BY <1>1
  <2>2. /\ Left(s, t) \in Searches(all)
        /\ Left(s, t).stack = SubSeq(s.stack, 1, Len(s.stack) - 1)
        /\ Left(s, t).done = s.done \cup {t}
        /\ Left(s, t).cycle = s.cycle
    BY <2>1, LeftIsSearch
  <2> QED
    BY <2>2 DEF L, a, h, r
<1>4. /\ \A i, j \in 1..L : a[i] = a[j] => i = j
      /\ \A i \in 1..L : a[i] \notin s.done
      /\ \A i \in 2..L : a[i] \in LastNeeds(all, a[i - 1])
  BY DEF Sane, Stacked
<1>5. a[L] = t
  BY DEF Ended
<1> HIDE DEF L, a, r
<1>6. Len(h) = L - 1 /\ \A i \in 1..(L - 1) : h[i] = a[i]
  <2>1. \A i \in 1..(L - 1) : i \in 1..L
    BY <1>2
  <2>2. \A i \in 1..(L - 1) : a[i] \in Ids(all)
    BY <1>2, <2>1, ElementOfSeq
  <2>3. 1 \in Int /\ L - 1 \in Int
    BY <1>2
  <2>4. /\ Len(h) = IF 1 <= L - 1 THEN (L - 1) - 1 + 1 ELSE 0
        /\ \A i \in 1..((L - 1) - 1 + 1) : h[i] = a[1 + i - 1]
    <3> HIDE DEF h
    <3> QED
      BY <2>2, <2>3, SubSeqProperties DEF h
  <2> HIDE DEF h
  <2>5. L - 1 = (L - 1) - 1 + 1
    BY <1>2
  <2>6. Len(h) = L - 1
    BY <1>2, <2>4
  <2>7. \A i \in 1..(L - 1) : 1 + i - 1 = i
    OBVIOUS
  <2> QED
    BY <2>4, <2>5, <2>6, <2>7
<1> HIDE DEF h
<1>7. \A i \in 1..(L - 1) : i \in 1..L /\ i # L
  BY <1>2
<1>8. L \in 1..L
  BY <1>2
<1>9. \A i, j \in 1..(L - 1) : h[i] = h[j] => i = j
  BY <1>4, <1>6, <1>7
<1>10. \A i \in 1..(L - 1) : h[i] \notin r.done
  BY <1>3, <1>4, <1>5, <1>6, <1>7, <1>8
<1>11. ASSUME NEW i \in 2..(L - 1) PROVE h[i] \in LastNeeds(all, h[i - 1])
  <2>1. i \in 2..L /\ i \in 1..(L - 1) /\ i - 1 \in 1..(L - 1)
    BY <1>2
  <2> QED
    BY <1>4, <1>6, <2>1
<1>12. Stacked(all, r)
  BY <1>3, <1>6, <1>9, <1>10, <1>11 DEF Stacked
<1>13. \E rank : RanksDone(all, r.done, rank)
  <2>1. PICK rank : RanksDone(all, s.done, rank)
    BY DEF Sane
  <2>2. t \in Ids(all) \ s.done
    BY <1>4, <1>5, <1>8
  <2>3. \E more : RanksDone(all, s.done \cup {t}, more)
    BY <1>2, <2>1, <2>2, RanksOneMore
  <2> QED
    BY <1>3, <2>3
<1>14. Sane(all, r)
  BY <1>1, <1>3, <1>12, <1>13 DEF Sane
<1> QED
  BY <1>3, <1>14 DEF r, h, a, L

(* One more open call: what it may find with one name less on the stack. *)
LEMMA VisitByFinds ==
  ASSUME NEW all \in Seq(Task), NEW visit \in Visits(all), NEW m \in Nat,
         Keeps(all, visit), Finds(all, visit, m + 1),
         NEW t \in Ids(all),
         NEW s, Sane(all, s), Follows(all, s, t), Len(s.stack) >= m
  PROVE  Reached(all, s, t, VisitBy(all, visit, t, s))
<1> DEFINE e == Entered(s, t)
           a == Descent(all, visit, t, s)
           L == Len(s.stack)
           r == VisitBy(all, visit, t, s)
<1>1. s \in Searches(all) /\ s.cycle = <<>> /\ L \in Nat /\ DOMAIN s.stack = 1..L
  BY SearchShape DEF Sane
<1>2. r = IF t \in s.done THEN s
          ELSE IF t \in ToSet(s.stack) THEN Closed(s, t)
          ELSE IF a.cycle # <<>> THEN a ELSE Left(a, t)
  <2> HIDE DEF r, a
  <2> QED
    BY <1>1, VisitByIsSearch DEF r, a
<1> HIDE DEF r, a, e, L
<1>3. CASE t \in s.done
  BY <1>2, <1>3 DEF Reached, r
<1>4. CASE t \notin s.done /\ t \in ToSet(s.stack)
  <2>1. Caught(all, Closed(s, t))
    BY <1>4, ClosesCycle
  <2> QED
    BY <1>2, <1>4, <2>1 DEF Reached, r
<1>5. CASE t \notin s.done /\ t \notin ToSet(s.stack)
  <2>1. /\ Sane(all, e) /\ e.done = s.done /\ Len(e.stack) = L + 1 /\ e.stack[L + 1] = t
        /\ SubSeq(e.stack, 1, Len(e.stack) - 1) = s.stack
    <3> HIDE DEF Sane, Follows
    <3> QED
      BY <1>5, EnteredIsSane DEF e, L
  <2>2. \A d \in LastNeeds(all, t) : Follows(all, e, d)
    BY <2>1 DEF Follows
  <2>3. Len(e.stack) >= m + 1 /\ m + 1 \in Nat /\ Len(e.stack) > 0
    BY <1>1, <2>1 DEF L
  <2>4. \/ Caught(all, a)
        \/ /\ Sane(all, a) /\ a.stack = e.stack /\ e.done \in SUBSET a.done
           /\ LastNeeds(all, t) \cap Ids(all) \in SUBSET a.done
    BY <2>1, <2>2, <2>3, DescentFinds DEF Descent, e, a
  <2>5. CASE Caught(all, a)
    <3>1. r = a
      BY <1>2, <1>5, <2>5 DEF Caught
    <3> QED
      BY <2>5, <3>1 DEF Reached, r
  <2>6. CASE /\ Sane(all, a) /\ a.stack = e.stack /\ e.done \in SUBSET a.done
             /\ LastNeeds(all, t) \cap Ids(all) \in SUBSET a.done
    <3>1. r = Left(a, t)
      BY <1>2, <1>5, <2>6 DEF Sane
    <3>2. Len(a.stack) > 0 /\ a.stack[Len(a.stack)] = t
      BY <2>1, <2>3, <2>6
    <3>3. /\ Sane(all, r)
          /\ r.stack = SubSeq(a.stack, 1, Len(a.stack) - 1)
          /\ r.done = a.done \cup {t}
      <4>1. Sane(all, a) /\ a \in Searches(all)
        BY <2>6 DEF Sane
      <4>2. Ended(all, a, t)
        BY <2>6, <3>2 DEF Ended
      <4>3. /\ Sane(all, Left(a, t))
            /\ Left(a, t).stack = SubSeq(a.stack, 1, Len(a.stack) - 1)
            /\ Left(a, t).done = a.done \cup {t}
        BY <4>1, <4>2, LeftIsSane
      <4> QED
        BY <3>1, <4>3
    <3>4. r.stack = s.stack /\ s.done \in SUBSET r.done /\ t \in r.done
      BY <2>1, <2>6, <3>3
    <3> QED
      BY <3>3, <3>4 DEF Reached, r
  <2> QED
    BY <2>4, <2>5, <2>6
<1> QED
  BY <1>3, <1>4, <1>5

(* The names on the stack differ, so as many open calls as names and one are
   enough. *)
LEMMA DfsVisitFinds ==
  ASSUME NEW all \in Seq(Task)
  PROVE  /\ DfsVisit(all) \in Visits(all)
         /\ Keeps(all, DfsVisit(all)) /\ Finds(all, DfsVisit(all), 0)
<1> DEFINE r == VisitRun(all)
           N == Cardinality(Ids(all)) + 1
           Fine(n) == Keeps(all, r[n]) /\ Finds(all, r[n], N - n)
           Bad == {n \in 0..N : ~ Fine(n)}
<1>1. N \in Nat
  BY VisitRunSteps
<1>2. \A n \in 0..N : r[n] \in Visits(all)
  BY VisitRunSteps
<1>3. \A t \in Ids(all) : \A s \in Searches(all) : r[0][t][s] = s
  BY VisitRunSteps
<1>4. \A n \in 1..N : \A t \in Ids(all) : \A s \in Searches(all) :
        r[n][t][s] = VisitBy(all, r[n - 1], t, s)
  BY VisitRunSteps, Zenon
<1>5. Fine(0)
  <2>1. Keeps(all, r[0])
    BY <1>3 DEF Keeps
  <2>2. \A s : Sane(all, s) => ~ (Len(s.stack) >= N - 0)
    <3>1. \A s : Sane(all, s) => Len(s.stack) \in Nat /\ Len(s.stack) <= Cardinality(Ids(all))
      BY StackCount
    <3>2. Cardinality(Ids(all)) \in Nat
      BY NodeIsGraph, GraphIds
    <3> QED
      BY <3>1, <3>2
  <2>3. Finds(all, r[0], N - 0)
    BY <2>2 DEF Finds
  <2> QED
    BY <2>1, <2>3
<1> HIDE DEF r, N
<1>6. ASSUME NEW n \in 1..N, Fine(n - 1) PROVE Fine(n)
  <2> DEFINE m == N - n
  <2>1. n - 1 \in 0..N /\ m \in Nat /\ N - (n - 1) = m + 1
    BY <1>1
  <2>2. r[n - 1] \in Visits(all) /\ Keeps(all, r[n - 1]) /\ Finds(all, r[n - 1], m + 1)
    BY <1>2, <1>6, <2>1
  <2> HIDE DEF m
  <2>3. Keeps(all, r[n])
    <3> SUFFICES ASSUME NEW t \in Ids(all), NEW s \in Searches(all), s.cycle # <<>>
                 PROVE  r[n][t][s] = s
      BY DEF Keeps
    <3>1. r[n][t][s] = VisitBy(all, r[n - 1], t, s)
      BY <1>4
    <3> QED
      BY <3>1 DEF VisitBy
  <2>4. Finds(all, r[n], m)
    <3> SUFFICES ASSUME NEW s, NEW t \in Ids(all),
                        Sane(all, s), Follows(all, s, t), Len(s.stack) >= m
                 PROVE  Reached(all, s, t, r[n][t][s])
      BY DEF Finds
    <3>1. s \in Searches(all)
      BY DEF Sane
    <3>2. r[n][t][s] = VisitBy(all, r[n - 1], t, s)
      BY <1>4, <3>1
    <3>3. Reached(all, s, t, VisitBy(all, r[n - 1], t, s))
      BY <2>1, <2>2, VisitByFinds
    <3> QED
      BY <3>2, <3>3
  <2> QED
    BY <2>3, <2>4 DEF m
<1> HIDE DEF Fine
<1>7. \A n \in 0..N : Fine(n)
  <2> SUFFICES ASSUME Bad # {} PROVE FALSE
    OBVIOUS
  <2>1. PICK n \in Bad : \A k \in Bad : n <= k
    <3>1. Bad \in SUBSET Nat
      BY <1>1
    <3> HIDE DEF Bad
    <3> QED
      BY <3>1, LeastNat
  <2>2. n # 0
    BY <1>5, <2>1
  <2>3. n \in 1..N /\ n - 1 \in 0..N /\ n - 1 < n
    BY <1>1, <2>1, <2>2
  <2>4. Fine(n - 1)
    BY <2>1, <2>3
  <2> QED
    BY <1>6, <2>1, <2>3, <2>4
<1>8. N \in 0..N /\ N - N = 0
  BY <1>1
<1>9. Keeps(all, r[N]) /\ Finds(all, r[N], 0) /\ r[N] \in Visits(all)
  BY <1>2, <1>7, <1>8 DEF Fine
<1>10. DfsVisit(all) = r[N]
  BY DEF DfsVisit, r, N
<1> QED
  BY <1>9, <1>10

(* find_cycle: what it finds is a cycle, and when it finds none the names can
   be ranked, each above those it needs. *)
LEMMA FindCycleIsRight ==
  ASSUME NEW all \in Seq(Task)
  PROVE  /\ FindCycle(all) \in Seq(Ids(all))
         /\ FindCycle(all) # <<>> => IsCycle(all, FindCycle(all))
         /\ FindCycle(all) = <<>> => \E rank : RanksDone(all, Ids(all), rank)
<1> DEFINE r == SearchRun(all)
           I == Ids(all)
           N == Cardinality(I)
           Fine(n) == \/ Caught(all, r[n])
                      \/ /\ Sane(all, r[n]) /\ Len(r[n].stack) = 0
                         /\ r[n].done = I \/ Cardinality(r[n].done) >= n
           Bad == {n \in 0..N : ~ Fine(n)}
<1>1. N \in Nat /\ IsFiniteSet(I) /\ I \in SUBSET Nat
  BY NodeIsGraph, GraphIds
<1>2. /\ r[0] = [done |-> {}, stack |-> <<>>, cycle |-> <<>>]
      /\ \A n \in 1..N : r[n] = SearchStep(all, r[n - 1])
      /\ \A n \in 0..N : r[n] \in Searches(all)
  BY SearchRunSteps, Zenon
<1>3. DfsVisit(all) \in Visits(all) /\ Keeps(all, DfsVisit(all)) /\ Finds(all, DfsVisit(all), 0)
  BY DfsVisitFinds
<1>4. \A D \in SUBSET I : IsFiniteSet(D) /\ Cardinality(D) \in Nat
  BY <1>1, FS_Subset, FS_CardinalityType
<1>5. Fine(0)
  <2>1. r[0].done = {} /\ r[0].stack = <<>> /\ r[0].cycle = <<>>
    BY <1>2
  <2>2. Len(<<>>) = 0 /\ 0 \in 0..N
    BY <1>1, EmptySeq
  <2>3. Stacked(all, r[0])
    BY <2>1, <2>2 DEF Stacked
  <2>4. RanksDone(all, r[0].done, [t \in I |-> 0])
    BY <2>1 DEF RanksDone
  <2>5. Sane(all, r[0])
    BY <1>2, <2>1, <2>2, <2>3, <2>4 DEF Sane
  <2>6. Cardinality(r[0].done) >= 0
    BY <2>1, <1>4
  <2> QED
    BY <2>1, <2>2, <2>5, <2>6
<1> HIDE DEF r, N, I
<1>6. ASSUME NEW n \in 1..N, Fine(n - 1) PROVE Fine(n)
  <2> DEFINE a == r[n - 1]
             b == r[n]
             left == I \ a.done
             t == Min(left)
  <2>1. n - 1 \in 0..N /\ n \in Nat
    BY <1>1
  <2>2. a \in Searches(all) /\ b = SearchStep(all, a)
    BY <1>2, <2>1
  <2>3. a.done \in SUBSET I
    BY <2>2, SearchShape DEF I
  <2>4. b = IF a.cycle # <<>> \/ left = {} THEN a ELSE DfsVisit(all)[t][a]
    BY <2>2 DEF SearchStep, I
  <2>5. CASE Caught(all, a)
    <3>1. b = a
      BY <2>4, <2>5 DEF Caught
    <3> QED
      BY <2>5, <3>1
  <2>6. CASE Sane(all, a) /\ Len(a.stack) = 0 /\ left = {}
    <3>1. b = a
      BY <2>4, <2>6
    <3>2. a.done = I
      BY <2>3, <2>6
    <3> HIDE DEF a, b, left
    <3> QED
      BY <2>6, <3>1, <3>2 DEF b
  <2>7. CASE Sane(all, a) /\ Len(a.stack) = 0 /\ left # {} /\ Cardinality(a.done) >= n - 1
    <3>1. t \in left
      <4>1. left \in SUBSET Nat
        BY <1>1
      <4> HIDE DEF left
      <4> QED
        BY <2>7, <4>1, MinOfNats
    <3>2. b = DfsVisit(all)[t][a]
      BY <2>4, <2>7 DEF Sane
    <3>3. t \in I \ a.done
      BY <3>1
    <3> HIDE DEF a, b, left, t
    <3>4. Follows(all, a, t) /\ Len(a.stack) >= 0
      BY <2>7 DEF Follows
    <3>5. Reached(all, a, t, b)
      BY <1>3, <2>7, <3>2, <3>3, <3>4 DEF Finds, I
    <3>6. CASE Caught(all, b)
      BY <3>6 DEF b
    <3>7. CASE Sane(all, b) /\ b.stack = a.stack /\ a.done \in SUBSET b.done /\ t \in b.done
      <4>1. b.done \in SUBSET I
        BY <3>7, SearchShape DEF Sane, I
      <4>2. Cardinality(a.done \cup {t}) = Cardinality(a.done) + 1
        BY <1>4, <2>3, <3>3, FS_AddElement
      <4>3. a.done \cup {t} \in SUBSET b.done
        BY <3>7
      <4>4. Cardinality(a.done \cup {t}) <= Cardinality(b.done)
        BY <1>4, <4>1, <4>3, FS_Subset
      <4>5. /\ Cardinality(a.done \cup {t}) \in Nat /\ Cardinality(b.done) \in Nat
            /\ Cardinality(a.done) \in Nat
        BY <1>4, <2>3, <4>1, <4>3
      <4>6. Cardinality(b.done) >= n
        BY <2>1, <2>7, <4>2, <4>4, <4>5
      <4> QED
        BY <2>7, <3>7, <4>6 DEF b
    <3> QED
      BY <3>5, <3>6, <3>7 DEF Reached
  <2>8. a.done # I => left # {}
    BY <2>3
  <2>9. a.done = I => left = {}
    OBVIOUS
  <2> HIDE DEF left, t
  <2> QED
    BY <1>6, <2>5, <2>6, <2>7, <2>8, <2>9
<1> HIDE DEF Fine
<1>7. \A n \in 0..N : Fine(n)
  <2> SUFFICES ASSUME Bad # {} PROVE FALSE
    OBVIOUS
  <2>1. PICK n \in Bad : \A k \in Bad : n <= k
    <3>1. Bad \in SUBSET Nat
      BY <1>1
    <3> HIDE DEF Bad
    <3> QED
      BY <3>1, LeastNat
  <2>2. n # 0
    BY <1>5, <2>1
  <2>3. n \in 1..N /\ n - 1 \in 0..N /\ n - 1 < n
    BY <1>1, <2>1, <2>2
  <2>4. Fine(n - 1)
    BY <2>1, <2>3
  <2> QED
    BY <1>6, <2>1, <2>3, <2>4
<1> DEFINE z == r[N]
<1>8. N \in 0..N
  BY <1>1
<1>9. z \in Searches(all)
  BY <1>2, <1>8
<1>10. FindCycle(all) = z.cycle
  BY DEF FindCycle, r, N, I
<1>11. \/ Caught(all, z)
       \/ Sane(all, z) /\ (z.done = I \/ Cardinality(z.done) >= N)
  BY <1>7, <1>8 DEF Fine
<1> HIDE DEF z
<1>12. z.cycle \in Seq(Ids(all)) /\ z.done \in SUBSET I
  BY <1>9, SearchShape DEF I
<1>13. CASE Caught(all, z)
  BY <1>10, <1>12, <1>13 DEF Caught
<1>14. CASE Sane(all, z) /\ (z.done = I \/ Cardinality(z.done) >= N)
  <2>1. z.done = I
    <3>1. Cardinality(z.done) >= N => z.done = I
      BY <1>1, <1>4, <1>12, FS_Subset DEF N
    <3> QED
      BY <1>14, <3>1
  <2>2. z.cycle = <<>> /\ \E rank : RanksDone(all, I, rank)
    BY <1>14, <2>1 DEF Sane
  <2> QED
    BY <1>10, <1>12, <2>2 DEF I
<1> QED
  BY <1>11, <1>13, <1>14

-----------------------------------------------------------------------------
(* Where names differ, the last task of a name is the only one. *)
LEMMA LastIsOnly ==
  ASSUME NEW all \in Seq(Task), Cardinality(Ids(all)) = Len(all), NEW t \in Ids(all)
  PROVE  LastNeeds(all, t) = Needs(all, t)
<1>1. IsGraph(all) /\ DOMAIN all = 1..Len(all)
  BY NodeIsGraph
<1>2. \A i, k \in 1..Len(all) : all[i].id = all[k].id => i = k
  BY <1>1, GraphIds
<1>3. PICK i \in 1..Len(all) : all[i].id = t /\ LastById(all, t) = all[i]
  BY <1>1, LastByIdIsTask
<1>4. PICK k \in 1..Len(all) : all[k].id = t /\ ById(all, t) = all[k]
  BY <1>1, ByIdIsTask
<1>5. i = k
  BY <1>2, <1>3, <1>4
<1> QED
  BY <1>3, <1>4, <1>5 DEF LastNeeds, Needs

(* The names of a cycle cannot be ranked. *)
LEMMA CycleHasNoRanks ==
  ASSUME NEW all \in Seq(Task), Cardinality(Ids(all)) = Len(all),
         NEW c \in Seq(Ids(all)), IsCycle(all, c)
  PROVE  ToSet(KahnOrder(all)) # Ids(all)
<1> DEFINE L == Len(c)
           I == Ids(all)
<1> SUFFICES ASSUME ToSet(KahnOrder(all)) = I PROVE FALSE
  OBVIOUS
<1>1. IsGraph(all) /\ Sound(all, KahnOrder(all))
  BY NodeIsGraph, KahnSound
<1>2. PICK rank : Ranks(all, rank)
  BY <1>1, OrderRanks
<1>3. /\ L \in Nat /\ DOMAIN c = 1..L /\ L > 1 /\ c[1] = c[L]
      /\ \A i \in 1..(L - 1) : c[i + 1] \in LastNeeds(all, c[i])
  BY LenProperties DEF IsCycle, LastNeeds
<1>4. \A i \in 1..L : c[i] \in I
  BY <1>3, ElementOfSeq
<1> HIDE DEF L
<1>5. ASSUME NEW i \in 1..(L - 1)
      PROVE  rank[c[i]] \in Nat /\ rank[c[i + 1]] \in Nat /\ rank[c[i + 1]] < rank[c[i]]
  <2>1. i \in 1..L /\ i + 1 \in 1..L
    BY <1>3
  <2>2. c[i] \in I /\ c[i + 1] \in I
    BY <1>4, <2>1
  <2>3. c[i + 1] \in Needs(all, c[i])
    BY <1>3, <2>2, LastIsOnly
  <2> QED
    BY <1>2, <2>2, <2>3 DEF Ranks
<1> DEFINE Bad == {i \in 2..L : ~ (rank[c[i]] \in Nat /\ rank[c[i]] < rank[c[1]])}
<1>6. Bad = {}
  <2> SUFFICES ASSUME Bad # {} PROVE FALSE
    OBVIOUS
  <2>1. PICK m \in Bad : \A k \in Bad : m <= k
    <3>1. Bad \in SUBSET Nat
      BY <1>3
    <3> HIDE DEF Bad
    <3> QED
      BY <3>1, LeastNat
  <2> DEFINE p == m - 1
  <2>2. p \in 1..(L - 1) /\ p + 1 = m /\ p < m /\ (p = 1 \/ p \in 2..L)
    BY <1>3, <2>1
  <2> HIDE DEF p
  <2>3. rank[c[p]] \in Nat /\ rank[c[m]] \in Nat /\ rank[c[m]] < rank[c[p]]
    BY <1>5, <2>2
  <2>4. rank[c[1]] \in Nat
    BY <1>2, <1>3, <1>4 DEF Ranks
  <2>5. CASE p = 1
    BY <2>1, <2>3, <2>5
  <2>6. CASE p \in 2..L
    <3>1. p \notin Bad
      <4>1. p \in Nat /\ m \in Nat
        BY <1>3, <2>1, <2>6
      <4> QED
        BY <2>1, <2>2, <4>1
    <3>2. rank[c[p]] < rank[c[1]]
      BY <2>6, <3>1
    <3>3. \A x, y, z \in Nat : x < y /\ y < z => x < z
      OBVIOUS
    <3>4. rank[c[m]] < rank[c[1]]
      BY <2>3, <2>4, <3>2, <3>3
    <3> QED
      BY <2>1, <2>3, <3>4
  <2> QED
    BY <2>2, <2>5, <2>6
<1>7. L \in 2..L /\ rank[c[L]] < rank[c[1]]
  BY <1>3, <1>6
<1>8. rank[c[1]] \in Nat
  BY <1>2, <1>3, <1>4 DEF Ranks
<1> QED
  BY <1>3, <1>7, <1>8

(* The depth-first search finds a cycle where Kahn's count leaves names over. *)
LEMMA SearchAgrees ==
  ASSUME NEW all \in Seq(Task), Cardinality(Ids(all)) = Len(all)
  PROVE  FindCycle(all) = <<>> <=> ToSet(KahnOrder(all)) = Ids(all)
<1>1. ASSUME FindCycle(all) # <<>> PROVE ToSet(KahnOrder(all)) # Ids(all)
  <2>1. FindCycle(all) \in Seq(Ids(all)) /\ IsCycle(all, FindCycle(all))
    BY <1>1, FindCycleIsRight
  <2> QED
    BY <2>1, CycleHasNoRanks
<1>2. ASSUME FindCycle(all) = <<>> PROVE ToSet(KahnOrder(all)) = Ids(all)
  <2>1. PICK rank : RanksDone(all, Ids(all), rank)
    BY <1>2, FindCycleIsRight
  <2>2. \A t \in Ids(all) : LastNeeds(all, t) = Needs(all, t)
    BY LastIsOnly
  <2>3. Ranks(all, rank)
    BY <2>1, <2>2 DEF Ranks, RanksDone
  <2> QED
    BY <2>3, NodeIsGraph, KahnComplete
<1> QED
  BY <1>1, <1>2

(* The reasons, one by one. *)
OfItself(all)  == \E t \in {all[i] : i \in DOMAIN all} : t.id \in ToSet(t.needs)
Repeating(all) == \E t \in {all[i] : i \in DOMAIN all} : ~ NoRepeats(t.needs)
OfNone(all)    == \E t \in {all[i] : i \in DOMAIN all} : ~ ToSet(t.needs) \subseteq Ids(all)
NamedTwice(all) == Cardinality(Ids(all)) # Len(all)
LeftOver(all)  == Len(KahnOrder(all)) # Cardinality(Ids(all))

LEMMA ReasonsOf ==
  ASSUME NEW all, NEW reason
  PROVE  reason \in Refusals(all) <=>
           \/ reason = "no task" /\ all = <<>>
           \/ reason = "duplicate id" /\ NamedTwice(all)
           \/ reason = "self" /\ OfItself(all)
           \/ reason = "repeats" /\ Repeating(all)
           \/ reason = "unknown" /\ OfNone(all)
           \/ reason = "cycle" /\ LeftOver(all)
  BY Zenon DEF Refusals, NamedTwice, OfItself, Repeating, OfNone, LeftOver

LEMMA CodesOf ==
  ASSUME NEW all \in Seq(Task), NEW code
  PROVE  code \in Validate(all) <=>
           \/ code = "E002" /\ all = <<>>
           \/ code = "E100" /\ NamedTwice(all)
           \/ code = "E102" /\ OfItself(all)
           \/ code = "E103" /\ Repeating(all)
           \/ code = "E104" /\ OfNone(all)
           \/ code = "E200" /\ FindCycle(all) # <<>>
<1>1. (\E i, k \in DOMAIN all : i < k /\ all[i].id = all[k].id) <=> NamedTwice(all)
  <2>1. IsGraph(all) /\ Len(all) \in Nat /\ DOMAIN all = 1..Len(all)
    BY NodeIsGraph
  <2>2. Cardinality(Ids(all)) = Len(all)
          <=> \A i, k \in 1..Len(all) : all[i].id = all[k].id => i = k
    BY <2>1, GraphIds
  <2>3. \A i, k \in 1..Len(all) : i = k \/ i < k \/ k < i
    BY <2>1
  <2>4. \A i, k \in 1..Len(all) : i < k => i # k
    BY <2>1
  <2> QED
    BY <2>1, <2>2, <2>3, <2>4 DEF NamedTwice
<1> QED
  BY <1>1, Zenon DEF Validate, OfItself, Repeating, OfNone

LEMMA SameReasons ==
  ASSUME NEW all \in Seq(Task)
  PROVE  /\ "E002" \in Validate(all) <=> "no task" \in Refusals(all)
         /\ "E100" \in Validate(all) <=> "duplicate id" \in Refusals(all)
         /\ "E102" \in Validate(all) <=> "self" \in Refusals(all)
         /\ "E103" \in Validate(all) <=> "repeats" \in Refusals(all)
         /\ "E104" \in Validate(all) <=> "unknown" \in Refusals(all)
         /\ "E200" \in Validate(all) <=> FindCycle(all) # <<>>
         /\ "duplicate id" \in Refusals(all) <=> NamedTwice(all)
         /\ "cycle" \in Refusals(all) <=> LeftOver(all)
<1>2. "E002" \in Validate(all) <=> "no task" \in Refusals(all)
  BY CodesOf, ReasonsOf, Zenon
<1>3. "E100" \in Validate(all) <=> "duplicate id" \in Refusals(all)
  BY CodesOf, ReasonsOf, Zenon
<1>4. "E102" \in Validate(all) <=> "self" \in Refusals(all)
  BY CodesOf, ReasonsOf, Zenon
<1>5. "E103" \in Validate(all) <=> "repeats" \in Refusals(all)
  BY CodesOf, ReasonsOf, Zenon
<1>6. "E104" \in Validate(all) <=> "unknown" \in Refusals(all)
  BY CodesOf, ReasonsOf, Zenon
<1>7. "E200" \in Validate(all) <=> FindCycle(all) # <<>>
  BY CodesOf, Zenon
<1>8. "duplicate id" \in Refusals(all) <=> NamedTwice(all)
  <2>1. "E100" \in Validate(all) <=> NamedTwice(all)
    BY CodesOf
  <2> QED
    BY <1>3, <2>1, Zenon
<1>9. "cycle" \in Refusals(all) <=> LeftOver(all)
  BY ReasonsOf, Zenon
<1> QED
  BY <1>2, <1>3, <1>4, <1>5, <1>6, <1>7, <1>8, <1>9, Zenon

LEMMA FoundIsLeft ==
  ASSUME NEW all \in Seq(Task), ~ NamedTwice(all)
  PROVE  /\ LeftOver(all) <=> FindCycle(all) # <<>>
         /\ LeftOver(all) <=> Cyclic(all)
<1>1. LeftOver(all) <=> ToSet(KahnOrder(all)) # Ids(all)
  BY NodeIsGraph, KahnSound, SoundCount DEF LeftOver
<1>2. FindCycle(all) = <<>> <=> ToSet(KahnOrder(all)) = Ids(all)
  BY SearchAgrees DEF NamedTwice
<1>3. ToSet(KahnOrder(all)) = Ids(all) <=> ~ Cyclic(all)
  BY NodeIsGraph, AcyclicIsComplete DEF Cyclic
<1> QED
  BY <1>1, <1>2, <1>3

(* Nothing to say in the one is nothing to say in the other. *)
LEMMA BothOrNeither ==
  ASSUME NEW all \in Seq(Task)
  PROVE  Validate(all) = {} <=> Refusals(all) = {}
<1>1. ~ NamedTwice(all) => (LeftOver(all) <=> FindCycle(all) # <<>>)
  BY FoundIsLeft
<1>2. Validate(all) = {} <=>
        /\ "E002" \notin Validate(all) /\ "E100" \notin Validate(all)
        /\ "E102" \notin Validate(all) /\ "E103" \notin Validate(all)
        /\ "E104" \notin Validate(all) /\ "E200" \notin Validate(all)
  <2>1. Validate(all) \in SUBSET {"E002", "E100", "E102", "E103", "E104", "E200"}
    BY DEF Validate
  <2> QED
    BY <2>1
<1>3. Refusals(all) = {} <=>
        /\ "no task" \notin Refusals(all) /\ "duplicate id" \notin Refusals(all)
        /\ "self" \notin Refusals(all) /\ "repeats" \notin Refusals(all)
        /\ "unknown" \notin Refusals(all) /\ "cycle" \notin Refusals(all)
  BY Zenon DEF Refusals
<1> QED
  BY <1>1, <1>2, <1>3, SameReasons, Zenon

(* What ValidatorsAgree says of one graph. *)
Agrees(all) ==
  LET errors  == Validate(all)
      refused == Refusals(all)
      out     == Compile(all) IN
  /\ \A code \in DOMAIN CodeOf : code \in errors <=> CodeOf[code] \in refused
  /\ "duplicate id" \notin refused =>
       /\ "E200" \in errors <=> "cycle" \in refused
       /\ "E200" \in errors <=> Cyclic(all)
  /\ "E200" \in errors => IsCycle(all, FindCycle(all))
  /\ out.ok <=> refused = {}
  /\ out.ok => Ordered([i \in DOMAIN out.tasks |-> out.tasks[i].id], all)

(* What is compiled comes after what it needs. *)
LEMMA CompiledIsOrdered ==
  ASSUME NEW all \in Seq(Task), Refusals(all) = {}
  PROVE  LET out == Compile(all) IN
         out.ok /\ Ordered([i \in DOMAIN out.tasks |-> out.tasks[i].id], all)
<1> DEFINE o == KahnOrder(all)
           t == [i \in DOMAIN o |-> ById(all, o[i])]
<1>1. IsGraph(all) /\ DOMAIN all = 1..Len(all)
  BY NodeIsGraph
<1>2. ValidDag(all)
  BY DEF ValidDag
<1>3. /\ Cardinality(Ids(all)) = Len(all)
      /\ \A i \in 1..Len(all) : ToSet(all[i].needs) \subseteq Ids(all)
      /\ ToSet(o) = Ids(all)
  BY <1>1, <1>2, ValidDagMeans, Zenon
<1>4. Sound(all, o)
  BY <1>1, KahnSound
<1>5. o \in Seq(Ids(all)) /\ Len(o) \in Nat /\ DOMAIN o = 1..Len(o)
  BY <1>4, LenProperties DEF Sound
<1>6. Len(o) = Len(all)
  BY <1>1, <1>3, <1>4, SoundCount
<1> HIDE DEF o
<1>7. Compile(all) = [ok |-> TRUE, tasks |-> t]
  <2>1. Validate(all) = {}
    BY BothOrNeither
  <2>2. TopologicalOrder(all).order = o
    BY <1>6 DEF TopologicalOrder, o
  <2> QED
    BY <2>1, <2>2 DEF Compile
<1>8. \A i \in 1..Len(o) : t[i].id = o[i]
  <2> TAKE i \in 1..Len(o)
  <2>1. o[i] \in Ids(all)
    BY <1>5, ElementOfSeq
  <2>2. \E k \in DOMAIN all : all[k].id = o[i] /\ ById(all, o[i]) = all[k]
    BY <2>1, ByIdIsTask
  <2> QED
    BY <1>5, <2>2
<1>9. [i \in DOMAIN t |-> t[i].id] = o
  <2>1. DOMAIN t = 1..Len(o)
    BY <1>5
  <2>2. o = [i \in 1..Len(o) |-> o[i]]
    BY <1>5
  <2> HIDE DEF t
  <2> QED
    BY <1>8, <2>1, <2>2
<1>10. \A u \in Ids(all) : Needs(all, u) \in SUBSET Ids(all)
  <2> TAKE u \in Ids(all)
  <2>1. PICK k \in 1..Len(all) : ById(all, u) = all[k]
    BY <1>1, ByIdIsTask
  <2> QED
    BY <1>3, <2>1 DEF Needs
<1>11. ASSUME NEW u \in Ids(all), NEW d \in Needs(all, u) PROVE Before(o, d, u)
  <2>1. PICK k \in 1..Len(o) : o[k] = u
    BY <1>3, <1>5 DEF ToSet
  <2>2. PICK i \in 1..(k - 1) : o[i] = d
    BY <1>4, <1>10, <2>1 DEF Sound
  <2>3. i \in 1..Len(o) /\ i < k
    BY <1>5
  <2> QED
    BY <1>5, <2>1, <2>2, <2>3 DEF Before
<1>12. Ordered(o, all)
  BY <1>3, <1>6, <1>11 DEF Ordered
<1> HIDE DEF t
<1> QED
  BY <1>7, <1>9, <1>12

(* The DSL's validate, by depth-first search, and the coordinator's, by
   counting, agree on every node that can be written: any names, any
   dependencies.  What is found is a cycle, and what is compiled is ordered. *)
THEOREM ValidatorsAgreeOnAll == \A all \in Seq(Task) : Agrees(all)
<1> TAKE all \in Seq(Task)
<1> DEFINE errors  == Validate(all)
           refused == Refusals(all)
           out     == Compile(all)
<1>1. \A code \in DOMAIN CodeOf : code \in errors <=> CodeOf[code] \in refused
  <2>1. DOMAIN CodeOf = {"E002", "E100", "E102", "E103", "E104"}
    BY Zenon DEF CodeOf
  <2>2. /\ CodeOf["E002"] = "no task" /\ CodeOf["E100"] = "duplicate id"
        /\ CodeOf["E102"] = "self" /\ CodeOf["E103"] = "repeats"
        /\ CodeOf["E104"] = "unknown"
    BY Zenon DEF CodeOf
  <2> QED
    BY <2>1, <2>2, SameReasons, Zenon
<1>2. "duplicate id" \notin refused =>
        /\ "E200" \in errors <=> "cycle" \in refused
        /\ "E200" \in errors <=> Cyclic(all)
  <2>1. ASSUME ~ NamedTwice(all)
        PROVE  /\ LeftOver(all) <=> FindCycle(all) # <<>>
               /\ LeftOver(all) <=> Cyclic(all)
    BY <2>1, FoundIsLeft
  <2> QED
    BY <2>1, SameReasons, Zenon
<1>3. "E200" \in errors => IsCycle(all, FindCycle(all))
  <2>1. FindCycle(all) # <<>> => IsCycle(all, FindCycle(all))
    BY FindCycleIsRight
  <2> QED
    BY <2>1, SameReasons, Zenon
<1>4. out.ok <=> refused = {}
  <2>1. out.ok <=> errors = {}
    BY DEF Compile
  <2> QED
    BY <2>1, BothOrNeither
<1>5. out.ok => Ordered([i \in DOMAIN out.tasks |-> out.tasks[i].id], all)
  BY <1>4, CompiledIsOrdered
<1> HIDE DEF errors, refused, out
<1> QED
  BY <1>1, <1>2, <1>3, <1>4, <1>5, Zenon DEF Agrees, errors, refused, out

(* What the runs give the validators is such a node: the builder's graph, and
   that with one more task. *)
LEMMA PerturbedIsNode ==
  ASSUME IInv
  PROVE  Perturbed \in SUBSET Seq(Task)
<1>1. tasks \in Seq(Task)
  BY DEF IInv, IsBuilt
<1>2. Ids(tasks) \in SUBSET Nat
  BY <1>1, NodeIsGraph, GraphIds
<1>3. \A d \in Ids(tasks) \cup {Unknown} :
        d \in Nat /\ <<d>> \in Seq(Nat) /\ <<d, d>> \in Seq(Nat)
  BY <1>2, UnknownAssumption
<1>4. \A task \in Another : task \in Task
  BY <1>3 DEF Another, Task
<1>5. \A task \in Another : Append(tasks, task) \in Seq(Task)
  BY <1>1, <1>4, AppendProperties
<1> QED
  BY <1>1, <1>5 DEF Perturbed

(* For every graph the builder can come to, and every such graph with one more
   task that the builder would refuse: the DSL and the coordinator refuse it
   for the same reasons. *)
THEOREM ValidatorsAreOne == Spec => []ValidatorsAgree
<1>1. IInv => ValidatorsAgree
  <2> SUFFICES ASSUME IInv PROVE ValidatorsAgree
    OBVIOUS
  <2>1. \A all \in Perturbed : Agrees(all)
    BY PerturbedIsNode, ValidatorsAgreeOnAll
  <2> QED
    BY <2>1, Zenon DEF ValidatorsAgree, Agrees
<1> QED
  BY <1>1, BuilderTypes, PTL
=============================================================================
