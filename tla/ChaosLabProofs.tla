---------------------------- MODULE ChaosLabProofs ----------------------------
(***************************************************************************)
(* The chaos lab's reference model, for every workflow the generator can   *)
(* draw, every number of workers and every length of a scenario.           *)
(*                                                                         *)
(* A method is a function from a model to a model, so most lemmas are      *)
(* about a value a and the value b it becomes: the invariant Core is kept, *)
(* and b Eases a, the relation of everything that gives no lease and no    *)
(* result.  The loops of the methods are folds; a fold keeps what each of  *)
(* its turns keeps (FoldExists, FoldHolds).                                *)
(***************************************************************************)
EXTENDS ChaosLab, DagProofs

-----------------------------------------------------------------------------
(* The values a model is made of. *)

States == {"PENDING", "READY", "LEASED", "RUNNING", "RETRY_WAIT",
           "SUCCEEDED", "FAILED", "CANCELLED"}

Instant == Nat \cup {Nil}

TokenSet == Nat \X Nat

Labels == SUBSET UNION LabelSets

Tables(D, R) == UNION {[S -> R] : S \in SUBSET D}

RetryRecord == [attempts : 1..100, base : Nat, max : Nat]

TaskRecord ==
  [wf : {FirstWorkflow}, needs : SUBSET TaskId, labels : Labels,
   retry : RetryRecord, state : States, attempt : Nat,
   token : TokenSet \cup {NoToken}, owner : Nat \cup {NoOwner},
   until : Instant, retryAt : Instant, started : Instant, finished : Instant,
   output : 0..OutputLimit]

WorkflowRecord ==
  [order : Seq(TaskId), created : Nat, state : Final \cup Open, finished : Instant]

WorkerRecord ==
  [capacity : 1..256, labels : Labels, heartbeat : Nat,
   active : SUBSET TokenSet, dropped : BOOLEAN]

LeaseRecord ==
  [token : TokenSet, wf : {FirstWorkflow}, task : TaskId, worker : Nat,
   attempt : Nat, acquired : Nat, expires : Nat]

Model ==
  [now : Nat, counter : Nat, workflows : [{FirstWorkflow} -> WorkflowRecord],
   tasks : Tables(TaskId, TaskRecord), workers : Tables(Nat, WorkerRecord),
   leases : SUBSET LeaseRecord, closed : SUBSET TokenSet]

-----------------------------------------------------------------------------
(* The inductive invariant of a model, in parts. *)

(* A lease and the task it is for say the same. *)
LeaseAgrees(a, l) ==
  /\ l.task \in DOMAIN a.tasks /\ l.worker \in DOMAIN a.workers
  /\ a.tasks[l.task].state \in Held
  /\ a.tasks[l.task].token = l.token
  /\ a.tasks[l.task].owner = l.worker
  /\ a.tasks[l.task].until = l.expires
  /\ l.acquired < l.expires /\ l.acquired <= a.now

LeasesAgree(a) ==
  /\ IsFiniteSet(a.leases)
  /\ \A l \in a.leases : LeaseAgrees(a, l)
  /\ \A k, l \in a.leases : k.token = l.token => k = l
  /\ \A t \in DOMAIN a.tasks :
       a.tasks[t].state \in Held => \E l \in a.leases : l.task = t

(* Every token there is, or was, was numbered by the counter; none is open and
   closed. *)
TokensAgree(a) ==
  /\ \A k \in Tokens(a) \cup a.closed : k[1] <= a.counter
  /\ Tokens(a) \cap a.closed = {}

(* What a worker counts against its capacity are leases of its own. *)
WorkersAgree(a) ==
  \A w \in DOMAIN a.workers :
    /\ \A k \in a.workers[w].active : \E l \in a.leases : l.token = k /\ l.worker = w
    /\ Cardinality(a.workers[w].active) <= a.workers[w].capacity

TaskAgrees(r, now) ==
  /\ r.state \notin Held => r.token = NoToken /\ r.owner = NoOwner /\ r.until = Nil
  /\ r.state = "PENDING" => r.attempt = 0
  /\ r.state \in Held => r.attempt >= 1
  /\ r.state = "RETRY_WAIT" <=> r.retryAt # Nil
  /\ r.state \in {"PENDING", "READY", "LEASED", "RUNNING"} => r.finished = Nil
  /\ r.started <= now /\ r.finished <= now
  /\ r.finished # Nil => r.started <= r.finished

TasksAgree(a) == \A t \in DOMAIN a.tasks : TaskAgrees(a.tasks[t], a.now)

NeedsDone(a) ==
  \A t \in DOMAIN a.tasks :
    a.tasks[t].state \in Active \cup {"SUCCEEDED"} =>
      \A d \in a.tasks[t].needs : a.tasks[d].state = "SUCCEEDED"

(* The order names every task once, after what it needs. *)
IsOrder(a, o) ==
  /\ \A t \in DOMAIN a.tasks : \E i \in 1..Len(o) : o[i] = t
  /\ \A i \in 1..Len(o) : o[i] \in DOMAIN a.tasks
  /\ \A i, k \in 1..Len(o) : o[i] = o[k] => i = k
  /\ \A k \in 1..Len(o) : \A d \in a.tasks[o[k]].needs : \E i \in 1..(k - 1) : o[i] = d

Flow(a) == a.workflows[FirstWorkflow]

FlowAgrees(a) ==
  /\ IsOrder(a, Flow(a).order)
  /\ Flow(a).created <= a.now
  /\ Flow(a).state \in Final <=> Flow(a).finished # Nil
  /\ Flow(a).finished # Nil => Flow(a).created <= Flow(a).finished

(* Of a workflow that is over every task is. *)
Quiet(a) ==
  /\ Flow(a).state \in Final => \A t \in DOMAIN a.tasks : a.tasks[t].state \in Final
  /\ Flow(a).state = "SUCCEEDED" => \A t \in DOMAIN a.tasks : a.tasks[t].state = "SUCCEEDED"

Core(a) ==
  /\ a \in Model
  /\ LeasesAgree(a) /\ TokensAgree(a) /\ WorkersAgree(a)
  /\ TasksAgree(a) /\ NeedsDone(a) /\ FlowAgrees(a)

(* Between two methods no lease is over, and while the run goes on every lease
   is in its worker's list and no budget is spent. *)
Live(a) == \A l \in a.leases : l.expires > a.now

Indexed(a) == \A l \in a.leases : l.token \in a.workers[l.worker].active

WithinBudget(a) ==
  \A t \in DOMAIN a.tasks : a.tasks[t].attempt <= a.tasks[t].retry.attempts

-----------------------------------------------------------------------------
(* Recursions over the subsets of a finite set, which is what the folds of
   the library are: C chooses the element of a subset that comes last, and F
   is what the turn of an element makes of a value.  Q is what is known of a
   value, and of the elements that had their turn. *)

Folds(T, C, x, F, g) ==
  [s \in SUBSET T |-> IF s = {} THEN x ELSE F[C[s]][g[s \ {C[s]}]]]

Chooses(C, T) == \A s \in SUBSET T : s # {} => C[s] \in s

LEMMA SmallerSet ==
  ASSUME NEW T, IsFiniteSet(T), NEW s \in SUBSET T, NEW e \in s
  PROVE  /\ s \ {e} \in SUBSET T /\ IsFiniteSet(s)
         /\ Cardinality(s) \in Nat /\ Cardinality(s \ {e}) \in Nat
         /\ Cardinality(s \ {e}) = Cardinality(s) - 1
<1>1. IsFiniteSet(s)
  BY FS_Subset
<1>2. IsFiniteSet(s \ {e}) /\ Cardinality(s \ {e}) = Cardinality(s) - 1
  BY <1>1, FS_RemoveElement
<1> QED
  BY <1>1, <1>2, FS_CardinalityType

(* By induction on the size of the subset. *)
LEMMA FoldHolds ==
  ASSUME NEW T, IsFiniteSet(T), NEW C, Chooses(C, T), NEW h, NEW Q,
         <<{}, h[{}]>> \in Q,
         \A s \in SUBSET T :
           s # {} /\ <<s \ {C[s]}, h[s \ {C[s]}]>> \in Q => <<s, h[s]>> \in Q
  PROVE  \A s \in SUBSET T : <<s, h[s]>> \in Q
<1> DEFINE Wrong == {s \in SUBSET T : <<s, h[s]>> \notin Q}
           Bad == {Cardinality(s) : s \in Wrong}
<1> SUFFICES ASSUME Wrong # {} PROVE FALSE
  OBVIOUS
<1>1. Bad \in SUBSET Nat /\ Bad # {}
  <2>1. \A s \in SUBSET T : Cardinality(s) \in Nat
    BY FS_Subset, FS_CardinalityType
  <2>2. \A s \in Wrong : Cardinality(s) \in Nat
    BY <2>1
  <2> HIDE DEF Wrong
  <2> QED
    BY <2>2, Zenon
<1>2. PICK n \in Bad : \A k \in Bad : n <= k
  <2> HIDE DEF Bad
  <2> QED
    BY <1>1, LeastNat
<1>3. PICK s \in Wrong : Cardinality(s) = n
  OBVIOUS
<1>4. s # {} /\ s \in SUBSET T /\ C[s] \in s
  BY <1>3 DEF Chooses
<1>5. /\ s \ {C[s]} \in SUBSET T /\ Cardinality(s \ {C[s]}) \in Nat /\ n \in Nat
      /\ Cardinality(s \ {C[s]}) = n - 1
  BY <1>3, <1>4, SmallerSet
<1>6. s \ {C[s]} \notin Wrong
  <2>1. n - 1 \notin Bad
    <3> HIDE DEF Bad
    <3> QED
      BY <1>2, <1>5
  <2> HIDE DEF Wrong
  <2> QED
    BY <1>5, <2>1, Zenon
<1> QED
  BY <1>3, <1>4, <1>5, <1>6

LEMMA FoldExists ==
  ASSUME NEW T, IsFiniteSet(T), NEW C, Chooses(C, T), NEW x, NEW F
  PROVE  \E g : g = Folds(T, C, x, F, g)
<1> DEFINE Small(n) == {s \in SUBSET T : Cardinality(s) <= n}
           Value(g, s) == IF s = {} THEN x ELSE F[C[s]][g[s \ {C[s]}]]
           Solves(g, n) == g = [s \in Small(n) |-> Value(g, s)]
           N == Cardinality(T)
           Bad == {n \in 0..N : ~ \E g : Solves(g, n)}
<1>1. N \in Nat /\ \A s \in SUBSET T : Cardinality(s) \in Nat /\ Cardinality(s) <= N
  BY FS_Subset, FS_CardinalityType
<1>2. \A s \in SUBSET T : s # {} =>
        /\ C[s] \in s /\ s \ {C[s]} \in SUBSET T
        /\ Cardinality(s \ {C[s]}) = Cardinality(s) - 1
  BY SmallerSet DEF Chooses
<1>3. \A s \in SUBSET T : s # {} => Cardinality(s) >= 1
  <2> TAKE s \in SUBSET T
  <2> HAVE s # {}
  <2>1. s \ {C[s]} \in SUBSET T /\ Cardinality(s \ {C[s]}) = Cardinality(s) - 1
    BY <1>2
  <2>2. Cardinality(s) \in Nat /\ Cardinality(s \ {C[s]}) \in Nat
    BY <1>1, <2>1
  <2> QED
    BY <2>1, <2>2
<1>4. SUFFICES ASSUME Bad # {} PROVE FALSE
  <2>1. N \in 0..N
    BY <1>1
  <2>2. PICK g : Solves(g, N)
    BY <2>1
  <2>3. Small(N) = SUBSET T
    BY <1>1
  <2>4. g = Folds(T, C, x, F, g)
    BY <2>2, <2>3 DEF Folds
  <2> QED
    BY <2>4
<1>5. PICK n \in Bad : \A k \in Bad : n <= k
  <2>1. Bad \in SUBSET Nat
    OBVIOUS
  <2> HIDE DEF Bad
  <2> QED
    BY <1>4, <2>1, LeastNat
<1>6. n \in 0..N /\ ~ \E g : Solves(g, n)
  OBVIOUS
<1>7. CASE n = 0
  <2> DEFINE g == [s \in Small(0) |-> x]
  <2>1. \A s \in Small(0) : s = {}
    BY <1>1, <1>3
  <2>2. g = [s \in Small(0) |-> Value(g, s)]
    BY <2>1
  <2> HIDE DEF g, Value, Small
  <2> QED
    BY <1>6, <1>7, <2>2
<1>8. CASE n # 0
  <2>1. n - 1 \in 0..N /\ n - 1 < n
    BY <1>1, <1>6, <1>8
  <2>2. n - 1 \notin Bad
    <3> HIDE DEF Bad
    <3> QED
      BY <1>5, <1>6, <2>1
  <2>3. PICK g : Solves(g, n - 1)
    BY <2>1, <2>2
  <2> DEFINE h == [s \in Small(n) |-> Value(g, s)]
  <2>4. \A s \in Small(n - 1) : s \in Small(n) /\ g[s] = Value(g, s)
    <3>1. \A s \in Small(n - 1) : s \in Small(n)
      BY <1>1, <1>6, <2>1
    <3>2. \A s \in Small(n - 1) : g[s] = Value(g, s)
      <4> HIDE DEF Value, Small
      <4> QED
        BY <2>3
    <3> QED
      BY <3>1, <3>2
  <2>5. \A s \in Small(n - 1) : h[s] = g[s]
    <3> HIDE DEF Value, Small
    <3> QED
      BY <2>4
  <2>6. \A s \in Small(n) : s # {} => s \ {C[s]} \in Small(n - 1)
    BY <1>1, <1>2, <1>6, <2>1
  <2>7. \A s \in Small(n) : Value(g, s) = Value(h, s)
    <3> HIDE DEF Small, h
    <3> QED
      BY <2>5, <2>6
  <2>8. h = [s \in Small(n) |-> Value(h, s)]
    <3>1. h = [s \in Small(n) |-> Value(g, s)]
      OBVIOUS
    <3> HIDE DEF Small, h, Value
    <3> QED
      BY <2>7, <3>1
  <2> HIDE DEF h, Value, Small
  <2> QED
    BY <1>6, <2>8
<1> QED
  BY <1>7, <1>8

-----------------------------------------------------------------------------
(* Retry policies. *)

LEMMA NormalizedIsRecord ==
  ASSUME NEW p, p.attempts \in Int, p.base \in Int, p.max \in Int
  PROVE  Normalized(p) \in RetryRecord
<1> DEFINE one == 1
           base == Max({one, p.base})
           tried == Max({one, p.attempts})
           most == 100
<1>1. one \in Int /\ most \in Int
  OBVIOUS
<1>2. Normalized(p) = [attempts |-> Min({most, tried}), base |-> base,
                       max |-> Max({base, p.max})]
  BY DEF Normalized
<1> HIDE DEF one, most
<1>3. base = IF one <= p.base THEN p.base ELSE one
  BY <1>1, LeastOfTwo
<1>4. tried = IF one <= p.attempts THEN p.attempts ELSE one
  BY <1>1, LeastOfTwo
<1>5. base \in Nat /\ tried \in Nat \ {0}
  BY <1>3, <1>4 DEF one
<1> HIDE DEF base, tried
<1>6. Min({most, tried}) = IF most <= tried THEN most ELSE tried
  BY <1>1, <1>5, LeastOfTwo
<1>7. Max({base, p.max}) = IF base <= p.max THEN p.max ELSE base
  BY <1>5, LeastOfTwo
<1>8. Min({most, tried}) \in 1..100 /\ Max({base, p.max}) \in Nat
  BY <1>5, <1>6, <1>7 DEF most
<1> QED
  BY <1>2, <1>5, <1>8 DEF RetryRecord

LEMMA BackoffIsTime ==
  ASSUME NEW q \in RetryRecord, NEW n \in Nat
  PROVE  Backoff(q, n) \in Nat
<1> DEFINE zero == 0
           T == Max({zero, n - 1})
           To(g) == [i \in 0..T |-> IF i = 0 THEN q.base ELSE Doubled(g[i - 1], q.max)]
           after == CHOOSE g : g = To(g)
           D == [y \in Nat |-> Doubled(y, q.max)]
           F == [i \in 1..T |-> D]
<1>1. q.base \in Nat /\ q.max \in Nat
  BY DEF RetryRecord
<1>2. Backoff(q, n) = after[T]
  BY DEF Backoff
<1>3. T \in Nat
  <2>1. zero \in Int /\ n - 1 \in Int
    OBVIOUS
  <2>2. T = IF zero <= n - 1 THEN n - 1 ELSE zero
    <3> HIDE DEF zero
    <3> QED
      BY <2>1, LeastOfTwo
  <2> QED
    BY <2>2
<1> HIDE DEF T
<1>4. \A y \in Nat : Doubled(y, q.max) \in Nat
  <2> TAKE y \in Nat
  <2>1. 2 * y \in Nat
    OBVIOUS
  <2> DEFINE x == 2 * y
  <2>2. x \in Nat /\ Doubled(y, q.max) = Min({q.max, x})
    BY <2>1 DEF Doubled
  <2> HIDE DEF x
  <2> QED
    BY <1>1, <2>2, LeastOfTwo
<1>5. F \in [1..T -> [Nat -> Nat]]
  BY <1>4
<1>6. \A i \in 1..T : \A y \in Nat : F[i][y] = Doubled(y, q.max)
  OBVIOUS
<1> HIDE DEF F, D
<1>7. PICK g : Turns(g, Nat, q.base, T, F)
  BY <1>1, <1>3, <1>5, RecursionExists
<1>8. g = To(g)
  <2>1. g \in [0..T -> Nat] /\ g[0] = q.base /\ \A i \in 1..T : g[i] = F[i][g[i - 1]]
    BY <1>7 DEF Turns
  <2>2. \A i \in 1..T : g[i] = Doubled(g[i - 1], q.max)
    BY <1>3, <1>6, <2>1
  <2>3. \A i \in 0..T : g[i] = IF i = 0 THEN q.base ELSE Doubled(g[i - 1], q.max)
    BY <1>3, <2>1, <2>2
  <2> QED
    BY <2>1, <2>3
<1>9. after = To(after)
  <2> HIDE DEF To
  <2> QED
    BY <1>8
<1> HIDE DEF after
<1>10. /\ after[0] = q.base
       /\ \A i \in 1..T : after[i] = Doubled(after[i - 1], q.max)
  <2>1. \A i \in 0..T : To(after)[i] = IF i = 0 THEN q.base ELSE Doubled(after[i - 1], q.max)
    OBVIOUS
  <2> HIDE DEF To
  <2>2. \A i \in 0..T : after[i] = IF i = 0 THEN q.base ELSE Doubled(after[i - 1], q.max)
    BY <1>9, <2>1
  <2> QED
    BY <1>3, <2>2
<1> DEFINE Bad == {i \in 0..T : after[i] \notin Nat}
<1>11. Bad = {}
  <2> SUFFICES ASSUME Bad # {} PROVE FALSE
    OBVIOUS
  <2>1. Bad \in SUBSET Nat
    OBVIOUS
  <2>2. PICK i \in Bad : \A k \in Bad : i <= k
    <3> HIDE DEF Bad
    <3> QED
      BY <2>1, LeastNat
  <2>3. i \in 1..T /\ after[i] \notin Nat
    BY <1>1, <1>3, <1>10
  <2>4. i - 1 \in 0..T /\ i - 1 \notin Bad
    <3>1. i - 1 \in 0..T /\ i - 1 < i
      BY <1>3, <2>3
    <3> HIDE DEF Bad
    <3> QED
      BY <2>2, <2>3, <3>1
  <2> QED
    BY <1>4, <1>10, <2>3, <2>4
<1> QED
  BY <1>2, <1>3, <1>11

LEMMA DelayIsTime ==
  ASSUME NEW q \in RetryRecord, NEW n \in Nat
  PROVE  Delay(q, n) \in Nat
<1>1. q.attempts \in Int /\ q.base \in Int /\ q.max \in Int
  BY DEF RetryRecord
<1> QED
  BY <1>1, NormalizedIsRecord, BackoffIsTime DEF Delay

-----------------------------------------------------------------------------
(* What one step of the model makes of a task record. *)

Idle == {"PENDING", "READY", "RETRY_WAIT"}

SameSpec(r, s) ==
  /\ s.wf = r.wf /\ s.needs = r.needs /\ s.labels = r.labels /\ s.retry = r.retry

(* No lease and no result is given: the task stays idle, held under its token,
   or over, or it goes idle, or is dropped. *)
Loosens(r, s) ==
  \/ s.token = r.token /\ (s.state = r.state \/ {r.state, s.state} \subseteq Held)
  \/ r.state \in Idle \cup Held /\ s.state \in Idle \cup {"CANCELLED"} /\ s.token = NoToken

Eased(r, s) ==
  SameSpec(r, s) /\ s.attempt = r.attempt /\ Loosens(r, s)

LEMMA StateSets ==
  /\ States = Idle \cup Held \cup Final
  /\ Idle \cap Held = {} /\ Idle \cap Final = {} /\ Held \cap Final = {}
  /\ Active = (Idle \ {"PENDING"}) \cup Held
  BY DEF States, Idle, Held, Final, Active

LEMMA MovedIsRecord ==
  ASSUME NEW r \in TaskRecord, NEW next \in States, next \in AllowedTransitions[r.state]
  PROVE  Moved(r, next) = [r EXCEPT !.state = next]
  BY DEF Moved

LEMMA Transitions ==
  /\ AllowedTransitions["PENDING"]    = {"READY", "CANCELLED"}
  /\ AllowedTransitions["READY"]      = {"LEASED", "CANCELLED"}
  /\ AllowedTransitions["LEASED"]     = {"RUNNING", "READY", "CANCELLED"}
  /\ AllowedTransitions["RUNNING"]    = {"RETRY_WAIT", "SUCCEEDED", "FAILED", "READY", "CANCELLED"}
  /\ AllowedTransitions["RETRY_WAIT"] = {"READY", "CANCELLED"}
  BY DEF AllowedTransitions

(* PENDING: its dependencies all succeeded. *)
LEMMA ReadyRecord ==
  ASSUME NEW r \in TaskRecord, NEW now \in Nat, TaskAgrees(r, now), r.state = "PENDING"
  PROVE  /\ Moved(r, "READY") \in TaskRecord
         /\ TaskAgrees(Moved(r, "READY"), now)
         /\ Moved(r, "READY").state = "READY"
         /\ Eased(r, Moved(r, "READY"))
<1>1. "READY" \in AllowedTransitions[r.state] /\ "READY" \in States
  BY Transitions DEF States
<1>2. Moved(r, "READY") = [r EXCEPT !.state = "READY"]
  BY <1>1, MovedIsRecord
<1> DEFINE s == [r EXCEPT !.state = "READY"]
<1>3. s \in TaskRecord
  BY <1>1 DEF TaskRecord
<1>4. TaskAgrees(s, now)
  BY DEF TaskRecord, TaskAgrees, Held, Nil
<1>5. s.state = "READY" /\ Eased(r, s)
  BY DEF TaskRecord, TaskAgrees, Held, Eased, SameSpec, Loosens, Idle
<1> QED
  BY <1>2, <1>3, <1>4, <1>5

(* PENDING: a dependency failed or was cancelled. *)
LEMMA SkippedRecord ==
  ASSUME NEW r \in TaskRecord, NEW now \in Nat, TaskAgrees(r, now), r.state = "PENDING",
         NEW s, s = Moved([r EXCEPT !.finished = now], "CANCELLED")
  PROVE  s \in TaskRecord /\ TaskAgrees(s, now) /\ s.state = "CANCELLED" /\ Eased(r, s)
<1> DEFINE q == [r EXCEPT !.finished = now]
<1>1. q \in TaskRecord /\ q.state = "PENDING"
  BY DEF TaskRecord, Instant
<1>2. s = [q EXCEPT !.state = "CANCELLED"]
  BY <1>1, Transitions, MovedIsRecord DEF States
<1>3. s = [r EXCEPT !.finished = now, !.state = "CANCELLED"]
  BY <1>2
<1> HIDE DEF q
<1>4. s \in TaskRecord
  BY <1>3 DEF TaskRecord, States, Instant
<1>5. TaskAgrees(s, now)
  <2>1. /\ s.state = "CANCELLED" /\ s.token = r.token /\ s.owner = r.owner
        /\ s.until = r.until /\ s.retryAt = r.retryAt /\ s.started = r.started
        /\ s.finished = now
    BY <1>3 DEF TaskRecord
  <2>2. /\ r.token = NoToken /\ r.owner = NoOwner /\ r.until = Nil
        /\ r.retryAt = Nil /\ r.started <= now
    BY DEF TaskAgrees, Held
  <2> QED
    BY <2>1, <2>2 DEF TaskAgrees, Held
<1>6. s.state = "CANCELLED" /\ Eased(r, s)
  BY <1>3 DEF TaskRecord, TaskAgrees, Held, Eased, SameSpec, Loosens, Idle
<1> QED
  BY <1>4, <1>5, <1>6

(* RETRY_WAIT: the delay is over. *)
LEMMA RetriedRecord ==
  ASSUME NEW r \in TaskRecord, NEW now \in Nat, TaskAgrees(r, now), r.state = "RETRY_WAIT",
         NEW s, s = Moved([r EXCEPT !.retryAt = Nil, !.finished = Nil], "READY")
  PROVE  s \in TaskRecord /\ TaskAgrees(s, now) /\ s.state = "READY" /\ Eased(r, s)
<1> DEFINE q == [r EXCEPT !.retryAt = Nil, !.finished = Nil]
<1>1. q \in TaskRecord /\ q.state = "RETRY_WAIT"
  BY DEF TaskRecord, Instant
<1>2. s = [q EXCEPT !.state = "READY"]
  BY <1>1, Transitions, MovedIsRecord DEF States
<1>3. s = [r EXCEPT !.retryAt = Nil, !.finished = Nil, !.state = "READY"]
  BY <1>2
<1> HIDE DEF q
<1>4. s \in TaskRecord
  BY <1>3 DEF TaskRecord, States, Instant
<1>5. TaskAgrees(s, now)
  <2>1. /\ s.state = "READY" /\ s.token = r.token /\ s.owner = r.owner
        /\ s.until = r.until /\ s.retryAt = Nil /\ s.started = r.started
        /\ s.finished = Nil
    BY <1>3 DEF TaskRecord
  <2>2. /\ r.token = NoToken /\ r.owner = NoOwner /\ r.until = Nil
        /\ r.started <= now
    BY DEF TaskAgrees, Held
  <2>3. Nil <= now
    BY DEF Nil
  <2> QED
    BY <2>1, <2>2, <2>3 DEF TaskAgrees, Held
<1>6. s.state = "READY" /\ Eased(r, s)
  BY <1>3 DEF TaskRecord, TaskAgrees, Held, Eased, SameSpec, Loosens, Idle
<1> QED
  BY <1>4, <1>5, <1>6

(* The lease expired. *)
LEMMA RequeuedRecord ==
  ASSUME NEW r \in TaskRecord, NEW now \in Nat, TaskAgrees(r, now), r.state \in Held,
         NEW s, s = Moved([Unheld(r) EXCEPT !.started = Nil, !.finished = Nil], "READY")
  PROVE  s \in TaskRecord /\ TaskAgrees(s, now) /\ s.state = "READY" /\ Eased(r, s)
<1> DEFINE q == [Unheld(r) EXCEPT !.started = Nil, !.finished = Nil]
<1>1. q = [r EXCEPT !.token = NoToken, !.owner = NoOwner, !.until = Nil,
                    !.started = Nil, !.finished = Nil]
  BY DEF Unheld
<1>2. q \in TaskRecord /\ q.state = r.state
  BY <1>1 DEF TaskRecord, Instant
<1>3. s = [q EXCEPT !.state = "READY"]
  BY <1>2, Transitions, MovedIsRecord DEF States, Held
<1>4. s = [r EXCEPT !.token = NoToken, !.owner = NoOwner, !.until = Nil,
                    !.started = Nil, !.finished = Nil, !.state = "READY"]
  BY <1>1, <1>3
<1> HIDE DEF q
<1>5. s \in TaskRecord
  BY <1>4 DEF TaskRecord, States, Instant
<1>6. TaskAgrees(s, now)
  BY <1>4 DEF TaskRecord, TaskAgrees, Held, Nil, Instant
<1>7. s.state = "READY" /\ Eased(r, s)
  BY <1>4 DEF TaskRecord, TaskAgrees, Held, Eased, SameSpec, Loosens, Idle
<1> QED
  BY <1>5, <1>6, <1>7

(* The workflow is cancelled. *)
LEMMA CancelledRecord ==
  ASSUME NEW r \in TaskRecord, NEW now \in Nat, TaskAgrees(r, now), r.state \notin Final,
         NEW s, s = Moved([Unheld(r) EXCEPT !.retryAt = Nil, !.finished = now], "CANCELLED")
  PROVE  s \in TaskRecord /\ TaskAgrees(s, now) /\ s.state = "CANCELLED" /\ Eased(r, s)
<1> DEFINE q == [Unheld(r) EXCEPT !.retryAt = Nil, !.finished = now]
<1>1. q = [r EXCEPT !.token = NoToken, !.owner = NoOwner, !.until = Nil,
                    !.retryAt = Nil, !.finished = now]
  BY DEF Unheld
<1>2. q \in TaskRecord /\ q.state = r.state
  BY <1>1 DEF TaskRecord, Instant
<1>3. r.state \in {"PENDING", "READY", "LEASED", "RUNNING", "RETRY_WAIT"}
  BY DEF TaskRecord, States, Final
<1>4. s = [q EXCEPT !.state = "CANCELLED"]
  <2>1. "CANCELLED" \in AllowedTransitions[q.state] /\ "CANCELLED" \in States
    BY <1>2, <1>3, Transitions DEF States
  <2>2. s = Moved(q, "CANCELLED")
    OBVIOUS
  <2> HIDE DEF q
  <2> QED
    BY <1>2, <2>1, <2>2, MovedIsRecord
<1>5. s = [r EXCEPT !.token = NoToken, !.owner = NoOwner, !.until = Nil,
                    !.retryAt = Nil, !.finished = now, !.state = "CANCELLED"]
  BY <1>1, <1>4
<1> HIDE DEF q
<1>6. s \in TaskRecord
  BY <1>5 DEF TaskRecord, States, Instant
<1>7. TaskAgrees(s, now)
  <2>1. /\ s.state = "CANCELLED" /\ s.token = NoToken /\ s.owner = NoOwner
        /\ s.until = Nil /\ s.retryAt = Nil /\ s.started = r.started
        /\ s.finished = now
    BY <1>5 DEF TaskRecord
  <2>2. r.started <= now
    BY DEF TaskAgrees
  <2> QED
    BY <2>1, <2>2 DEF TaskAgrees, Held
<1>8. s.state = "CANCELLED" /\ Eased(r, s)
  BY <1>3, <1>5 DEF TaskRecord, TaskAgrees, Held, Eased, SameSpec, Loosens, Idle
<1> QED
  BY <1>6, <1>7, <1>8

-----------------------------------------------------------------------------
(* What one step makes of a model: b comes from a by giving task t another
   record, or by closing lease l besides. *)

IsRecord(b) ==
  b = [now |-> b.now, counter |-> b.counter, workflows |-> b.workflows,
       tasks |-> b.tasks, workers |-> b.workers, leases |-> b.leases,
       closed |-> b.closed]

PutTo(a, b, t, s) ==
  /\ IsRecord(b)
  /\ b.now = a.now /\ b.counter = a.counter /\ b.workflows = a.workflows
  /\ b.workers = a.workers /\ b.leases = a.leases /\ b.closed = a.closed
  /\ b.tasks = [a.tasks EXCEPT ![t] = s]

WithoutToken(v, k) == [v EXCEPT !.active = @ \ {k}]

FreedTo(a, b, l, s) ==
  /\ IsRecord(b)
  /\ b.now = a.now /\ b.counter = a.counter /\ b.workflows = a.workflows
  /\ b.workers = [a.workers EXCEPT ![l.worker] = WithoutToken(@, l.token)]
  /\ b.leases = a.leases \ {l}
  /\ b.closed = a.closed \cup {l.token}
  /\ b.tasks = [a.tasks EXCEPT ![l.task] = s]

(* No lease and no result is given, nobody is added or forgotten. *)
SameStaff(a, b) ==
  /\ DOMAIN b.workers = DOMAIN a.workers
  /\ \A w \in DOMAIN a.workers :
       /\ b.workers[w].capacity = a.workers[w].capacity
       /\ b.workers[w].labels = a.workers[w].labels
       /\ b.workers[w].heartbeat = a.workers[w].heartbeat
       /\ b.workers[w].dropped = a.workers[w].dropped

SameFlow(a, b) ==
  Flow(b).order = Flow(a).order /\ Flow(b).created = Flow(a).created

Eases(a, b) ==
  /\ b.now = a.now /\ b.counter = a.counter
  /\ DOMAIN b.tasks = DOMAIN a.tasks
  /\ \A t \in DOMAIN a.tasks : Eased(a.tasks[t], b.tasks[t])
  /\ SameStaff(a, b) /\ SameFlow(a, b)
  /\ a.closed \subseteq b.closed
  /\ Tokens(b) \cup b.closed = Tokens(a) \cup a.closed
  /\ Indexed(a) => Indexed(b)

LEMMA EasedSteps ==
  /\ \A r : Eased(r, r)
  /\ \A r, s, q : Eased(r, s) /\ Eased(s, q) => Eased(r, q)
<1>1. Idle \cap Held = {} /\ "CANCELLED" \notin Idle \cup Held
  BY DEF Idle, Held
<1>2. ASSUME NEW r, NEW s, NEW q, Loosens(r, s), Loosens(s, q) PROVE Loosens(r, q)
  BY <1>1, <1>2 DEF Loosens
<1>3. \A r : Loosens(r, r)
  BY DEF Loosens
<1> QED
  BY <1>2, <1>3 DEF Eased, SameSpec

LEMMA EasesItself ==
  ASSUME NEW a
  PROVE  Eases(a, a)
  BY EasedSteps DEF Eases, SameStaff, SameFlow

LEMMA EasesOn ==
  ASSUME NEW a, NEW b, NEW c, Eases(a, b), Eases(b, c)
  PROVE  Eases(a, c)
<1>1. \A t \in DOMAIN a.tasks : Eased(a.tasks[t], c.tasks[t])
  BY EasedSteps DEF Eases
<1>2. SameStaff(a, c) /\ SameFlow(a, c)
  BY DEF Eases, SameStaff, SameFlow
<1> QED
  BY <1>1, <1>2 DEF Eases

LEMMA TableFacts ==
  ASSUME NEW D, NEW R, NEW f \in Tables(D, R)
  PROVE  /\ DOMAIN f \in SUBSET D
         /\ f \in [DOMAIN f -> R]
         /\ \A x \in DOMAIN f : f[x] \in R
         /\ \A x \in DOMAIN f, y \in R : [f EXCEPT ![x] = y] \in Tables(D, R)
  BY DEF Tables

LEMMA ModelFacts ==
  ASSUME NEW a \in Model
  PROVE  /\ IsRecord(a) /\ a.now \in Nat /\ a.counter \in Nat
         /\ a.workflows \in [{FirstWorkflow} -> WorkflowRecord]
         /\ Flow(a) \in WorkflowRecord
         /\ DOMAIN a.tasks \in SUBSET TaskId /\ a.tasks \in [DOMAIN a.tasks -> TaskRecord]
         /\ a.tasks \in Tables(TaskId, TaskRecord)
         /\ \A t \in DOMAIN a.tasks : a.tasks[t] \in TaskRecord
         /\ DOMAIN a.workers \in SUBSET Nat /\ a.workers \in [DOMAIN a.workers -> WorkerRecord]
         /\ a.workers \in Tables(Nat, WorkerRecord)
         /\ \A w \in DOMAIN a.workers : a.workers[w] \in WorkerRecord
         /\ a.leases \in SUBSET LeaseRecord /\ a.closed \in SUBSET TokenSet
<1>1. /\ IsRecord(a) /\ a.now \in Nat /\ a.counter \in Nat
      /\ a.workflows \in [{FirstWorkflow} -> WorkflowRecord]
      /\ a.leases \in SUBSET LeaseRecord /\ a.closed \in SUBSET TokenSet
      /\ a.tasks \in Tables(TaskId, TaskRecord) /\ a.workers \in Tables(Nat, WorkerRecord)
  BY DEF Model, IsRecord
<1>2. Flow(a) \in WorkflowRecord
  BY <1>1 DEF Flow
<1> QED
  BY <1>1, <1>2, TableFacts

LEMMA ModelFrom ==
  ASSUME NEW b, IsRecord(b), b.now \in Nat, b.counter \in Nat,
         b.workflows \in [{FirstWorkflow} -> WorkflowRecord],
         b.tasks \in Tables(TaskId, TaskRecord), b.workers \in Tables(Nat, WorkerRecord),
         b.leases \in SUBSET LeaseRecord, b.closed \in SUBSET TokenSet
  PROVE  b \in Model
  BY DEF Model, IsRecord

(* [a EXCEPT !.tasks[t] = s] *)
LEMMA PutFields ==
  ASSUME NEW a \in Model, NEW t, NEW s
  PROVE  PutTo(a, [a EXCEPT !.tasks[t] = s], t, s)
  BY DEF Model, PutTo, IsRecord

LEMMA PutModel ==
  ASSUME NEW a \in Model, NEW t \in DOMAIN a.tasks, NEW s \in TaskRecord, NEW b, PutTo(a, b, t, s)
  PROVE  /\ b \in Model /\ DOMAIN b.tasks = DOMAIN a.tasks /\ b.tasks[t] = s
         /\ \A u \in DOMAIN a.tasks : u # t => b.tasks[u] = a.tasks[u]
<1>1. b.tasks \in Tables(TaskId, TaskRecord)
  BY ModelFacts, TableFacts DEF PutTo
<1>2. b \in Model
  BY <1>1, ModelFacts, ModelFrom DEF PutTo
<1> QED
  BY <1>2, ModelFacts DEF PutTo

(* What may become of a record for the rest of the model to agree with it. *)
MayBecome(a, r, s) ==
  /\ s \in TaskRecord /\ TaskAgrees(s, a.now) /\ SameSpec(r, s)
  /\ s.state \in Active \cup {"SUCCEEDED"} => \A d \in r.needs : a.tasks[d].state = "SUCCEEDED"
  /\ r.state = "SUCCEEDED" => s.state = "SUCCEEDED"

StaysHeld(r, s) ==
  /\ r.state \in Held <=> s.state \in Held
  /\ r.state \in Held => s.token = r.token /\ s.owner = r.owner /\ s.until = r.until

LEMMA NeedsPut ==
  ASSUME NEW a, NeedsDone(a), NEW t \in DOMAIN a.tasks, NEW s, MayBecome(a, a.tasks[t], s),
         NEW b, b.tasks = [a.tasks EXCEPT ![t] = s],
         \A u \in DOMAIN a.tasks : a.tasks[u].needs \subseteq DOMAIN a.tasks
  PROVE  NeedsDone(b)
<1>1. /\ DOMAIN b.tasks = DOMAIN a.tasks /\ b.tasks[t] = s
      /\ \A u \in DOMAIN a.tasks : u # t => b.tasks[u] = a.tasks[u]
  OBVIOUS
<1>2. \A u \in DOMAIN a.tasks : a.tasks[u].state = "SUCCEEDED" => b.tasks[u].state = "SUCCEEDED"
  BY <1>1 DEF MayBecome
<1>3. \A u \in DOMAIN a.tasks : b.tasks[u].needs = a.tasks[u].needs
  BY <1>1 DEF MayBecome, SameSpec
<1>4. \A u \in DOMAIN a.tasks : b.tasks[u].state \in Active \cup {"SUCCEEDED"} =>
        \A d \in a.tasks[u].needs : a.tasks[d].state = "SUCCEEDED"
  BY <1>1 DEF MayBecome, NeedsDone
<1> QED
  BY <1>1, <1>2, <1>3, <1>4 DEF NeedsDone

LEMMA OrderPut ==
  ASSUME NEW a, FlowAgrees(a), NEW b, b.workflows = a.workflows, b.now = a.now,
         DOMAIN b.tasks = DOMAIN a.tasks,
         \A u \in DOMAIN a.tasks : b.tasks[u].needs = a.tasks[u].needs
  PROVE  FlowAgrees(b)
<1>1. Flow(b) = Flow(a)
  BY DEF Flow
<1> DEFINE o == Flow(a).order
<1>2. IsOrder(a, o)
  BY DEF FlowAgrees
<1>3. \A k \in 1..Len(o) : b.tasks[o[k]].needs = a.tasks[o[k]].needs
  BY <1>2 DEF IsOrder
<1>4. IsOrder(b, o)
  <2> HIDE DEF o
  <2> QED
    BY <1>2, <1>3 DEF IsOrder
<1> QED
  BY <1>1, <1>4 DEF FlowAgrees

LEMMA NeedsAreTasks ==
  ASSUME NEW a \in Model, FlowAgrees(a)
  PROVE  \A u \in DOMAIN a.tasks : a.tasks[u].needs \subseteq DOMAIN a.tasks
<1> TAKE u \in DOMAIN a.tasks
<1> DEFINE o == Flow(a).order
<1>1. o \in Seq(TaskId) /\ Len(o) \in Nat
  BY ModelFacts, LenProperties DEF WorkflowRecord
<1> HIDE DEF o
<1>2. IsOrder(a, o)
  BY DEF FlowAgrees, o
<1>3. PICK k \in 1..Len(o) : o[k] = u
  BY <1>2 DEF IsOrder
<1>4. \A d \in a.tasks[u].needs : \E i \in 1..(k - 1) : o[i] = d
  BY <1>2, <1>3 DEF IsOrder
<1>5. \A i \in 1..(k - 1) : i \in 1..Len(o)
  BY <1>1
<1>6. \A i \in 1..(k - 1) : o[i] \in DOMAIN a.tasks
  BY <1>2, <1>5 DEF IsOrder
<1> QED
  BY <1>4, <1>6

LEMMA CorePut ==
  ASSUME NEW a, Core(a), NEW t \in DOMAIN a.tasks, NEW s,
         MayBecome(a, a.tasks[t], s), StaysHeld(a.tasks[t], s), NEW b, PutTo(a, b, t, s)
  PROVE  Core(b)
<1>1. a \in Model /\ s \in TaskRecord
  BY DEF Core, MayBecome
<1>2. /\ b \in Model /\ DOMAIN b.tasks = DOMAIN a.tasks /\ b.tasks[t] = s
      /\ \A u \in DOMAIN a.tasks : u # t => b.tasks[u] = a.tasks[u]
  BY <1>1, PutModel
<1>3. LeasesAgree(b)
  <2>1. b.leases = a.leases /\ b.now = a.now /\ b.workers = a.workers
    BY DEF PutTo
  <2>2. \A l \in a.leases : LeaseAgrees(a, l) => LeaseAgrees(b, l)
    BY <1>2, <2>1 DEF LeaseAgrees, StaysHeld
  <2>3. \A u \in DOMAIN a.tasks : b.tasks[u].state \in Held => a.tasks[u].state \in Held
    BY <1>2 DEF StaysHeld
  <2> QED
    BY <1>2, <2>1, <2>2, <2>3 DEF Core, LeasesAgree
<1>4. TokensAgree(b) /\ WorkersAgree(b)
  BY DEF Core, TokensAgree, WorkersAgree, PutTo, Tokens
<1>5. TasksAgree(b)
  BY <1>2 DEF Core, TasksAgree, PutTo, MayBecome
<1>6. NeedsDone(b)
  BY <1>1, NeedsAreTasks, NeedsPut DEF Core, PutTo
<1>7. FlowAgrees(b)
  <2>1. \A u \in DOMAIN a.tasks : b.tasks[u].needs = a.tasks[u].needs
    BY <1>2 DEF MayBecome, SameSpec
  <2> QED
    BY <1>2, <2>1, OrderPut DEF Core, PutTo
<1> QED
  BY <1>2, <1>3, <1>4, <1>5, <1>6, <1>7 DEF Core

LEMMA EasesPut ==
  ASSUME NEW a \in Model, NEW t \in DOMAIN a.tasks, NEW s \in TaskRecord, Eased(a.tasks[t], s),
         NEW b, PutTo(a, b, t, s)
  PROVE  Eases(a, b)
<1>1. /\ DOMAIN b.tasks = DOMAIN a.tasks /\ b.tasks[t] = s
      /\ \A u \in DOMAIN a.tasks : u # t => b.tasks[u] = a.tasks[u]
  BY PutModel
<1>2. \A u \in DOMAIN a.tasks : Eased(a.tasks[u], b.tasks[u])
  BY <1>1, EasedSteps
<1>3. SameStaff(a, b) /\ SameFlow(a, b)
  BY DEF PutTo, SameStaff, SameFlow, Flow
<1>4. b.leases = a.leases /\ b.closed = a.closed /\ b.now = a.now /\ b.counter = a.counter
  BY DEF PutTo
<1>5. Tokens(b) = Tokens(a) /\ (Indexed(a) => Indexed(b))
  BY DEF PutTo, Tokens, Indexed
<1> QED
  BY <1>1, <1>2, <1>3, <1>4, <1>5 DEF Eases

-----------------------------------------------------------------------------
(* Closing a lease. *)

LEMMA LeaseFacts ==
  ASSUME NEW a, Core(a), NEW l \in a.leases
  PROVE  /\ l \in LeaseRecord /\ l.token \in TokenSet /\ l.wf = FirstWorkflow
         /\ l.task \in DOMAIN a.tasks /\ l.worker \in DOMAIN a.workers
         /\ a.tasks[l.task].state \in Held /\ a.tasks[l.task].token = l.token
         /\ a.tasks[l.task].owner = l.worker /\ a.tasks[l.task].until = l.expires
         /\ l.acquired < l.expires /\ l.acquired <= a.now
<1>1. l \in LeaseRecord /\ LeaseAgrees(a, l)
  BY ModelFacts DEF Core, LeasesAgree
<1>2. l.token \in TokenSet /\ l.wf = FirstWorkflow
  BY <1>1 DEF LeaseRecord
<1> QED
  BY <1>1, <1>2 DEF LeaseAgrees

LEMMA HeldFacts ==
  ASSUME NEW a, Core(a), NEW t \in DOMAIN a.tasks, a.tasks[t].state \in Held
  PROVE  \E l \in a.leases : l.task = t /\ l.token = a.tasks[t].token
  BY LeaseFacts DEF Core, LeasesAgree

LEMMA LeaseOfToken ==
  ASSUME NEW a, Core(a), NEW l \in a.leases
  PROVE  l.token \in Tokens(a) /\ LeaseOf(a, l.token) = l
<1>1. \A k \in a.leases : k.token = l.token => k = l
  BY DEF Core, LeasesAgree
<1> QED
  BY <1>1 DEF LeaseOf, Tokens

LEMMA ActiveFinite ==
  ASSUME NEW a, Core(a), NEW w \in DOMAIN a.workers
  PROVE  /\ IsFiniteSet(a.workers[w].active) /\ Cardinality(a.workers[w].active) \in Nat
         /\ a.workers[w].active \in SUBSET Tokens(a)
         /\ \A k \in a.workers[w].active : \E l \in a.leases : l.token = k /\ l.worker = w
<1> DEFINE S == a.leases
           f == [l \in S |-> l.token]
<1>1. IsFiniteSet(S)
  BY DEF Core, LeasesAgree
<1>2. f \in Surjection(S, Tokens(a))
  BY DEF Surjection, Tokens
<1>3. IsFiniteSet(Tokens(a))
  <2> HIDE DEF f, S
  <2> QED
    BY <1>1, <1>2, FS_Surjection
<1>4. \A k \in a.workers[w].active : \E l \in a.leases : l.token = k /\ l.worker = w
  BY DEF Core, WorkersAgree
<1>5. a.workers[w].active \in SUBSET Tokens(a)
  BY <1>4 DEF Tokens
<1>6. IsFiniteSet(a.workers[w].active)
  BY <1>3, <1>5, FS_Subset
<1> QED
  BY <1>4, <1>5, <1>6, FS_CardinalityType

LEMMA FreedModel ==
  ASSUME NEW a \in Model, NEW l \in a.leases, l.task \in DOMAIN a.tasks,
         l.worker \in DOMAIN a.workers, NEW s \in TaskRecord, NEW b, FreedTo(a, b, l, s)
  PROVE  /\ b \in Model /\ DOMAIN b.tasks = DOMAIN a.tasks /\ b.tasks[l.task] = s
         /\ \A u \in DOMAIN a.tasks : u # l.task => b.tasks[u] = a.tasks[u]
         /\ DOMAIN b.workers = DOMAIN a.workers
         /\ \A w \in DOMAIN a.workers : w # l.worker => b.workers[w] = a.workers[w]
         /\ b.workers[l.worker] = WithoutToken(a.workers[l.worker], l.token)
<1>1. b.tasks \in Tables(TaskId, TaskRecord)
  BY ModelFacts, TableFacts DEF FreedTo
<1>2. WithoutToken(a.workers[l.worker], l.token) \in WorkerRecord
  <2>1. a.workers[l.worker] \in WorkerRecord
    BY ModelFacts
  <2> QED
    BY <2>1 DEF WithoutToken, WorkerRecord
<1>3. b.workers = [a.workers EXCEPT ![l.worker] = WithoutToken(a.workers[l.worker], l.token)]
  BY DEF FreedTo
<1>4. b.workers \in Tables(Nat, WorkerRecord)
  BY <1>2, <1>3, ModelFacts, TableFacts
<1>5. b.leases \in SUBSET LeaseRecord /\ b.closed \in SUBSET TokenSet
  <2>1. a.leases \in SUBSET LeaseRecord /\ a.closed \in SUBSET TokenSet
    BY ModelFacts
  <2>2. l.token \in TokenSet
    BY <2>1 DEF LeaseRecord
  <2> QED
    BY <2>1, <2>2 DEF FreedTo
<1>6. b \in Model
  BY <1>1, <1>4, <1>5, ModelFacts, ModelFrom DEF FreedTo
<1> QED
  BY <1>3, <1>6, ModelFacts DEF FreedTo

LEMMA WithoutTokenFacts ==
  ASSUME NEW v \in WorkerRecord, NEW k
  PROVE  /\ WithoutToken(v, k).active = v.active \ {k}
         /\ WithoutToken(v, k).capacity = v.capacity /\ WithoutToken(v, k).labels = v.labels
         /\ WithoutToken(v, k).heartbeat = v.heartbeat /\ WithoutToken(v, k).dropped = v.dropped
  BY DEF WithoutToken, WorkerRecord

LEMMA FreedWorkers ==
  ASSUME NEW a, Core(a), NEW l \in a.leases, NEW s \in TaskRecord, NEW b, FreedTo(a, b, l, s)
  PROVE  /\ WorkersAgree(b) /\ SameStaff(a, b)
         /\ \A w \in DOMAIN a.workers :
              /\ w = l.worker => b.workers[w].active = a.workers[w].active \ {l.token}
              /\ w # l.worker => b.workers[w].active = a.workers[w].active
<1>1. a \in Model /\ l.task \in DOMAIN a.tasks /\ l.worker \in DOMAIN a.workers
  BY LeaseFacts DEF Core
<1>2. /\ DOMAIN b.workers = DOMAIN a.workers
      /\ \A w \in DOMAIN a.workers : w # l.worker => b.workers[w] = a.workers[w]
      /\ b.workers[l.worker] = WithoutToken(a.workers[l.worker], l.token)
  BY <1>1, FreedModel
<1>3. \A w \in DOMAIN a.workers : a.workers[w] \in WorkerRecord
  BY <1>1, ModelFacts
<1>4. SameStaff(a, b)
  BY <1>1, <1>2, <1>3, WithoutTokenFacts DEF SameStaff
<1>5. \A w \in DOMAIN a.workers :
        /\ w = l.worker => b.workers[w].active = a.workers[w].active \ {l.token}
        /\ w # l.worker => b.workers[w].active = a.workers[w].active
  <2> TAKE w \in DOMAIN a.workers
  <2>1. CASE w = l.worker
    <3>1. b.workers[w].active = a.workers[w].active \ {l.token}
      BY <1>2, <1>3, <2>1, WithoutTokenFacts
    <3> QED
      BY <2>1, <3>1
  <2>2. CASE w # l.worker
    BY <1>2, <2>2
  <2> QED
    BY <2>1, <2>2
<1>6. ASSUME NEW w \in DOMAIN a.workers
      PROVE  /\ \A k \in b.workers[w].active : \E j \in b.leases : j.token = k /\ j.worker = w
             /\ Cardinality(b.workers[w].active) <= b.workers[w].capacity
  <2>1. /\ IsFiniteSet(a.workers[w].active) /\ Cardinality(a.workers[w].active) \in Nat
        /\ \A k \in a.workers[w].active : \E j \in a.leases : j.token = k /\ j.worker = w
    BY ActiveFinite
  <2>2. b.workers[w].active \in SUBSET a.workers[w].active
    BY <1>5
  <2>3. Cardinality(b.workers[w].active) <= Cardinality(a.workers[w].active)
        /\ Cardinality(b.workers[w].active) \in Nat
    BY <2>1, <2>2, FS_Subset, FS_CardinalityType
  <2>4. Cardinality(a.workers[w].active) <= a.workers[w].capacity
    BY DEF Core, WorkersAgree
  <2>5. a.workers[w].capacity \in Nat /\ b.workers[w].capacity = a.workers[w].capacity
    BY <1>3, <1>4 DEF WorkerRecord, SameStaff
  <2>6. Cardinality(b.workers[w].active) <= b.workers[w].capacity
    BY <2>1, <2>3, <2>4, <2>5
  <2>7. ASSUME NEW k \in b.workers[w].active
        PROVE  \E j \in b.leases : j.token = k /\ j.worker = w
    <3>1. PICK j \in a.leases : j.token = k /\ j.worker = w
      BY <2>1, <2>2
    <3>2. j # l
      BY <1>5, <3>1
    <3> QED
      BY <3>1, <3>2 DEF FreedTo
  <2> QED
    BY <2>6, <2>7
<1>7. WorkersAgree(b)
  BY <1>2, <1>6 DEF WorkersAgree
<1> QED
  BY <1>4, <1>5, <1>7

LEMMA FreedTokens ==
  ASSUME NEW a, Core(a), NEW l \in a.leases, NEW s, NEW b, FreedTo(a, b, l, s)
  PROVE  /\ Tokens(b) = Tokens(a) \ {l.token} /\ TokensAgree(b)
         /\ Tokens(b) \cup b.closed = Tokens(a) \cup a.closed
<1>1. \A j \in a.leases : j.token = l.token => j = l
  BY DEF Core, LeasesAgree
<1>2. b.leases = a.leases \ {l} /\ b.closed = a.closed \cup {l.token} /\ b.counter = a.counter
  BY DEF FreedTo
<1>3. Tokens(b) = Tokens(a) \ {l.token}
  BY <1>1, <1>2 DEF Tokens
<1>4. l.token \in Tokens(a)
  BY DEF Tokens
<1>5. Tokens(b) \cup b.closed = Tokens(a) \cup a.closed
  BY <1>2, <1>3, <1>4
<1>6. TokensAgree(b)
  BY <1>2, <1>3, <1>5 DEF Core, TokensAgree
<1> QED
  BY <1>3, <1>5, <1>6

LEMMA CoreFreed ==
  ASSUME NEW a, Core(a), NEW l \in a.leases, NEW s, MayBecome(a, a.tasks[l.task], s),
         s.state \notin Held, NEW b, FreedTo(a, b, l, s)
  PROVE  Core(b)
<1> DEFINE t == l.task
<1>1. /\ a \in Model /\ s \in TaskRecord /\ t \in DOMAIN a.tasks /\ l.worker \in DOMAIN a.workers
      /\ a.tasks[t].state \in Held /\ a.tasks[t].token = l.token
  BY LeaseFacts DEF Core, MayBecome
<1>2. /\ b \in Model /\ DOMAIN b.tasks = DOMAIN a.tasks /\ b.tasks[t] = s
      /\ \A u \in DOMAIN a.tasks : u # t => b.tasks[u] = a.tasks[u]
      /\ DOMAIN b.workers = DOMAIN a.workers
  BY <1>1, FreedModel
<1> HIDE DEF t
<1>3. b.leases = a.leases \ {l} /\ b.now = a.now /\ b.workflows = a.workflows
  BY DEF FreedTo
<1>4. LeasesAgree(b)
  <2>1. IsFiniteSet(a.leases) /\ \A j, k \in a.leases : j.token = k.token => j = k
    BY DEF Core, LeasesAgree
  <2>2. IsFiniteSet(b.leases)
    BY <1>3, <2>1, FS_Subset
  <2>3. ASSUME NEW j \in b.leases PROVE LeaseAgrees(b, j)
    <3>1. j \in a.leases /\ j # l
      BY <1>3
    <3>2. LeaseAgrees(a, j) /\ j.token # l.token
      BY <2>1, <3>1 DEF Core, LeasesAgree
    <3>3. j.task # t
      BY <1>1, <3>2 DEF LeaseAgrees
    <3> QED
      BY <1>2, <1>3, <3>2, <3>3 DEF LeaseAgrees
  <2>4. ASSUME NEW u \in DOMAIN b.tasks, b.tasks[u].state \in Held
        PROVE  \E j \in b.leases : j.task = u
    <3>1. u # t /\ u \in DOMAIN a.tasks /\ a.tasks[u].state \in Held
      BY <1>2, <2>4
    <3>2. PICK j \in a.leases : j.task = u
      BY <3>1 DEF Core, LeasesAgree
    <3>3. j # l
      BY <3>1, <3>2 DEF t
    <3> QED
      BY <1>3, <3>2, <3>3
  <2> QED
    BY <1>3, <2>1, <2>2, <2>3, <2>4 DEF LeasesAgree
<1>5. TokensAgree(b) /\ WorkersAgree(b)
  BY <1>1, FreedTokens, FreedWorkers
<1>6. TasksAgree(b)
  BY <1>1, <1>2, <1>3 DEF Core, TasksAgree, MayBecome
<1>7. NeedsDone(b)
  <2>1. b.tasks = [a.tasks EXCEPT ![t] = s]
    BY DEF FreedTo, t
  <2>2. MayBecome(a, a.tasks[t], s)
    BY DEF t
  <2> QED
    BY <1>1, <2>1, <2>2, NeedsAreTasks, NeedsPut DEF Core
<1>8. FlowAgrees(b)
  <2>1. \A u \in DOMAIN a.tasks : b.tasks[u].needs = a.tasks[u].needs
    BY <1>2 DEF MayBecome, SameSpec, t
  <2> QED
    BY <1>2, <1>3, <2>1, OrderPut DEF Core
<1> QED
  BY <1>2, <1>4, <1>5, <1>6, <1>7, <1>8 DEF Core

LEMMA FreedIndexed ==
  ASSUME NEW a, Core(a), Indexed(a), NEW l \in a.leases, NEW s \in TaskRecord,
         NEW b, FreedTo(a, b, l, s)
  PROVE  Indexed(b)
<1> SUFFICES ASSUME NEW j \in b.leases PROVE j.token \in b.workers[j.worker].active
  BY DEF Indexed
<1>1. j \in a.leases /\ j # l
  BY DEF FreedTo
<1>2. j.token # l.token /\ j.worker \in DOMAIN a.workers
  BY <1>1, LeaseFacts DEF Core, LeasesAgree
<1>3. j.token \in a.workers[j.worker].active
  BY <1>1 DEF Indexed
<1>4. \A w \in DOMAIN a.workers : a.workers[w].active \ {l.token} \subseteq b.workers[w].active
  BY FreedWorkers
<1> QED
  BY <1>2, <1>3, <1>4

LEMMA EasesFreed ==
  ASSUME NEW a, Core(a), NEW l \in a.leases, NEW s \in TaskRecord, Eased(a.tasks[l.task], s),
         NEW b, FreedTo(a, b, l, s)
  PROVE  Eases(a, b)
<1>1. a \in Model /\ l.task \in DOMAIN a.tasks /\ l.worker \in DOMAIN a.workers
  BY LeaseFacts DEF Core
<1>2. /\ DOMAIN b.tasks = DOMAIN a.tasks /\ b.tasks[l.task] = s
      /\ \A u \in DOMAIN a.tasks : u # l.task => b.tasks[u] = a.tasks[u]
  BY <1>1, FreedModel
<1>3. \A u \in DOMAIN a.tasks : Eased(a.tasks[u], b.tasks[u])
  BY <1>2, EasedSteps
<1>4. SameStaff(a, b) /\ SameFlow(a, b)
  BY FreedWorkers DEF FreedTo, SameFlow, Flow
<1>5. /\ a.closed \subseteq b.closed /\ b.now = a.now /\ b.counter = a.counter
      /\ Tokens(b) \cup b.closed = Tokens(a) \cup a.closed
  BY FreedTokens DEF FreedTo
<1> QED
  BY <1>2, <1>3, <1>4, <1>5, FreedIndexed DEF Eases

(* close_lease, of a task that is still held under the token. *)
LEMMA CloseFields ==
  ASSUME NEW a \in Model, NEW l \in a.leases, l.task \in DOMAIN a.tasks,
         l.worker \in DOMAIN a.workers, a.tasks[l.task].token = l.token
  PROVE  /\ FreedTo(a, CloseLease(a, l), l, Unheld(a.tasks[l.task]))
         /\ CloseLease(a, l) \in Model
<1>1. /\ a \in Model /\ l.task \in DOMAIN a.tasks /\ l.worker \in DOMAIN a.workers
      /\ a.tasks[l.task].token = l.token /\ a.tasks[l.task] \in TaskRecord
  BY ModelFacts
<1> DEFINE b == CloseLease(a, l)
<1>2. FreedTo(a, b, l, Unheld(a.tasks[l.task]))
  <2>1. b = [a EXCEPT !.leases = @ \ {l}, !.closed = @ \cup {l.token},
                      !.workers[l.worker] = WithoutToken(@, l.token),
                      !.tasks[l.task] = Unheld(a.tasks[l.task])]
    BY <1>1 DEF CloseLease, WithoutToken
  <2> HIDE DEF b
  <2> QED
    BY <1>1, <2>1 DEF FreedTo, IsRecord, Model
<1>3. Unheld(a.tasks[l.task]) \in TaskRecord
  BY <1>1 DEF Unheld, TaskRecord, Instant
<1>4. b \in Model
  BY <1>1, <1>2, <1>3, FreedModel
<1> QED
  BY <1>2, <1>4

LEMMA FreedThenPut ==
  ASSUME NEW a, NEW l, NEW q, NEW b, FreedTo(a, b, l, q), NEW c, NEW s, PutTo(b, c, l.task, s)
  PROVE  FreedTo(a, c, l, s)
  BY DEF FreedTo, PutTo

LEMMA ExpireKeeps ==
  ASSUME NEW a, Core(a), NEW l \in a.leases, Flow(a).state \notin Final
  PROVE  /\ Core(ExpireLease(a, l)) /\ Eases(a, ExpireLease(a, l))
         /\ ExpireLease(a, l).workflows = a.workflows
         /\ ExpireLease(a, l).leases = a.leases \ {l}
<1> DEFINE t == l.task
           r == a.tasks[t]
           b == CloseLease(a, l)
           s == Moved([Unheld(r) EXCEPT !.started = Nil, !.finished = Nil], "READY")
           c == ExpireLease(a, l)
<1>1. /\ a \in Model /\ t \in DOMAIN a.tasks /\ r \in TaskRecord /\ r.state \in Held
      /\ l.wf = FirstWorkflow /\ a.now \in Nat /\ TaskAgrees(r, a.now)
      /\ l.worker \in DOMAIN a.workers /\ r.token = l.token
  BY LeaseFacts, ModelFacts DEF Core, TasksAgree
<1>2. FreedTo(a, b, l, Unheld(r)) /\ b \in Model
  BY <1>1, CloseFields
<1>3. s \in TaskRecord /\ TaskAgrees(s, a.now) /\ s.state = "READY" /\ Eased(r, s)
  BY <1>1, RequeuedRecord
<1>4. Unheld(r).state = r.state
  BY <1>1 DEF Unheld, TaskRecord
<1>5. b.tasks[t] = Unheld(r) /\ b.workflows = a.workflows
  BY <1>1, <1>2 DEF FreedTo
<1>6. c = [b EXCEPT !.tasks[t] = s]
  <2>1. b.tasks[t].state \in Held /\ b.workflows[l.wf].state \notin Final
    BY <1>1, <1>4, <1>5 DEF Flow
  <2>2. c = [b EXCEPT !.tasks[t] = Moved([@ EXCEPT !.started = Nil, !.finished = Nil], "READY")]
    BY <2>1 DEF ExpireLease, Requeued
  <2> HIDE DEF b, c
  <2> QED
    BY <1>2, <1>5, <2>2
<1> HIDE DEF b, c, s
<1>7. PutTo(b, c, t, s)
  BY <1>2, <1>6, PutFields
<1>8. FreedTo(a, c, l, s)
  BY <1>2, <1>7, FreedThenPut
<1>9. MayBecome(a, r, s) /\ s.state \notin Held
  <2>1. \A d \in r.needs : a.tasks[d].state = "SUCCEEDED"
    BY <1>1, StateSets DEF Core, NeedsDone
  <2> QED
    BY <1>1, <1>3, <2>1 DEF MayBecome, Eased, Held
<1>10. Core(c) /\ Eases(a, c)
  BY <1>3, <1>8, <1>9, CoreFreed, EasesFreed
<1> QED
  BY <1>8, <1>10 DEF FreedTo, c

-----------------------------------------------------------------------------
(* The first loop of sweep: every lease that is over expires. *)

Expiries(a, S, g) ==
  [s \in SUBSET S |->
     IF s = {} THEN a
     ELSE ExpireLease(g[s \ {CHOOSE x \in s : TRUE}], CHOOSE x \in s : TRUE)]

ExpireAll(a) == FoldSet(LAMBDA l, n : ExpireLease(n, l), a, Expired(a))

LEMMA ExpireAllIs ==
  ASSUME NEW a
  PROVE  ExpireAll(a) = (CHOOSE g : g = Expiries(a, Expired(a), g))[Expired(a)]
  BY DEF ExpireAll, FoldSet, MapThenFoldSet, Expiries

(* The leases in s have expired, nothing else happened. *)
AfterExpiry(a, s, y) ==
  /\ Core(y) /\ Eases(a, y)
  /\ y.workflows = a.workflows /\ y.leases = a.leases \ s

LEMMA ExpireTurn ==
  ASSUME NEW a, Core(a), Flow(a).state \notin Final, NEW s \in SUBSET a.leases, NEW e \in s,
         NEW y, AfterExpiry(a, s \ {e}, y)
  PROVE  AfterExpiry(a, s, ExpireLease(y, e))
<1>1. Core(y) /\ Eases(a, y) /\ y.workflows = a.workflows /\ y.leases = a.leases \ (s \ {e})
  BY DEF AfterExpiry
<1>2. e \in y.leases /\ Flow(y).state \notin Final
  BY <1>1 DEF Flow
<1> DEFINE z == ExpireLease(y, e)
<1>3. Core(z) /\ Eases(y, z) /\ z.workflows = y.workflows /\ z.leases = y.leases \ {e}
  BY <1>1, <1>2, ExpireKeeps
<1> HIDE DEF z
<1>4. Eases(a, z)
  BY <1>1, <1>3, EasesOn
<1>5. AfterExpiry(a, s, z)
  BY <1>1, <1>3, <1>4 DEF AfterExpiry
<1> QED
  BY <1>5 DEF z

LEMMA QuietNoLeases ==
  ASSUME NEW a, Core(a), Quiet(a), Flow(a).state \in Final
  PROVE  a.leases = {}
  BY LeaseFacts, StateSets DEF Quiet

LEMMA ExpireAllKeeps ==
  ASSUME NEW a, Core(a), Quiet(a)
  PROVE  AfterExpiry(a, Expired(a), ExpireAll(a))
<1> DEFINE T == Expired(a)
           C == [s \in SUBSET T |-> CHOOSE x \in s : TRUE]
           F == [l \in T |-> [y \in Model |-> ExpireLease(y, l)]]
           Q == {p \in (SUBSET T) \X Model : AfterExpiry(a, p[1], p[2])}
           h == CHOOSE g : g = Expiries(a, T, g)
<1>1. IsFiniteSet(T) /\ T \in SUBSET a.leases
  BY FS_Subset DEF Core, LeasesAgree, Expired
<1>2. Chooses(C, T)
  BY DEF Chooses
<1>3. ASSUME NEW s \in SUBSET T, s # {}, NEW y, <<s \ {C[s]}, y>> \in Q
      PROVE  <<s, ExpireLease(y, C[s])>> \in Q
  <2>1. C[s] \in s
    BY <1>2, <1>3 DEF Chooses
  <2>2. Flow(a).state \notin Final
    BY <1>1, <2>1, QuietNoLeases
  <2>3. AfterExpiry(a, s \ {C[s]}, y)
    BY <1>3
  <2>4. AfterExpiry(a, s, ExpireLease(y, C[s]))
    <3> HIDE DEF C, T
    <3> QED
      BY <1>1, <2>1, <2>2, <2>3, ExpireTurn
  <2>5. ExpireLease(y, C[s]) \in Model
    BY <2>4 DEF AfterExpiry, Core
  <2> QED
    BY <2>4, <2>5
<1>4. <<{}, a>> \in Q
  <2>1. AfterExpiry(a, {}, a)
    BY EasesItself DEF AfterExpiry
  <2> QED
    BY <2>1 DEF Core
<1>5. \A s, y : <<s, y>> \in Q => y \in Model /\ AfterExpiry(a, s, y)
  OBVIOUS
<1>6. \A l \in T, y \in Model : F[l][y] = ExpireLease(y, l)
  OBVIOUS
<1>7. \A s \in SUBSET T : C[s] = CHOOSE x \in s : TRUE
  OBVIOUS
<1> HIDE DEF T, C, F, Q, h
<1>8. PICK g : g = Folds(T, C, a, F, g)
  BY <1>1, <1>2, FoldExists
<1>9. g[{}] = a /\ \A s \in SUBSET T : s # {} => g[s] = F[C[s]][g[s \ {C[s]}]]
  <2>1. \A s \in SUBSET T : g[s] = IF s = {} THEN a ELSE F[C[s]][g[s \ {C[s]}]]
    BY <1>8 DEF Folds
  <2> QED
    BY <2>1
<1>10. \A s \in SUBSET T : s # {} => C[s] \in T
  BY <1>2 DEF Chooses
<1>11. \A s \in SUBSET T : <<s, g[s]>> \in Q
  <2>1. ASSUME NEW s \in SUBSET T, s # {}, <<s \ {C[s]}, g[s \ {C[s]}]>> \in Q
        PROVE  <<s, g[s]>> \in Q
    <3>1. g[s] = ExpireLease(g[s \ {C[s]}], C[s])
      BY <1>5, <1>6, <1>9, <1>10, <2>1
    <3> QED
      BY <1>3, <2>1, <3>1
  <2>2. <<{}, g[{}]>> \in Q
    BY <1>4, <1>9
  <2>3. \A s \in SUBSET T :
          s # {} /\ <<s \ {C[s]}, g[s \ {C[s]}]>> \in Q => <<s, g[s]>> \in Q
    BY <2>1
  <2>4. IsFiniteSet(T)
    BY <1>1
  <2> QED
    BY <1>2, <2>2, <2>3, <2>4, FoldHolds
<1>12. g = Expiries(a, T, g)
  <2>1. ASSUME NEW s \in SUBSET T, s # {}
        PROVE  g[s] = ExpireLease(g[s \ {C[s]}], C[s])
    <3>1. s \ {C[s]} \in SUBSET T
      OBVIOUS
    <3>2. g[s] = F[C[s]][g[s \ {C[s]}]] /\ C[s] \in T
      BY <1>9, <1>10, <2>1
    <3>3. g[s \ {C[s]}] \in Model
      BY <1>5, <1>11, <3>1
    <3> QED
      BY <1>6, <3>2, <3>3
  <2>2. g = [s \in SUBSET T |-> IF s = {} THEN a ELSE F[C[s]][g[s \ {C[s]}]]]
    BY <1>8 DEF Folds
  <2>3. \A s \in SUBSET T : (IF s = {} THEN a ELSE F[C[s]][g[s \ {C[s]}]]) =
          IF s = {} THEN a ELSE ExpireLease(g[s \ {CHOOSE x \in s : TRUE}], CHOOSE x \in s : TRUE)
    BY <1>7, <1>9, <2>1
  <2> QED
    BY <2>2, <2>3 DEF Expiries
<1>13. h = Expiries(a, T, h)
  BY <1>12 DEF h
<1>14. /\ h[{}] = a
       /\ \A s \in SUBSET T : s # {} => h[s] = ExpireLease(h[s \ {C[s]}], C[s])
  <2>1. \A s \in SUBSET T : h[s] =
          IF s = {} THEN a ELSE ExpireLease(h[s \ {CHOOSE x \in s : TRUE}], CHOOSE x \in s : TRUE)
    BY <1>13 DEF Expiries
  <2> QED
    BY <1>7, <2>1
<1>15. \A s \in SUBSET T : <<s, h[s]>> \in Q
  <2>1. ASSUME NEW s \in SUBSET T, s # {}, <<s \ {C[s]}, h[s \ {C[s]}]>> \in Q
        PROVE  <<s, h[s]>> \in Q
    BY <1>3, <1>14, <2>1
  <2>2. <<{}, h[{}]>> \in Q
    BY <1>4, <1>14
  <2>3. \A s \in SUBSET T :
          s # {} /\ <<s \ {C[s]}, h[s \ {C[s]}]>> \in Q => <<s, h[s]>> \in Q
    BY <2>1
  <2>4. IsFiniteSet(T)
    BY <1>1
  <2> QED
    BY <1>2, <2>2, <2>3, <2>4, FoldHolds
<1>16. AfterExpiry(a, T, h[T])
  BY <1>5, <1>15
<1> QED
  BY <1>16, ExpireAllIs DEF h, T

-----------------------------------------------------------------------------
(* Loops over the order of the workflow: the last of some places is their
   maximum. *)

LEMMA LastPlace ==
  ASSUME NEW n \in Nat, NEW s \in SUBSET (1..n), s # {}
  PROVE  Max(s) \in s /\ \A i \in s : i <= Max(s)
<1> DEFINE R == {n - i : i \in s}
<1>1. R \in SUBSET Nat /\ R # {}
  <2>1. \A i \in s : n - i \in Nat
    OBVIOUS
  <2> QED
    BY <2>1
<1>2. PICK k \in R : \A j \in R : k <= j
  <2> HIDE DEF R
  <2> QED
    BY <1>1, LeastNat
<1>3. PICK x \in s : k = n - x
  BY <1>2
<1>4. \A i \in s : x >= i
  <2> TAKE i \in s
  <2>1. n - i \in R
    OBVIOUS
  <2>2. n - x <= n - i
    <3> HIDE DEF R
    <3> QED
      BY <1>2, <1>3, <2>1
  <2>3. i \in Nat /\ x \in Nat
    OBVIOUS
  <2> QED
    BY <2>2, <2>3
<1> QED
  BY <1>3, <1>4 DEF Max

Places(a) == 1..Len(Flow(a).order)

LEMMA OrderFacts ==
  ASSUME NEW a, Core(a)
  PROVE  /\ Len(Flow(a).order) \in Nat /\ DOMAIN Flow(a).order = Places(a)
         /\ IsFiniteSet(Places(a))
         /\ \A t \in DOMAIN a.tasks : \E i \in Places(a) : Flow(a).order[i] = t
         /\ \A i \in Places(a) : Flow(a).order[i] \in DOMAIN a.tasks
         /\ \A i, k \in Places(a) : Flow(a).order[i] = Flow(a).order[k] => i = k
         /\ \A k \in Places(a) : \A d \in a.tasks[Flow(a).order[k]].needs :
              \E i \in 1..(k - 1) : Flow(a).order[i] = d
<1> DEFINE o == Flow(a).order
<1>1. o \in Seq(TaskId)
  BY ModelFacts DEF Core, WorkflowRecord
<1>2. Len(o) \in Nat /\ DOMAIN o = 1..Len(o)
  BY <1>1, LenProperties
<1>3. IsFiniteSet(1..Len(o))
  BY <1>2, IntervalCount
<1>4. IsOrder(a, o)
  BY DEF Core, FlowAgrees
<1> QED
  BY <1>2, <1>3, <1>4 DEF IsOrder, Places

-----------------------------------------------------------------------------
(* recompute: one turn of its loop. *)

(* A task the loop has passed is pending only for a task that is not over. *)
Waits(a, t) ==
  a.tasks[t].state = "PENDING" => \E d \in a.tasks[t].needs : a.tasks[d].state \notin Final

(* Before anything was leased. *)
Untouched(a) == \A t \in DOMAIN a.tasks : a.tasks[t].state \in {"PENDING", "READY"}

LEMMA VisitKeeps ==
  ASSUME NEW a, Core(a), NEW t \in DOMAIN a.tasks
  PROVE  /\ Core(Visit(a, t)) /\ Eases(a, Visit(a, t)) /\ Waits(Visit(a, t), t)
         /\ Visit(a, t).workflows = a.workflows /\ Visit(a, t).leases = a.leases
         /\ Visit(a, t).closed = a.closed /\ Visit(a, t).workers = a.workers
         /\ \A u \in DOMAIN a.tasks : u # t => Visit(a, t).tasks[u] = a.tasks[u]
         /\ Untouched(a) => Untouched(Visit(a, t))
<1> DEFINE r == a.tasks[t]
           b == Visit(a, t)
           deps == {a.tasks[d].state : d \in r.needs}
           Put(s) == [a EXCEPT !.tasks[t] = s]
           Claim == /\ Core(b) /\ Eases(a, b) /\ Waits(b, t)
                    /\ b.workflows = a.workflows /\ b.leases = a.leases
                    /\ b.closed = a.closed /\ b.workers = a.workers
                    /\ \A u \in DOMAIN a.tasks : u # t => b.tasks[u] = a.tasks[u]
                    /\ Untouched(a) => Untouched(b)
<1> SUFFICES Claim
  OBVIOUS
<1>1. /\ a \in Model /\ r \in TaskRecord /\ a.now \in Nat /\ TaskAgrees(r, a.now)
      /\ r.needs \subseteq DOMAIN a.tasks
  BY ModelFacts, NeedsAreTasks DEF Core, TasksAgree
<1>2. \A d \in r.needs : a.tasks[d].state \in States
  <2>1. \A d \in r.needs : a.tasks[d] \in TaskRecord
    BY <1>1, ModelFacts
  <2> QED
    BY <2>1 DEF TaskRecord
<1>3. ASSUME NEW s, b = Put(s), MayBecome(a, r, s), r.state \notin Held, s.state \notin Held,
             Eased(r, s), s.state # "PENDING",
             Untouched(a) => s.state = "READY"
      PROVE  Claim
  <2>1. PutTo(a, b, t, s)
    BY <1>1, <1>3, PutFields
  <2> HIDE DEF b, r
  <2>2. Core(b) /\ Eases(a, b)
    <3>1. StaysHeld(r, s)
      BY <1>3 DEF StaysHeld
    <3>2. s \in TaskRecord
      BY <1>3 DEF MayBecome
    <3> QED
      BY <1>1, <1>3, <2>1, <3>1, <3>2, CorePut, EasesPut DEF r
  <2>3. /\ DOMAIN b.tasks = DOMAIN a.tasks /\ b.tasks[t] = s
        /\ \A u \in DOMAIN a.tasks : u # t => b.tasks[u] = a.tasks[u]
    BY <1>1, <1>3, <2>1, PutModel DEF MayBecome
  <2>4. Waits(b, t)
    BY <1>3, <2>3 DEF Waits
  <2>5. Untouched(a) => Untouched(b)
    BY <1>3, <2>3 DEF Untouched
  <2> QED
    BY <2>1, <2>2, <2>3, <2>4, <2>5 DEF PutTo
<1>4. CASE r.state = "PENDING" /\ deps \cap {"FAILED", "CANCELLED"} # {}
  <2> DEFINE s == Moved([r EXCEPT !.finished = a.now], "CANCELLED")
  <2>1. b = Put(s)
    BY <1>4 DEF Visit
  <2>2. s \in TaskRecord /\ TaskAgrees(s, a.now) /\ s.state = "CANCELLED" /\ Eased(r, s)
    BY <1>1, <1>4, SkippedRecord
  <2> HIDE DEF s
  <2>3. MayBecome(a, r, s) /\ s.state \notin Held /\ r.state \notin Held
    BY <1>4, <2>2 DEF MayBecome, Eased, Held, Active
  <2>4. ~ Untouched(a)
    BY <1>1, <1>4 DEF Untouched
  <2> HIDE DEF b, Claim, Put, r
  <2> QED
    BY <1>3, <2>1, <2>2, <2>3, <2>4
<1>5. CASE r.state = "PENDING" /\ deps \subseteq {"SUCCEEDED"}
  <2> DEFINE s == Moved(r, "READY")
  <2>1. b = Put(s)
    BY <1>5 DEF Visit
  <2>2. s \in TaskRecord /\ TaskAgrees(s, a.now) /\ s.state = "READY" /\ Eased(r, s)
    BY <1>1, <1>5, ReadyRecord
  <2> HIDE DEF s
  <2>3. MayBecome(a, r, s) /\ s.state \notin Held /\ r.state \notin Held
    BY <1>5, <2>2 DEF MayBecome, Eased, Held
  <2> HIDE DEF b, Claim, Put, r
  <2> QED
    BY <1>3, <2>1, <2>2, <2>3
<1>6. CASE r.state = "RETRY_WAIT" /\ r.retryAt <= a.now
  <2> DEFINE s == Moved([r EXCEPT !.retryAt = Nil, !.finished = Nil], "READY")
  <2>1. b = Put(s)
    BY <1>6 DEF Visit
  <2>2. s \in TaskRecord /\ TaskAgrees(s, a.now) /\ s.state = "READY" /\ Eased(r, s)
    BY <1>1, <1>6, RetriedRecord
  <2>3. \A d \in r.needs : a.tasks[d].state = "SUCCEEDED"
    BY <1>6 DEF Core, NeedsDone, Active
  <2> HIDE DEF s
  <2>4. MayBecome(a, r, s) /\ s.state \notin Held /\ r.state \notin Held
    BY <1>6, <2>2, <2>3 DEF MayBecome, Eased, Held
  <2> HIDE DEF b, Claim, Put, r
  <2> QED
    BY <1>3, <2>1, <2>2, <2>4
<1>7. CASE /\ ~ (r.state = "PENDING" /\ deps \cap {"FAILED", "CANCELLED"} # {})
           /\ ~ (r.state = "PENDING" /\ deps \subseteq {"SUCCEEDED"})
           /\ ~ (r.state = "RETRY_WAIT" /\ r.retryAt <= a.now)
  <2>1. b = a
    BY <1>7 DEF Visit
  <2>2. Waits(a, t)
    BY <1>2, <1>7 DEF Waits, Final, States
  <2> HIDE DEF b
  <2> QED
    BY <2>1, <2>2, EasesItself
<1> QED
  BY <1>4, <1>5, <1>6, <1>7

(* The tasks at the places in s were visited. *)
AfterVisits(a, s, y) ==
  /\ Core(y) /\ Eases(a, y)
  /\ y.workflows = a.workflows /\ y.leases = a.leases
  /\ y.closed = a.closed /\ y.workers = a.workers
  /\ \A i \in s : Waits(y, Flow(a).order[i])
  /\ Untouched(a) => Untouched(y)

LEMMA VisitTurn ==
  ASSUME NEW a, Core(a), NEW s \in SUBSET Places(a), NEW e \in s, \A i \in s : i <= e,
         NEW y, AfterVisits(a, s \ {e}, y)
  PROVE  AfterVisits(a, s, Visit(y, Flow(a).order[e]))
<1> DEFINE o == Flow(a).order
           t == o[e]
           z == Visit(y, t)
<1>1. /\ Core(y) /\ Eases(a, y) /\ y.workflows = a.workflows /\ y.leases = a.leases
      /\ y.closed = a.closed /\ y.workers = a.workers
      /\ \A i \in s \ {e} : Waits(y, o[i])
      /\ Untouched(a) => Untouched(y)
  BY DEF AfterVisits
<1>2. Flow(y) = Flow(a) /\ Places(y) = Places(a) /\ DOMAIN y.tasks = DOMAIN a.tasks
  BY <1>1 DEF Flow, Places, Eases
<1>3. t \in DOMAIN y.tasks
  BY <1>1, <1>2, OrderFacts
<1>4. /\ Core(z) /\ Eases(y, z) /\ Waits(z, t) /\ z.workflows = y.workflows /\ z.leases = y.leases
      /\ z.closed = y.closed /\ z.workers = y.workers
      /\ \A u \in DOMAIN y.tasks : u # t => z.tasks[u] = y.tasks[u]
      /\ Untouched(y) => Untouched(z)
  BY <1>1, <1>3, VisitKeeps
<1> HIDE DEF z, o
<1>5. /\ \A i \in Places(a) : o[i] \in DOMAIN y.tasks
      /\ \A i, k \in Places(a) : o[i] = o[k] => i = k
      /\ \A k \in Places(a) : \A d \in y.tasks[o[k]].needs : \E i \in 1..(k - 1) : o[i] = d
  BY <1>1, <1>2, OrderFacts DEF o
<1>6. ASSUME NEW i \in s \ {e} PROVE Waits(z, o[i])
  <2>1. i \in Places(a) /\ e \in Places(a) /\ i <= e /\ i # e
    OBVIOUS
  <2>2. Places(a) = 1..Len(o) /\ Len(o) \in Nat
    BY OrderFacts DEF Places, o
  <2>3. o[i] # t
    BY <1>5, <2>1 DEF t
  <2>4. z.tasks[o[i]] = y.tasks[o[i]]
    BY <1>4, <1>5, <2>1, <2>3
  <2>5. ASSUME NEW d \in y.tasks[o[i]].needs PROVE z.tasks[d] = y.tasks[d]
    <3>1. PICK j \in 1..(i - 1) : o[j] = d
      BY <1>5, <2>1
    <3>2. j \in Places(a) /\ j # e
      BY <2>1, <2>2
    <3>3. d \in DOMAIN y.tasks /\ d # t
      BY <1>5, <2>1, <3>1, <3>2 DEF t
    <3> QED
      BY <1>4, <3>3
  <2>6. Waits(y, o[i])
    BY <1>1 DEF o
  <2> QED
    BY <2>4, <2>5, <2>6 DEF Waits
<1>7. Eases(a, z)
  BY <1>1, <1>4, EasesOn
<1>8. AfterVisits(a, s, z)
  BY <1>1, <1>4, <1>6, <1>7 DEF AfterVisits, o, t
<1> QED
  BY <1>8 DEF z, o

VisitsTo(a, o, g) ==
  [s \in SUBSET DOMAIN o |->
     IF s = {} THEN a ELSE Visit(g[s \ {Max(s)}], o[Max(s)])]

VisitAll(a) == FoldLeft(Visit, a, Flow(a).order)

LEMMA VisitAllIs ==
  ASSUME NEW a
  PROVE  VisitAll(a) = (CHOOSE g : g = VisitsTo(a, Flow(a).order, g))[DOMAIN Flow(a).order]
  BY DEF VisitAll, FoldLeft, MapThenFoldSet, VisitsTo

LEMMA VisitAllKeeps ==
  ASSUME NEW a, Core(a)
  PROVE  AfterVisits(a, Places(a), VisitAll(a))
<1> DEFINE T == Places(a)
           o == Flow(a).order
           C == [s \in SUBSET T |-> Max(s)]
           F == [i \in T |-> [y \in Model |-> Visit(y, o[i])]]
           Q == {p \in (SUBSET T) \X Model : AfterVisits(a, p[1], p[2])}
           h == CHOOSE g : g = VisitsTo(a, o, g)
<1>1. IsFiniteSet(T) /\ T = 1..Len(o) /\ DOMAIN o = T /\ Len(o) \in Nat
  BY OrderFacts DEF Places
<1>2. \A s \in SUBSET T : s # {} => C[s] \in s /\ C[s] = Max(s) /\ \A i \in s : i <= C[s]
  BY <1>1, LastPlace
<1>3. ASSUME NEW s \in SUBSET T, s # {}, NEW y, <<s \ {C[s]}, y>> \in Q
      PROVE  <<s, Visit(y, o[C[s]])>> \in Q
  <2>1. C[s] \in s /\ \A i \in s : i <= C[s]
    BY <1>2, <1>3
  <2>2. AfterVisits(a, s \ {C[s]}, y)
    BY <1>3
  <2>3. AfterVisits(a, s, Visit(y, o[C[s]]))
    <3> HIDE DEF C
    <3> QED
      BY <2>1, <2>2, VisitTurn
  <2>4. Visit(y, o[C[s]]) \in Model
    BY <2>3 DEF AfterVisits, Core
  <2> QED
    BY <2>3, <2>4
<1>4. <<{}, a>> \in Q
  <2>1. AfterVisits(a, {}, a)
    BY EasesItself DEF AfterVisits
  <2> QED
    BY <2>1 DEF Core
<1>5. \A s, y : <<s, y>> \in Q => y \in Model /\ AfterVisits(a, s, y)
  OBVIOUS
<1>6. \A i \in T, y \in Model : F[i][y] = Visit(y, o[i])
  OBVIOUS
<1>7. Chooses(C, T)
  BY <1>2 DEF Chooses
<1> HIDE DEF T, C, F, Q, h, o
<1>8. PICK g : g = Folds(T, C, a, F, g)
  <2>1. IsFiniteSet(T)
    BY <1>1
  <2> QED
    BY <1>7, <2>1, FoldExists
<1>9. g[{}] = a /\ \A s \in SUBSET T : s # {} => g[s] = F[C[s]][g[s \ {C[s]}]]
  <2>1. \A s \in SUBSET T : g[s] = IF s = {} THEN a ELSE F[C[s]][g[s \ {C[s]}]]
    BY <1>8 DEF Folds
  <2> QED
    BY <2>1
<1>10. \A s \in SUBSET T : s # {} => C[s] \in T
  BY <1>7 DEF Chooses
<1>11. \A s \in SUBSET T : <<s, g[s]>> \in Q
  <2>1. ASSUME NEW s \in SUBSET T, s # {}, <<s \ {C[s]}, g[s \ {C[s]}]>> \in Q
        PROVE  <<s, g[s]>> \in Q
    <3>1. g[s] = Visit(g[s \ {C[s]}], o[C[s]])
      BY <1>5, <1>6, <1>9, <1>10, <2>1
    <3> QED
      BY <1>3, <2>1, <3>1
  <2>2. <<{}, g[{}]>> \in Q
    BY <1>4, <1>9
  <2>3. \A s \in SUBSET T :
          s # {} /\ <<s \ {C[s]}, g[s \ {C[s]}]>> \in Q => <<s, g[s]>> \in Q
    BY <2>1
  <2>4. IsFiniteSet(T)
    BY <1>1
  <2> QED
    BY <1>7, <2>2, <2>3, <2>4, FoldHolds
<1>12. g = VisitsTo(a, o, g)
  <2>1. ASSUME NEW s \in SUBSET T, s # {}
        PROVE  g[s] = Visit(g[s \ {Max(s)}], o[Max(s)])
    <3>1. s \ {C[s]} \in SUBSET T
      OBVIOUS
    <3>2. g[s] = Visit(g[s \ {C[s]}], o[C[s]])
      BY <1>5, <1>6, <1>9, <1>10, <1>11, <2>1, <3>1
    <3> QED
      BY <1>2, <2>1, <3>2
  <2>2. g = [s \in SUBSET T |-> IF s = {} THEN a ELSE F[C[s]][g[s \ {C[s]}]]]
    BY <1>8 DEF Folds
  <2>3. \A s \in SUBSET T : (IF s = {} THEN a ELSE F[C[s]][g[s \ {C[s]}]]) =
          IF s = {} THEN a ELSE Visit(g[s \ {Max(s)}], o[Max(s)])
    BY <1>9, <2>1
  <2> QED
    BY <1>1, <2>2, <2>3 DEF VisitsTo
<1>13. h = VisitsTo(a, o, h)
  BY <1>12 DEF h
<1>14. /\ h[{}] = a
       /\ \A s \in SUBSET T : s # {} => h[s] = Visit(h[s \ {C[s]}], o[C[s]])
  <2>1. \A s \in SUBSET T : h[s] =
          IF s = {} THEN a ELSE Visit(h[s \ {Max(s)}], o[Max(s)])
    BY <1>1, <1>13 DEF VisitsTo
  <2> QED
    BY <1>2, <2>1
<1>15. \A s \in SUBSET T : <<s, h[s]>> \in Q
  <2>1. ASSUME NEW s \in SUBSET T, s # {}, <<s \ {C[s]}, h[s \ {C[s]}]>> \in Q
        PROVE  <<s, h[s]>> \in Q
    BY <1>3, <1>14, <2>1
  <2>2. <<{}, h[{}]>> \in Q
    BY <1>4, <1>14
  <2>3. \A s \in SUBSET T :
          s # {} /\ <<s \ {C[s]}, h[s \ {C[s]}]>> \in Q => <<s, h[s]>> \in Q
    BY <2>1
  <2>4. IsFiniteSet(T)
    BY <1>1
  <2> QED
    BY <1>7, <2>2, <2>3, <2>4, FoldHolds
<1>16. AfterVisits(a, T, h[T])
  BY <1>5, <1>15
<1> QED
  BY <1>1, <1>16, VisitAllIs DEF h, T, o

-----------------------------------------------------------------------------
(* recompute: the state of the workflow. *)

LEMMA StatesAre ==
  ASSUME NEW a \in Model
  PROVE  StatesOf(a, FirstWorkflow) = {a.tasks[t].state : t \in DOMAIN a.tasks}
<1>1. \A t \in DOMAIN a.tasks : a.tasks[t].wf = FirstWorkflow
  <2>1. \A t \in DOMAIN a.tasks : a.tasks[t] \in TaskRecord
    BY ModelFacts
  <2> QED
    BY <2>1 DEF TaskRecord
<1> QED
  BY <1>1 DEF StatesOf, TasksOf

(* If every task the loop left pending waits for one that is not over, and no
   task is active, then none is pending. *)
LEMMA NonePending ==
  ASSUME NEW a, Core(a), \A t \in DOMAIN a.tasks : Waits(a, t),
         \A t \in DOMAIN a.tasks : a.tasks[t].state \notin Active
  PROVE  \A t \in DOMAIN a.tasks : a.tasks[t].state \in Final
<1> DEFINE o == Flow(a).order
           Bad == {i \in Places(a) : a.tasks[o[i]].state = "PENDING"}
<1>1. \A t \in DOMAIN a.tasks : a.tasks[t].state \in Final \cup {"PENDING"}
  <2>1. \A t \in DOMAIN a.tasks : a.tasks[t].state \in States
    <3>1. \A t \in DOMAIN a.tasks : a.tasks[t] \in TaskRecord
      BY ModelFacts DEF Core
    <3> QED
      BY <3>1 DEF TaskRecord
  <2> QED
    BY <2>1 DEF States, Active, Final
<1>2. /\ Len(o) \in Nat /\ Places(a) = 1..Len(o)
      /\ \A t \in DOMAIN a.tasks : \E i \in Places(a) : o[i] = t
      /\ \A i \in Places(a) : o[i] \in DOMAIN a.tasks
      /\ \A k \in Places(a) : \A d \in a.tasks[o[k]].needs : \E i \in 1..(k - 1) : o[i] = d
  BY OrderFacts DEF Places
<1> HIDE DEF o
<1>3. SUFFICES ASSUME Bad # {} PROVE FALSE
  BY <1>1, <1>2
<1>4. PICK i \in Bad : \A k \in Bad : i <= k
  <2>1. Bad \in SUBSET Nat
    BY <1>2
  <2> HIDE DEF Bad
  <2> QED
    BY <1>3, <2>1, LeastNat
<1>5. i \in Places(a) /\ o[i] \in DOMAIN a.tasks /\ a.tasks[o[i]].state = "PENDING"
  BY <1>2
<1>6. PICK d \in a.tasks[o[i]].needs : a.tasks[d].state \notin Final
  BY <1>5 DEF Waits
<1>7. PICK j \in 1..(i - 1) : o[j] = d
  BY <1>2, <1>5
<1>8. j \in Places(a) /\ j < i
  BY <1>2, <1>5
<1>9. j \notin Bad
  <2>1. ~ (i <= j)
    BY <1>2, <1>5, <1>8
  <2> HIDE DEF Bad
  <2> QED
    BY <1>4, <2>1
<1> QED
  BY <1>1, <1>2, <1>6, <1>7, <1>8, <1>9

GivenTo(a, b, verdict) ==
  /\ IsRecord(b)
  /\ b.now = a.now /\ b.counter = a.counter /\ b.tasks = a.tasks
  /\ b.workers = a.workers /\ b.leases = a.leases /\ b.closed = a.closed
  /\ b.workflows \in [{FirstWorkflow} -> WorkflowRecord]
  /\ Flow(b).state = verdict /\ SameFlow(a, b)
  /\ Flow(b).finished = IF verdict \in Final THEN a.now ELSE Flow(a).finished

LEMMA GivenFields ==
  ASSUME NEW a \in Model, NEW v \in Final \cup Open
  PROVE  GivenTo(a, Given(a, FirstWorkflow, v), v)
<1> DEFINE b == Given(a, FirstWorkflow, v)
           w == Flow(a)
           fin == IF v \in Final THEN a.now ELSE w.finished
           x == [w EXCEPT !.state = v, !.finished = fin]
<1>1. a.now \in Nat /\ w \in WorkflowRecord /\ a.workflows \in [{FirstWorkflow} -> WorkflowRecord]
  BY ModelFacts
<1>2. fin \in Instant
  BY <1>1 DEF WorkflowRecord, Instant
<1>3. /\ x \in WorkflowRecord /\ x.state = v /\ x.finished = fin
      /\ x.order = w.order /\ x.created = w.created
  <2> HIDE DEF fin
  <2> QED
    BY <1>1, <1>2 DEF WorkflowRecord
<1>4. b = [a EXCEPT !.workflows[FirstWorkflow] = x]
  <2>1. b = [a EXCEPT !.workflows[FirstWorkflow].state = v,
                      !.workflows[FirstWorkflow].finished = fin]
    BY <1>1 DEF Given, Flow
  <2> HIDE DEF b, fin
  <2> QED
    BY <1>1, <2>1 DEF Flow, Model, WorkflowRecord
<1> HIDE DEF b, x, fin
<1>5. /\ IsRecord(b) /\ b.now = a.now /\ b.counter = a.counter /\ b.tasks = a.tasks
      /\ b.workers = a.workers /\ b.leases = a.leases /\ b.closed = a.closed
      /\ b.workflows = [a.workflows EXCEPT ![FirstWorkflow] = x]
  BY <1>4 DEF Model, IsRecord
<1>6. b.workflows \in [{FirstWorkflow} -> WorkflowRecord] /\ Flow(b) = x
  BY <1>1, <1>3, <1>5 DEF Flow
<1> QED
  BY <1>3, <1>5, <1>6 DEF GivenTo, SameFlow, b, fin

LEMMA GivenKeeps ==
  ASSUME NEW a, Core(a), Flow(a).state \notin Final, NEW v \in Final \cup Open,
         NEW b, GivenTo(a, b, v)
  PROVE  Core(b) /\ Eases(a, b)
<1>1. /\ a \in Model /\ a.now \in Nat /\ Flow(a) \in WorkflowRecord
      /\ a.tasks \in Tables(TaskId, TaskRecord) /\ a.workers \in Tables(Nat, WorkerRecord)
      /\ a.leases \in SUBSET LeaseRecord /\ a.closed \in SUBSET TokenSet /\ a.counter \in Nat
  BY ModelFacts DEF Core
<1>2. b \in Model
  BY <1>1, ModelFrom DEF GivenTo
<1>3. LeasesAgree(b) /\ TokensAgree(b) /\ WorkersAgree(b) /\ TasksAgree(b) /\ NeedsDone(b)
  BY DEF Core, GivenTo, LeasesAgree, LeaseAgrees, TokensAgree, Tokens, WorkersAgree,
         TasksAgree, NeedsDone
<1>4. FlowAgrees(b)
  <2> DEFINE w == Flow(a)
             x == Flow(b)
  <2>1. /\ x.order = w.order /\ x.created = w.created /\ x.state = v
        /\ x.finished = IF v \in Final THEN a.now ELSE w.finished
        /\ b.tasks = a.tasks /\ b.now = a.now
    BY DEF GivenTo, SameFlow
  <2>2. IsOrder(a, w.order) /\ w.created <= a.now /\ w.finished = Nil
    BY DEF Core, FlowAgrees
  <2>3. IsOrder(b, x.order)
    BY <2>1, <2>2 DEF IsOrder
  <2> HIDE DEF w, x
  <2>4. /\ x.created <= b.now /\ (x.state \in Final <=> x.finished # Nil)
        /\ x.finished # Nil => x.created <= x.finished
    BY <1>1, <2>1, <2>2 DEF Nil
  <2> QED
    BY <2>3, <2>4 DEF FlowAgrees, x
<1>5. Eases(a, b)
  BY EasedSteps DEF GivenTo, Eases, SameStaff, Tokens, Indexed
<1> QED
  BY <1>2, <1>3, <1>4, <1>5 DEF Core

(* What recompute leaves: nothing was leased or closed, and a workflow that is
   over is quiet. *)
Recomputed(a, b) ==
  /\ Core(b) /\ Quiet(b) /\ Eases(a, b)
  /\ b.leases = a.leases /\ b.closed = a.closed /\ b.workers = a.workers
  /\ Untouched(a) => Untouched(b)

LEMMA RecomputeKeeps ==
  ASSUME NEW a, Core(a), Quiet(a)
  PROVE  Recomputed(a, Recompute(a, FirstWorkflow))
<1> DEFINE f == FirstWorkflow
           y == VisitAll(a)
           states == {y.tasks[t].state : t \in DOMAIN y.tasks}
           v == Verdict(states)
           b == Recompute(a, f)
<1>1. CASE Flow(a).state \in Final
  <2>1. b = a
    BY <1>1 DEF Recompute, Flow
  <2> QED
    BY <2>1, EasesItself DEF Recomputed
<1>2. CASE Flow(a).state \notin Final
  <2>1. AfterVisits(a, Places(a), y)
    BY VisitAllKeeps
  <2>2. /\ Core(y) /\ Eases(a, y) /\ y.workflows = a.workflows /\ y.leases = a.leases
        /\ y.closed = a.closed /\ y.workers = a.workers /\ (Untouched(a) => Untouched(y))
        /\ \A i \in Places(a) : Waits(y, Flow(a).order[i])
    BY <2>1 DEF AfterVisits
  <2>3. Flow(y) = Flow(a) /\ DOMAIN y.tasks = DOMAIN a.tasks /\ y \in Model
    BY <2>2 DEF Flow, Eases, Core
  <2>4. b = Given(y, f, v)
    <3>1. b = Decided(y, f)
      BY <1>2 DEF Recompute, Flow, VisitAll
    <3>2. StatesOf(y, f) = states
      BY <2>3, StatesAre
    <3> HIDE DEF y, states, b
    <3> QED
      BY <3>1, <3>2 DEF Decided
  <2>5. /\ v \in Final \cup Open
        /\ v = "SUCCEEDED" => states = {"SUCCEEDED"}
        /\ v \in Final => states = {"SUCCEEDED"} \/ states \cap Active = {}
    <3> HIDE DEF states
    <3> QED
      BY DEF Verdict, Final, Open
  <2> HIDE DEF b, y, v, f
  <2>6. GivenTo(y, b, v)
    BY <2>3, <2>4, <2>5, GivenFields DEF f
  <2>7. Core(b) /\ Eases(y, b)
    BY <1>2, <2>2, <2>3, <2>5, <2>6, GivenKeeps
  <2>8. b.tasks = y.tasks /\ Flow(b).state = v
    BY <2>6 DEF GivenTo
  <2>9. v \in Final => \A t \in DOMAIN y.tasks : y.tasks[t].state \in Final
    <3>1. \A t \in DOMAIN y.tasks : Waits(y, t)
      BY <2>2, <2>3, OrderFacts
    <3>2. CASE states = {"SUCCEEDED"}
      BY <3>2 DEF Final
    <3>3. CASE states \cap Active = {}
      <4>1. \A t \in DOMAIN y.tasks : y.tasks[t].state \notin Active
        BY <3>3
      <4> QED
        BY <2>2, <3>1, <4>1, NonePending
    <3> QED
      BY <2>5, <3>2, <3>3
  <2>10. v = "SUCCEEDED" => \A t \in DOMAIN y.tasks : y.tasks[t].state = "SUCCEEDED"
    BY <2>5
  <2>11. Quiet(b)
    BY <2>8, <2>9, <2>10 DEF Quiet
  <2>12. Eases(a, b)
    BY <2>2, <2>7, EasesOn
  <2>13. /\ b.leases = a.leases /\ b.closed = a.closed /\ b.workers = a.workers
         /\ Untouched(a) => Untouched(b)
    BY <2>2, <2>6 DEF GivenTo, Untouched
  <2>14. Recomputed(a, b)
    BY <2>7, <2>11, <2>12, <2>13 DEF Recomputed
  <2> QED
    BY <2>14 DEF b, f
<1> QED
  BY <1>1, <1>2

RecomputesTo(a, S, g) ==
  [s \in SUBSET S |->
     IF s = {} THEN a
     ELSE Recompute(g[s \ {CHOOSE x \in s : TRUE}], CHOOSE x \in s : TRUE)]

(* There is one workflow. *)
LEMMA RecomputeAllIs ==
  ASSUME NEW a \in Model
  PROVE  RecomputeAll(a) = Recompute(a, FirstWorkflow)
<1> DEFINE f == FirstWorkflow
           S == {f}
           h == CHOOSE g : g = RecomputesTo(a, S, g)
           g == [s \in SUBSET S |-> IF s = {} THEN a ELSE Recompute(a, f)]
<1>1. RecomputeAll(a) = h[S]
  <2>1. DOMAIN a.workflows = S
    BY ModelFacts
  <2>2. RecomputeAll(a) = (CHOOSE k : k = RecomputesTo(a, DOMAIN a.workflows, k))[DOMAIN a.workflows]
    BY DEF RecomputeAll, FoldSet, MapThenFoldSet, RecomputesTo
  <2> QED
    BY <2>1, <2>2
<1>2. \A s \in SUBSET S : s # {} => s = S /\ (CHOOSE x \in s : TRUE) = f
  OBVIOUS
<1>3. g = RecomputesTo(a, S, g)
  <2>1. {} \in SUBSET S /\ g[{}] = a
    OBVIOUS
  <2>2. S \ {f} = {}
    OBVIOUS
  <2>3. \A s \in SUBSET S : s # {} =>
          Recompute(g[s \ {CHOOSE x \in s : TRUE}], CHOOSE x \in s : TRUE) = Recompute(a, f)
    <3> TAKE s \in SUBSET S
    <3> HAVE s # {}
    <3>1. (CHOOSE x \in s : TRUE) = f /\ s \ {f} = {}
      BY <1>2, <2>2
    <3> HIDE DEF g, f
    <3> QED
      BY <2>1, <3>1
  <2> QED
    BY <2>3 DEF RecomputesTo
<1> HIDE DEF g
<1>4. h = RecomputesTo(a, S, h)
  BY <1>3
<1> HIDE DEF h
<1>5. h[{}] = a
  BY <1>4 DEF RecomputesTo
<1>6. h[S] = Recompute(h[S \ {f}], f)
  <2>1. S # {} /\ S \in SUBSET S
    OBVIOUS
  <2>2. h[S] = Recompute(h[S \ {CHOOSE x \in S : TRUE}], CHOOSE x \in S : TRUE)
    BY <1>4, <2>1 DEF RecomputesTo
  <2>3. (CHOOSE x \in S : TRUE) = f
    BY <1>2, <2>1
  <2> HIDE DEF f
  <2> QED
    BY <2>2, <2>3
<1>7. S \ {f} = {}
  OBVIOUS
<1> QED
  BY <1>1, <1>5, <1>6, <1>7

-----------------------------------------------------------------------------
(* sweep and advance. *)

LEMMA FinalStays ==
  ASSUME NEW r, NEW s, Eased(r, s), r.state \in Final
  PROVE  s.state = r.state
<1>1. r.state \notin Idle \cup Held
  BY StateSets
<1> QED
  BY <1>1 DEF Eased, Loosens

LEMMA QuietEased ==
  ASSUME NEW a, Quiet(a), NEW b, Eases(a, b), Flow(b).state = Flow(a).state
  PROVE  Quiet(b)
<1>1. \A t \in DOMAIN a.tasks : a.tasks[t].state \in Final => b.tasks[t].state = a.tasks[t].state
  BY FinalStays DEF Eases
<1> QED
  BY <1>1 DEF Quiet, Eases, Final

(* A method that gives no lease and no result. *)
Calms(a, b) == Core(b) /\ Quiet(b) /\ Live(b) /\ Eases(a, b)

LEMMA SweepKeeps ==
  ASSUME NEW a, Core(a), Quiet(a)
  PROVE  /\ Calms(a, Sweep(a))
         /\ Sweep(a).leases = {l \in a.leases : l.expires > a.now}
<1> DEFINE y == ExpireAll(a)
           b == Sweep(a)
<1>1. Core(y) /\ Eases(a, y) /\ y.workflows = a.workflows /\ y.leases = a.leases \ Expired(a)
  BY ExpireAllKeeps DEF AfterExpiry
<1>2. Quiet(y)
  BY <1>1, QuietEased DEF Flow
<1>3. b = Recompute(y, FirstWorkflow)
  <2>1. b = RecomputeAll(y)
    BY DEF Sweep, ExpireAll
  <2> HIDE DEF b, y
  <2> QED
    BY <1>1, <2>1, RecomputeAllIs DEF Core
<1> HIDE DEF b, y
<1>4. Recomputed(y, b)
  BY <1>1, <1>2, <1>3, RecomputeKeeps
<1>5. Core(b) /\ Quiet(b) /\ Eases(y, b) /\ b.leases = y.leases
  BY <1>4 DEF Recomputed
<1>6. Eases(a, b)
  BY <1>1, <1>5, EasesOn
<1>7. a.now \in Nat /\ \A l \in a.leases : l.expires \in Nat
  <2>1. a.now \in Nat /\ a.leases \in SUBSET LeaseRecord
    BY ModelFacts DEF Core
  <2> QED
    BY <2>1 DEF LeaseRecord
<1>8. b.leases = {l \in a.leases : l.expires > a.now}
  BY <1>1, <1>5, <1>7 DEF Expired
<1>9. Live(b)
  BY <1>6, <1>8 DEF Live, Eases
<1> QED
  BY <1>5, <1>6, <1>8, <1>9 DEF b, Calms

(* Time alone. *)
Later(a, milliseconds) == [a EXCEPT !.now = @ + milliseconds]

LEMMA LaterFields ==
  ASSUME NEW a \in Model, NEW k \in Nat
  PROVE  /\ Later(a, k) \in Model
         /\ Later(a, k).now = a.now + k /\ Later(a, k).counter = a.counter
         /\ Later(a, k).workflows = a.workflows /\ Later(a, k).tasks = a.tasks
         /\ Later(a, k).workers = a.workers /\ Later(a, k).leases = a.leases
         /\ Later(a, k).closed = a.closed
  BY DEF Later, Model

LEMMA LaterKeeps ==
  ASSUME NEW a, Core(a), Quiet(a), NEW k \in Nat
  PROVE  Core(Later(a, k)) /\ Quiet(Later(a, k))
<1> DEFINE b == Later(a, k)
<1>1. /\ b \in Model /\ b.now = a.now + k /\ b.counter = a.counter
      /\ b.workflows = a.workflows /\ b.tasks = a.tasks /\ b.workers = a.workers
      /\ b.leases = a.leases /\ b.closed = a.closed
  BY LaterFields DEF Core
<1> HIDE DEF b
<1>2. a.now \in Nat /\ a.now <= b.now /\ b.now \in Nat
  BY <1>1, ModelFacts DEF Core
<1>3. LeasesAgree(b)
  <2>1. \A l \in a.leases : l.acquired \in Nat
    BY LeaseFacts DEF LeaseRecord
  <2>2. \A l \in a.leases : LeaseAgrees(a, l) => LeaseAgrees(b, l)
    BY <1>1, <1>2, <2>1 DEF LeaseAgrees
  <2> QED
    BY <1>1, <2>2 DEF Core, LeasesAgree
<1>4. TokensAgree(b) /\ WorkersAgree(b) /\ NeedsDone(b) /\ Quiet(b)
  BY <1>1 DEF Core, TokensAgree, Tokens, WorkersAgree, NeedsDone, Quiet, Flow
<1>5. TasksAgree(b)
  <2> SUFFICES ASSUME NEW t \in DOMAIN a.tasks PROVE TaskAgrees(a.tasks[t], b.now)
    BY <1>1 DEF TasksAgree
  <2>1. TaskAgrees(a.tasks[t], a.now) /\ a.tasks[t] \in TaskRecord
    BY ModelFacts DEF Core, TasksAgree
  <2>2. a.tasks[t].started \in Int /\ a.tasks[t].finished \in Int
    BY <2>1 DEF TaskRecord, Instant, Nil
  <2> QED
    BY <1>2, <2>1, <2>2 DEF TaskAgrees
<1>6. FlowAgrees(b)
  <2>1. FlowAgrees(a) /\ Flow(b) = Flow(a) /\ Flow(a).created \in Nat
    BY <1>1, ModelFacts DEF Core, Flow, WorkflowRecord
  <2>2. IsOrder(b, Flow(b).order)
    <3> DEFINE o == Flow(a).order
    <3>1. IsOrder(a, o) /\ Flow(b).order = o
      BY <2>1 DEF FlowAgrees
    <3> HIDE DEF o
    <3>2. IsOrder(b, o)
      BY <1>1, <3>1 DEF IsOrder
    <3> QED
      BY <3>1, <3>2
  <2>3. Flow(b).created <= b.now
    BY <1>2, <2>1 DEF FlowAgrees
  <2> QED
    BY <2>1, <2>2, <2>3 DEF FlowAgrees
<1> QED
  BY <1>1, <1>3, <1>4, <1>5, <1>6 DEF Core, b

LEMMA AdvanceIs ==
  ASSUME NEW a, NEW k
  PROVE  Advance(a, k) = Sweep(Later(a, k))
  BY DEF Advance, Later

-----------------------------------------------------------------------------
(* Tokens.  Between two methods no lease is over, so a token is either that of
   a lease its task is held under, and usable, or refused. *)

LEMMA NotAToken == NoToken \notin TokenSet
<1>1. ASSUME NoToken \in TokenSet PROVE FALSE
  <2>1. PICK x \in Nat, y \in Nat : <<>> = <<x, y>>
    BY <1>1 DEF NoToken, TokenSet
  <2>2. Len(<<>>) = 0 /\ Len(<<x, y>>) = 2
    OBVIOUS
  <2> QED
    BY <2>1, <2>2
<1> QED
  BY <1>1

LEMMA LeaseTimes ==
  ASSUME NEW a, Core(a), Live(a), NEW l \in a.leases
  PROVE  l.expires \in Nat /\ a.now \in Nat /\ l.expires > a.now
<1>1. a.now \in Nat /\ l \in LeaseRecord
  BY LeaseFacts, ModelFacts DEF Core
<1> QED
  BY <1>1 DEF LeaseRecord, Live

LEMMA TokenIsOwned ==
  ASSUME NEW a, Core(a), Live(a), NEW k \in Tokens(a)
  PROVE  /\ LeaseOf(a, k) \in a.leases /\ LeaseOf(a, k).token = k
         /\ Usable(a, k) /\ Owned(a, k)
<1>1. PICK l \in a.leases : l.token = k
  BY DEF Tokens
<1>2. LeaseOf(a, k) = l
  BY <1>1, LeaseOfToken
<1>3. l.expires > a.now /\ a.tasks[l.task].token = l.token
  BY LeaseTimes, LeaseFacts
<1> QED
  BY <1>1, <1>2, <1>3 DEF Usable, Owned

LEMMA NoTokenIsRefused ==
  ASSUME NEW a, NEW k, k \notin Tokens(a)
  PROVE  /\ ~ Usable(a, k) /\ ~ Owned(a, k)
         /\ Unusable(a, k).m = a /\ NotOwned(a, k).m = a
  BY DEF Usable, Owned, NotOwned, Unusable, Raises

LEMMA RefusedIsSame ==
  ASSUME NEW a, NEW k
  PROVE  /\ StaleComplete(a, k).m = a /\ StaleRenew(a, k).m = a
         /\ DuplicateComplete(a, k).m = a
  BY DEF StaleComplete, StaleRenew, DuplicateComplete, Refused, Raises

-----------------------------------------------------------------------------
(* start, append_log and renew. *)

LEMMA PutCalms ==
  ASSUME NEW a, Core(a), Quiet(a), Live(a), NEW t \in DOMAIN a.tasks, NEW s,
         a.tasks[t].state \in Held, s.state \in Held, Eased(a.tasks[t], s),
         StaysHeld(a.tasks[t], s), s \in TaskRecord, TaskAgrees(s, a.now),
         NEW b, b = [a EXCEPT !.tasks[t] = s]
  PROVE  Calms(a, b)
<1> DEFINE r == a.tasks[t]
<1>1. PutTo(a, b, t, s) /\ a \in Model
  BY PutFields DEF Core
<1>2. MayBecome(a, r, s)
  <2>1. \A d \in r.needs : a.tasks[d].state = "SUCCEEDED"
    BY StateSets DEF Core, NeedsDone
  <2>2. r.state # "SUCCEEDED" /\ SameSpec(r, s)
    BY DEF Held, Eased
  <2> HIDE DEF r
  <2> QED
    BY <2>1, <2>2 DEF MayBecome
<1>3. Core(b)
  BY <1>1, <1>2, CorePut
<1>4. Eases(a, b)
  BY <1>1, EasesPut
<1>5. Flow(b) = Flow(a) /\ Live(b)
  BY <1>1 DEF PutTo, Flow, Live
<1> QED
  BY <1>3, <1>4, <1>5, QuietEased DEF Calms

LEMMA StartedRecord ==
  ASSUME NEW a, a.now \in Nat, NEW r \in TaskRecord, TaskAgrees(r, a.now), r.state = "LEASED",
         NEW s, s = Started(a, r)
  PROVE  /\ s \in TaskRecord /\ TaskAgrees(s, a.now) /\ s.state = "RUNNING"
         /\ Eased(r, s) /\ StaysHeld(r, s) /\ s.retry = r.retry /\ s.attempt = r.attempt
<1>1. "RUNNING" \in AllowedTransitions[r.state] /\ "RUNNING" \in States
  BY Transitions DEF States
<1>2. Moved(r, "RUNNING") = [r EXCEPT !.state = "RUNNING"]
  BY <1>1, MovedIsRecord
<1>3. s = [[r EXCEPT !.state = "RUNNING"] EXCEPT !.started = a.now]
  BY <1>2 DEF Started
<1>4. s \in TaskRecord
  BY <1>1, <1>3 DEF TaskRecord, Instant
<1>5. /\ s.wf = r.wf /\ s.needs = r.needs /\ s.labels = r.labels /\ s.retry = r.retry
      /\ s.state = "RUNNING" /\ s.attempt = r.attempt /\ s.token = r.token
      /\ s.owner = r.owner /\ s.until = r.until /\ s.retryAt = r.retryAt
      /\ s.started = a.now /\ s.finished = r.finished
  BY <1>3 DEF TaskRecord
<1>6. "LEASED" \in Held /\ "RUNNING" \in Held
  BY DEF Held
<1>7. r.finished = Nil /\ r.retryAt = Nil /\ r.attempt >= 1
  BY <1>6 DEF TaskAgrees
<1>8. TaskAgrees(s, a.now)
  <2>1. Nil <= a.now
    BY DEF Nil
  <2> QED
    BY <1>5, <1>6, <1>7, <2>1 DEF TaskAgrees
<1>9. Eased(r, s) /\ StaysHeld(r, s)
  BY <1>5, <1>6 DEF Eased, SameSpec, Loosens, StaysHeld
<1> QED
  BY <1>4, <1>5, <1>8, <1>9

LEMMA SameCalms ==
  ASSUME NEW a, Core(a), Quiet(a), Live(a)
  PROVE  Calms(a, a)
  BY EasesItself DEF Calms

LEMMA LeasedTask ==
  ASSUME NEW a, Core(a), NEW l \in a.leases
  PROVE  /\ l.task \in DOMAIN a.tasks /\ a.tasks[l.task] \in TaskRecord
         /\ TaskAgrees(a.tasks[l.task], a.now) /\ a.now \in Nat
         /\ a.tasks[l.task].state \in Held /\ a.tasks[l.task].token = l.token
         /\ a.tasks[l.task].needs \subseteq DOMAIN a.tasks
  BY LeaseFacts, ModelFacts, NeedsAreTasks DEF Core, TasksAgree

LEMMA StartKeeps ==
  ASSUME NEW a, Core(a), Quiet(a), Live(a), NEW k
  PROVE  /\ Calms(a, Start(a, k).m)
         /\ k \in Tokens(a) => Start(a, k).error = "none"
<1>1. CASE k \notin Tokens(a)
  <2>1. Start(a, k) = NotOwned(a, k)
    BY <1>1, NoTokenIsRefused DEF Start
  <2> QED
    BY <1>1, <2>1, NoTokenIsRefused, SameCalms
<1>2. CASE k \in Tokens(a)
  <2> DEFINE l == LeaseOf(a, k)
             t == l.task
             r == a.tasks[t]
             b == Start(a, k)
  <2>1. l \in a.leases /\ l.token = k /\ Owned(a, k)
    BY <1>2, TokenIsOwned
  <2> HIDE DEF l
  <2>2. t \in DOMAIN a.tasks /\ r \in TaskRecord /\ TaskAgrees(r, a.now) /\ a.now \in Nat
        /\ r.state \in Held
    BY <2>1, LeasedTask
  <2>3. CASE r.state = "LEASED"
    <3> DEFINE s == Started(a, r)
    <3>1. b = Done([a EXCEPT !.tasks[t] = s])
      BY <2>1, <2>3 DEF Start, l
    <3>2. /\ s \in TaskRecord /\ TaskAgrees(s, a.now) /\ s.state = "RUNNING"
          /\ Eased(r, s) /\ StaysHeld(r, s)
      BY <2>2, <2>3, StartedRecord
    <3>3. s.state \in Held
      BY <3>2 DEF Held
    <3> HIDE DEF s
    <3>4. Calms(a, [a EXCEPT !.tasks[t] = s])
      BY <2>2, <3>2, <3>3, PutCalms
    <3> QED
      BY <3>1, <3>4 DEF Done
  <2>4. CASE r.state = "RUNNING"
    <3>1. b = Done(a)
      BY <2>1, <2>4 DEF Start, l
    <3> QED
      BY <3>1, SameCalms DEF Done
  <2> QED
    BY <2>2, <2>3, <2>4 DEF Held
<1> QED
  BY <1>1, <1>2

LEMMA AppendKeeps ==
  ASSUME NEW a, Core(a), Quiet(a), Live(a), NEW k, NEW size \in Nat
  PROVE  /\ Calms(a, AppendLog(a, k, size).m)
         /\ k \in Tokens(a) /\ size <= ChunkLimit =>
              AppendLog(a, k, size).error \in {"none", "task_output_limit"}
<1>1. CASE k \notin Tokens(a)
  <2>1. AppendLog(a, k, size) = Unusable(a, k)
    BY <1>1, NoTokenIsRefused DEF AppendLog
  <2> QED
    BY <1>1, <2>1, NoTokenIsRefused, SameCalms
<1>2. CASE k \in Tokens(a)
  <2> DEFINE l == LeaseOf(a, k)
             t == l.task
             r == a.tasks[t]
             b == AppendLog(a, k, size)
             s == [r EXCEPT !.output = @ + size]
  <2>1. l \in a.leases /\ l.token = k /\ Usable(a, k)
    BY <1>2, TokenIsOwned
  <2> HIDE DEF l
  <2>2. t \in DOMAIN a.tasks /\ r \in TaskRecord /\ TaskAgrees(r, a.now) /\ a.now \in Nat
        /\ r.state \in Held
    BY <2>1, LeasedTask
  <2>3. ChunkLimit \in Nat /\ OutputLimit \in Nat
    BY LimitAssumption
  <2>4. CASE size > ChunkLimit
    <3>1. b = Raises(a, "log_chunk_too_large")
      BY <2>1, <2>4 DEF AppendLog, l
    <3>2. ~ (size <= ChunkLimit)
      BY <2>3, <2>4
    <3> QED
      BY <3>1, <3>2, SameCalms DEF Raises
  <2>5. CASE ~ (size > ChunkLimit) /\ r.output + size > OutputLimit
    <3>1. b = Raises(a, "task_output_limit")
      BY <2>1, <2>5 DEF AppendLog, l
    <3> QED
      BY <3>1, SameCalms DEF Raises
  <2>6. CASE ~ (size > ChunkLimit) /\ ~ (r.output + size > OutputLimit)
    <3>1. b = Done([a EXCEPT !.tasks[t].output = @ + size])
      BY <2>1, <2>6 DEF AppendLog, l
    <3>2. [a EXCEPT !.tasks[t].output = @ + size] = [a EXCEPT !.tasks[t] = s]
      OBVIOUS
    <3>3. s \in TaskRecord
      <4>1. r.output \in Nat /\ r.output + size \in 0..OutputLimit
        <5>1. r.output \in 0..OutputLimit
          BY <2>2 DEF TaskRecord
        <5> QED
          BY <2>3, <2>6, <5>1
      <4> HIDE DEF r
      <4> QED
        BY <2>2, <4>1 DEF TaskRecord
    <3>4. /\ s.wf = r.wf /\ s.needs = r.needs /\ s.labels = r.labels /\ s.retry = r.retry
          /\ s.state = r.state /\ s.attempt = r.attempt /\ s.token = r.token
          /\ s.owner = r.owner /\ s.until = r.until /\ s.retryAt = r.retryAt
          /\ s.started = r.started /\ s.finished = r.finished
      <4> HIDE DEF r
      <4> QED
        BY <2>2 DEF TaskRecord
    <3>5. TaskAgrees(s, a.now) /\ Eased(r, s) /\ StaysHeld(r, s)
      <4> HIDE DEF r, s
      <4> QED
        BY <2>2, <3>4 DEF TaskAgrees, Eased, SameSpec, Loosens, StaysHeld
    <3> HIDE DEF s
    <3>6. Calms(a, [a EXCEPT !.tasks[t] = s])
      BY <2>2, <3>3, <3>4, <3>5, PutCalms
    <3> QED
      BY <3>1, <3>2, <3>6 DEF Done
  <2> QED
    BY <2>4, <2>5, <2>6
<1> QED
  BY <1>1, <1>2

(* The lease l of a, its duration anew. *)
Renewed(l, until) == [l EXCEPT !.expires = until]

Prolonged(r, until) == [r EXCEPT !.until = until]

RenewedTo(a, b, l, until) ==
  /\ IsRecord(b)
  /\ b.now = a.now /\ b.counter = a.counter /\ b.workflows = a.workflows
  /\ b.workers = a.workers /\ b.closed = a.closed
  /\ b.leases = (a.leases \ {l}) \cup {Renewed(l, until)}
  /\ b.tasks = [a.tasks EXCEPT ![l.task] = Prolonged(a.tasks[l.task], until)]

LEMMA RenewedFacts ==
  ASSUME NEW l \in LeaseRecord, NEW until \in Nat, NEW r \in TaskRecord, NEW j, NEW s,
         j = Renewed(l, until), s = Prolonged(r, until)
  PROVE  /\ j \in LeaseRecord /\ j.token = l.token /\ j.wf = l.wf /\ j.task = l.task
         /\ j.worker = l.worker /\ j.acquired = l.acquired /\ j.expires = until
         /\ s \in TaskRecord /\ s.until = until /\ s.token = r.token /\ s.owner = r.owner
         /\ s.state = r.state /\ s.attempt = r.attempt /\ s.retryAt = r.retryAt
         /\ s.started = r.started /\ s.finished = r.finished /\ SameSpec(r, s)
<1>1. /\ j \in LeaseRecord /\ j.token = l.token /\ j.wf = l.wf /\ j.task = l.task
      /\ j.worker = l.worker /\ j.acquired = l.acquired /\ j.expires = until
  BY DEF Renewed, LeaseRecord
<1>2. /\ s \in TaskRecord /\ s.until = until /\ s.token = r.token /\ s.owner = r.owner
      /\ s.state = r.state /\ s.attempt = r.attempt /\ s.retryAt = r.retryAt
      /\ s.started = r.started /\ s.finished = r.finished /\ SameSpec(r, s)
  BY DEF Prolonged, TaskRecord, Instant, SameSpec
<1> QED
  BY <1>1, <1>2

LEMMA RenewedLeases ==
  ASSUME NEW a, Core(a), NEW l \in a.leases, NEW until \in Nat, until > a.now,
         NEW b, RenewedTo(a, b, l, until), DOMAIN b.tasks = DOMAIN a.tasks,
         b.tasks[l.task] = Prolonged(a.tasks[l.task], until),
         \A u \in DOMAIN a.tasks : u # l.task => b.tasks[u] = a.tasks[u]
  PROVE  /\ LeasesAgree(b) /\ Tokens(b) = Tokens(a) /\ WorkersAgree(b)
         /\ Indexed(a) => Indexed(b)
<1> DEFINE j == Renewed(l, until)
           r == a.tasks[l.task]
           s == b.tasks[l.task]
<1>1. /\ l \in LeaseRecord /\ r \in TaskRecord /\ r.state \in Held /\ r.token = l.token
      /\ r.owner = l.worker /\ l.task \in DOMAIN a.tasks /\ l.worker \in DOMAIN a.workers
      /\ l.acquired <= a.now /\ a.now \in Nat
  BY LeaseFacts, LeasedTask
<1>2. /\ j.token = l.token /\ j.task = l.task /\ j.worker = l.worker
      /\ j.acquired = l.acquired /\ j.expires = until
      /\ s.until = until /\ s.token = r.token /\ s.owner = r.owner /\ s.state = r.state
  BY <1>1, RenewedFacts
<1>3. l.acquired \in Nat
  BY <1>1 DEF LeaseRecord
<1> HIDE DEF j, r, s
<1>4. b.leases = (a.leases \ {l}) \cup {j} /\ b.now = a.now /\ b.workers = a.workers
  BY DEF RenewedTo, j
<1>5. IsFiniteSet(a.leases) /\ \A i, k \in a.leases : i.token = k.token => i = k
  BY DEF Core, LeasesAgree
<1>6. IsFiniteSet(b.leases)
  <2>1. IsFiniteSet(a.leases \ {l})
    BY <1>5, FS_Subset
  <2> QED
    BY <1>4, <2>1, FS_AddElement
<1>7. LeaseAgrees(b, j)
  <2>1. b.tasks[j.task] = s
    BY <1>2 DEF s
  <2>2. j.acquired < j.expires /\ j.acquired <= b.now
    BY <1>1, <1>2, <1>3, <1>4
  <2> QED
    BY <1>1, <1>2, <1>4, <2>1, <2>2 DEF LeaseAgrees
<1>8. ASSUME NEW i \in a.leases, i # l PROVE i.token # l.token /\ LeaseAgrees(b, i)
  <2>1. i.token # l.token /\ LeaseAgrees(a, i)
    BY <1>5, <1>8 DEF Core, LeasesAgree
  <2>2. i.task # l.task
    BY <1>1, <2>1 DEF LeaseAgrees, r
  <2> QED
    BY <1>4, <2>1, <2>2 DEF LeaseAgrees
<1>9. ASSUME NEW u \in DOMAIN b.tasks, b.tasks[u].state \in Held
      PROVE  \E i \in b.leases : i.task = u
  <2>1. CASE u = l.task
    BY <1>2, <1>4, <2>1
  <2>2. CASE u # l.task
    <3>1. PICK i \in a.leases : i.task = u
      BY <1>9, <2>2 DEF Core, LeasesAgree
    <3> QED
      BY <1>4, <2>2, <3>1
  <2> QED
    BY <2>1, <2>2
<1>10. LeasesAgree(b)
  <2>1. \A i \in b.leases : LeaseAgrees(b, i)
    BY <1>4, <1>7, <1>8
  <2>2. \A i, k \in b.leases : i.token = k.token => i = k
    BY <1>2, <1>4, <1>5, <1>8
  <2> QED
    BY <1>6, <1>9, <2>1, <2>2 DEF LeasesAgree
<1>11. \A i \in a.leases : \E k \in b.leases : k.token = i.token /\ k.worker = i.worker
  BY <1>2, <1>4
<1>12. \A i \in b.leases : \E k \in a.leases : k.token = i.token /\ k.worker = i.worker
  BY <1>2, <1>4
<1>13. Tokens(b) = Tokens(a)
  BY <1>11, <1>12 DEF Tokens
<1>14. WorkersAgree(b)
  BY <1>4, <1>11 DEF Core, WorkersAgree
<1>15. ASSUME Indexed(a) PROVE Indexed(b)
  BY <1>4, <1>12, <1>15 DEF Indexed
<1> QED
  BY <1>10, <1>13, <1>14, <1>15

LEMMA RenewCalms ==
  ASSUME NEW a, Core(a), Quiet(a), Live(a), NEW l \in a.leases, NEW until \in Nat,
         until > a.now, NEW b, RenewedTo(a, b, l, until)
  PROVE  Calms(a, b)
<1> DEFINE t == l.task
           r == a.tasks[t]
           s == Prolonged(r, until)
<1>1. /\ a \in Model /\ l \in LeaseRecord /\ t \in DOMAIN a.tasks /\ r \in TaskRecord
      /\ TaskAgrees(r, a.now) /\ r.state \in Held /\ a.now \in Nat
  BY LeaseFacts, LeasedTask DEF Core
<1>2. Renewed(l, until) \in LeaseRecord /\ Renewed(l, until).expires = until
  BY <1>1, RenewedFacts
<1>3. /\ s \in TaskRecord /\ s.token = r.token /\ s.state = r.state /\ s.attempt = r.attempt
      /\ s.retryAt = r.retryAt /\ s.started = r.started /\ s.finished = r.finished
      /\ SameSpec(r, s)
  BY <1>1, RenewedFacts
<1>4. b.tasks = [a.tasks EXCEPT ![t] = s] /\ b.now = a.now /\ b.workflows = a.workflows
  BY DEF RenewedTo
<1> HIDE DEF s
<1>5. /\ DOMAIN b.tasks = DOMAIN a.tasks /\ b.tasks[t] = s
      /\ \A u \in DOMAIN a.tasks : u # t => b.tasks[u] = a.tasks[u]
  BY <1>1, <1>4, ModelFacts
<1>6. b \in Model
  <2>1. b.tasks \in Tables(TaskId, TaskRecord)
    BY <1>1, <1>3, <1>4, ModelFacts, TableFacts
  <2>2. b.leases \in SUBSET LeaseRecord
    BY <1>1, <1>2, ModelFacts DEF RenewedTo
  <2> QED
    BY <1>1, <2>1, <2>2, ModelFacts, ModelFrom DEF RenewedTo
<1>7. LeasesAgree(b) /\ Tokens(b) = Tokens(a) /\ WorkersAgree(b) /\ (Indexed(a) => Indexed(b))
  BY <1>5, RenewedLeases DEF s
<1>8. TokensAgree(b)
  BY <1>7 DEF Core, TokensAgree, RenewedTo
<1> HIDE DEF r
<1>9. TaskAgrees(s, a.now)
  BY <1>1, <1>3 DEF TaskAgrees
<1>10. TasksAgree(b) /\ MayBecome(a, r, s)
  <2>1. TasksAgree(b)
    BY <1>4, <1>5, <1>9 DEF Core, TasksAgree
  <2>2. \A d \in r.needs : a.tasks[d].state = "SUCCEEDED"
    BY <1>1, StateSets DEF Core, NeedsDone, r
  <2> QED
    BY <1>3, <1>9, <2>1, <2>2 DEF MayBecome
<1>11. NeedsDone(b)
  BY <1>1, <1>4, <1>10, NeedsAreTasks, NeedsPut DEF Core, r
<1>12. FlowAgrees(b)
  <2>1. \A u \in DOMAIN a.tasks : b.tasks[u].needs = a.tasks[u].needs
    BY <1>3, <1>5 DEF SameSpec, r
  <2> QED
    BY <1>4, <1>5, <2>1, OrderPut DEF Core
<1>13. Core(b)
  BY <1>6, <1>7, <1>8, <1>10, <1>11, <1>12 DEF Core
<1>14. Eases(a, b)
  <2>1. Eased(r, s)
    BY <1>3 DEF Eased, Loosens
  <2>2. \A u \in DOMAIN a.tasks : Eased(a.tasks[u], b.tasks[u])
    BY <1>5, <2>1, EasedSteps DEF r
  <2> QED
    BY <1>5, <1>7, <2>2 DEF Eases, RenewedTo, SameStaff, SameFlow, Flow
<1>15. Quiet(b)
  BY <1>4, <1>14, QuietEased DEF Flow
<1>16. Live(b)
  BY <1>2, <1>4 DEF Live, RenewedTo
<1> QED
  BY <1>13, <1>14, <1>15, <1>16 DEF Calms

LEMMA RenewKeeps ==
  ASSUME NEW a, Core(a), Quiet(a), Live(a), NEW k
  PROVE  /\ Calms(a, Renew(a, k).m)
         /\ k \in Tokens(a) => Renew(a, k).error = "none"
<1>1. CASE k \notin Tokens(a)
  <2>1. Renew(a, k) = NotOwned(a, k)
    BY <1>1, NoTokenIsRefused DEF Renew
  <2> QED
    BY <1>1, <2>1, NoTokenIsRefused, SameCalms
<1>2. CASE k \in Tokens(a)
  <2> DEFINE l == LeaseOf(a, k)
             until == a.now + LeaseDuration
             b == [a EXCEPT !.leases = (@ \ {l}) \cup {[l EXCEPT !.expires = until]},
                            !.tasks[l.task].until = until]
  <2>1. l \in a.leases /\ l.token = k /\ Owned(a, k)
    BY <1>2, TokenIsOwned
  <2>2. Renew(a, k) = Done(b)
    BY <2>1 DEF Renew
  <2> HIDE DEF l
  <2>3. a \in Model /\ l.task \in DOMAIN a.tasks /\ a.now \in Nat
    BY <2>1, LeasedTask DEF Core
  <2>4. until \in Nat /\ until > a.now
    BY <2>3, LimitAssumption
  <2> HIDE DEF until
  <2>5. RenewedTo(a, b, l, until)
    <3> DEFINE s == Prolonged(a.tasks[l.task], until)
               left == (a.leases \ {l}) \cup {Renewed(l, until)}
    <3>1. b = [a EXCEPT !.leases = left, !.tasks[l.task] = s]
      BY DEF Renewed, Prolonged
    <3> HIDE DEF s, left, b
    <3>2. /\ IsRecord(b) /\ b.now = a.now /\ b.counter = a.counter
          /\ b.workflows = a.workflows /\ b.workers = a.workers /\ b.closed = a.closed
          /\ b.leases = left /\ b.tasks = [a.tasks EXCEPT ![l.task] = s]
      BY <2>3, <3>1 DEF IsRecord, Model
    <3> QED
      BY <3>2 DEF RenewedTo, left, s
  <2> HIDE DEF b
  <2>6. Calms(a, b)
    BY <2>1, <2>4, <2>5, RenewCalms
  <2> QED
    BY <2>2, <2>6 DEF Done
<1> QED
  BY <1>1, <1>2

-----------------------------------------------------------------------------
(* complete: the result of one task, which may end the workflow. *)

FinishedWith == {"SUCCEEDED", "FAILED"}

Settles(a, b, t) ==
  /\ b.now = a.now /\ b.counter = a.counter
  /\ DOMAIN b.tasks = DOMAIN a.tasks
  /\ a.tasks[t].state \in Held /\ b.tasks[t].state \in FinishedWith
  /\ b.tasks[t].token = NoToken
  /\ SameSpec(a.tasks[t], b.tasks[t]) /\ b.tasks[t].attempt = a.tasks[t].attempt
  /\ \A u \in DOMAIN a.tasks : u # t => Eased(a.tasks[u], b.tasks[u])
  /\ SameStaff(a, b) /\ SameFlow(a, b)
  /\ a.closed \subseteq b.closed
  /\ Tokens(b) \cup b.closed = Tokens(a) \cup a.closed
  /\ Indexed(a) => Indexed(b)

LEMMA SettlesOn ==
  ASSUME NEW a, NEW b, NEW c, NEW t \in DOMAIN a.tasks, Settles(a, b, t), Eases(b, c)
  PROVE  Settles(a, c, t)
<1>1. \A u \in DOMAIN a.tasks : Eased(b.tasks[u], c.tasks[u])
  BY DEF Settles, Eases
<1>2. \A u \in DOMAIN a.tasks : u # t => Eased(a.tasks[u], c.tasks[u])
  BY <1>1, EasedSteps DEF Settles
<1>3. /\ c.tasks[t].state = b.tasks[t].state /\ c.tasks[t].token = NoToken
      /\ SameSpec(b.tasks[t], c.tasks[t]) /\ c.tasks[t].attempt = b.tasks[t].attempt
  <2>1. b.tasks[t].state \in Final
    BY DEF Settles, FinishedWith, Final
  <2>2. c.tasks[t].state = b.tasks[t].state
    BY <1>1, <2>1, FinalStays
  <2>3. c.tasks[t].token = b.tasks[t].token \/ c.tasks[t].token = NoToken
    BY <1>1 DEF Eased, Loosens
  <2> QED
    BY <1>1, <2>2, <2>3 DEF Settles, Eased
<1>4. SameSpec(a.tasks[t], c.tasks[t]) /\ SameStaff(a, c) /\ SameFlow(a, c)
  BY <1>3 DEF Settles, Eases, SameSpec, SameStaff, SameFlow
<1> QED
  BY <1>2, <1>3, <1>4 DEF Settles, Eases

LEMMA SettlesFreed ==
  ASSUME NEW a, Core(a), NEW l \in a.leases, NEW s \in TaskRecord, SameSpec(a.tasks[l.task], s),
         s.state \in FinishedWith, s.token = NoToken, s.attempt = a.tasks[l.task].attempt,
         NEW b, FreedTo(a, b, l, s)
  PROVE  Settles(a, b, l.task)
<1>1. /\ a \in Model /\ l.task \in DOMAIN a.tasks /\ l.worker \in DOMAIN a.workers
      /\ a.tasks[l.task].state \in Held
  BY LeaseFacts DEF Core
<1>2. /\ DOMAIN b.tasks = DOMAIN a.tasks /\ b.tasks[l.task] = s
      /\ \A u \in DOMAIN a.tasks : u # l.task => b.tasks[u] = a.tasks[u]
  BY <1>1, FreedModel
<1>3. \A u \in DOMAIN a.tasks : u # l.task => Eased(a.tasks[u], b.tasks[u])
  BY <1>2, EasedSteps
<1>4. SameStaff(a, b) /\ SameFlow(a, b)
  BY FreedWorkers DEF FreedTo, SameFlow, Flow
<1>5. /\ a.closed \subseteq b.closed /\ b.now = a.now /\ b.counter = a.counter
      /\ Tokens(b) \cup b.closed = Tokens(a) \cup a.closed
  BY FreedTokens DEF FreedTo
<1> QED
  BY <1>1, <1>2, <1>3, <1>4, <1>5, FreedIndexed DEF Settles

(* A finished attempt without its lease. *)
LEMMA FinishedRecord ==
  ASSUME NEW y, y.now \in Nat, NEW r \in TaskRecord, TaskAgrees(r, y.now), r.state = "RUNNING",
         NEW succeeded \in BOOLEAN, NEW q, q = Unheld([r EXCEPT !.finished = y.now]),
         NEW s, s = Finished(y, q, succeeded)
  PROVE  /\ s \in TaskRecord /\ TaskAgrees(s, y.now)
         /\ s.state \in FinishedWith \cup {"RETRY_WAIT"}
         /\ s.token = NoToken /\ SameSpec(r, s) /\ s.attempt = r.attempt
<1>1. q = [r EXCEPT !.finished = y.now, !.token = NoToken, !.owner = NoOwner, !.until = Nil]
  BY DEF Unheld
<1>2. q \in TaskRecord
  BY <1>1 DEF TaskRecord, Instant
<1>3. /\ q.wf = r.wf /\ q.needs = r.needs /\ q.labels = r.labels /\ q.retry = r.retry
      /\ q.state = "RUNNING" /\ q.attempt = r.attempt /\ q.token = NoToken
      /\ q.owner = NoOwner /\ q.until = Nil /\ q.retryAt = r.retryAt
      /\ q.started = r.started /\ q.finished = y.now
  BY <1>1 DEF TaskRecord
<1>4. r.retryAt = Nil /\ r.started <= y.now
  BY DEF TaskAgrees
<1>5. ASSUME NEW v \in States, v \in AllowedTransitions["RUNNING"], NEW x, x = Moved(q, v)
      PROVE  /\ x \in TaskRecord /\ x.state = v
             /\ x.wf = r.wf /\ x.needs = r.needs /\ x.labels = r.labels /\ x.retry = r.retry
             /\ x.attempt = r.attempt /\ x.token = NoToken
             /\ x.owner = NoOwner /\ x.until = Nil /\ x.retryAt = Nil
             /\ x.started = r.started /\ x.finished = y.now
  <2>1. x = [q EXCEPT !.state = v]
    BY <1>2, <1>3, <1>5, MovedIsRecord
  <2>2. x \in TaskRecord
    BY <1>2, <1>5, <2>1 DEF TaskRecord
  <2> QED
    BY <1>2, <1>3, <1>4, <2>1, <2>2 DEF TaskRecord
<1>6. CASE s = Moved(q, "SUCCEEDED") \/ s = Moved(q, "FAILED")
  <2>1. PICK v \in FinishedWith : s = Moved(q, v)
    BY <1>6 DEF FinishedWith
  <2>2. v \in States /\ v \in AllowedTransitions["RUNNING"]
    BY Transitions DEF FinishedWith, States
  <2>3. /\ s \in TaskRecord /\ s.state = v
        /\ s.wf = r.wf /\ s.needs = r.needs /\ s.labels = r.labels /\ s.retry = r.retry
        /\ s.attempt = r.attempt /\ s.token = NoToken
        /\ s.owner = NoOwner /\ s.until = Nil /\ s.retryAt = Nil
        /\ s.started = r.started /\ s.finished = y.now
    BY <1>5, <2>1, <2>2
  <2>4. TaskAgrees(s, y.now)
    BY <1>4, <2>3 DEF TaskAgrees, Held, FinishedWith
  <2> QED
    BY <2>3, <2>4 DEF SameSpec
<1>7. CASE s = [Moved(q, "RETRY_WAIT") EXCEPT !.retryAt = y.now + Delay(q.retry, q.attempt)]
  <2> DEFINE x == Moved(q, "RETRY_WAIT")
             at == y.now + Delay(q.retry, q.attempt)
  <2>1. /\ x \in TaskRecord /\ x.state = "RETRY_WAIT"
        /\ x.wf = r.wf /\ x.needs = r.needs /\ x.labels = r.labels /\ x.retry = r.retry
        /\ x.attempt = r.attempt /\ x.token = NoToken
        /\ x.owner = NoOwner /\ x.until = Nil
        /\ x.started = r.started /\ x.finished = y.now
    BY <1>5, Transitions DEF States
  <2>2. at \in Nat
    <3>1. q.retry \in RetryRecord /\ q.attempt \in Nat
      BY <1>2 DEF TaskRecord
    <3>2. Delay(q.retry, q.attempt) \in Nat
      BY <3>1, DelayIsTime
    <3> QED
      BY <3>2
  <2>3. s = [x EXCEPT !.retryAt = at]
    BY <1>7
  <2> HIDE DEF x, at
  <2>4. /\ s \in TaskRecord /\ s.state = "RETRY_WAIT" /\ s.retryAt = at
        /\ s.wf = r.wf /\ s.needs = r.needs /\ s.labels = r.labels /\ s.retry = r.retry
        /\ s.attempt = r.attempt /\ s.token = NoToken
        /\ s.owner = NoOwner /\ s.until = Nil
        /\ s.started = r.started /\ s.finished = y.now
    BY <2>1, <2>2, <2>3 DEF TaskRecord, Instant
  <2>5. TaskAgrees(s, y.now)
    BY <1>4, <2>2, <2>4 DEF TaskAgrees, Held, Nil
  <2> QED
    BY <2>4, <2>5 DEF SameSpec
<1> QED
  BY <1>6, <1>7 DEF Finished

LEMMA PutThenFreed ==
  ASSUME NEW a, NEW l, NEW q, NEW b, PutTo(a, b, l.task, q), NEW c, NEW s, FreedTo(b, c, l, s)
  PROVE  FreedTo(a, c, l, s)
  BY DEF FreedTo, PutTo

(* What complete makes of a held task's model, before it recomputes. *)
LEMMA ResultKeeps ==
  ASSUME NEW a, Core(a), Quiet(a), Live(a), NEW l \in a.leases, NEW s,
         s \in TaskRecord, TaskAgrees(s, a.now), s.state \in FinishedWith \cup {"RETRY_WAIT"},
         s.token = NoToken, SameSpec(a.tasks[l.task], s), s.attempt = a.tasks[l.task].attempt,
         NEW z, FreedTo(a, z, l, s)
  PROVE  /\ Core(z) /\ Quiet(z) /\ Live(z)
         /\ Eases(a, z) \/ Settles(a, z, l.task)
<1> DEFINE r == a.tasks[l.task]
<1>1. r.state \in Held /\ l.task \in DOMAIN a.tasks
  BY LeasedTask
<1>2. MayBecome(a, r, s)
  <2>1. \A d \in r.needs : a.tasks[d].state = "SUCCEEDED"
    BY <1>1, StateSets DEF Core, NeedsDone
  <2>2. r.state # "SUCCEEDED"
    BY <1>1 DEF Held
  <2> QED
    BY <2>1, <2>2 DEF MayBecome
<1>3. Core(z)
  BY <1>2, CoreFreed DEF FinishedWith, Held
<1>4. Flow(z) = Flow(a) /\ z.now = a.now /\ z.leases = a.leases \ {l}
  BY DEF FreedTo, Flow
<1>5. Flow(a).state \notin Final
  BY QuietNoLeases
<1>6. Quiet(z)
  BY <1>4, <1>5 DEF Quiet, Final
<1>7. Live(z)
  BY <1>4 DEF Live
<1>8. CASE s.state \in FinishedWith
  BY <1>3, <1>6, <1>7, <1>8, SettlesFreed
<1>9. CASE s.state = "RETRY_WAIT"
  <2>1. Eased(r, s)
    BY <1>1, <1>9 DEF Eased, Loosens, Idle
  <2> QED
    BY <1>3, <1>6, <1>7, <2>1, EasesFreed
<1> QED
  BY <1>8, <1>9

Settled(a, b) ==
  /\ Core(b) /\ Quiet(b) /\ Live(b)
  /\ Eases(a, b) \/ \E t \in DOMAIN a.tasks : Settles(a, b, t)

LEMMA RecomputeSettles ==
  ASSUME NEW a, NEW t \in DOMAIN a.tasks, NEW z, Core(z), Quiet(z), Live(z),
         Eases(a, z) \/ Settles(a, z, t), NEW b, b = Recompute(z, FirstWorkflow)
  PROVE  Settled(a, b)
<1>1. Recomputed(z, b)
  BY RecomputeKeeps
<1>2. Core(b) /\ Quiet(b) /\ Eases(z, b) /\ b.leases = z.leases
  BY <1>1 DEF Recomputed
<1>3. Live(b)
  BY <1>2 DEF Live, Eases
<1>4. Eases(a, b) \/ Settles(a, b, t)
  BY <1>2, EasesOn, SettlesOn
<1> QED
  BY <1>2, <1>3, <1>4 DEF Settled

(* The task's record, its attempt over, before its lease is closed. *)
Begun(a, r) == IF r.state = "LEASED" THEN Started(a, r) ELSE r

Over(a, r) == [Begun(a, r) EXCEPT !.finished = a.now]

LEMMA BegunRecord ==
  ASSUME NEW a, a.now \in Nat, NEW r \in TaskRecord, TaskAgrees(r, a.now), r.state \in Held,
         NEW s, s = Begun(a, r)
  PROVE  /\ s \in TaskRecord /\ TaskAgrees(s, a.now) /\ s.state = "RUNNING"
         /\ SameSpec(r, s) /\ s.attempt = r.attempt /\ s.token = r.token
<1>1. CASE r.state = "LEASED"
  <2>1. s = Started(a, r)
    BY <1>1 DEF Begun
  <2> QED
    BY <1>1, <2>1, StartedRecord DEF Eased, StaysHeld
<1>2. CASE r.state = "RUNNING"
  BY <1>2 DEF Begun, SameSpec
<1> QED
  BY <1>1, <1>2 DEF Held

LEMMA CompleteKeeps ==
  ASSUME NEW a, Core(a), Quiet(a), Live(a), NEW k, NEW succeeded \in BOOLEAN
  PROVE  /\ Settled(a, Complete(a, k, succeeded).m)
         /\ k \in Tokens(a) => Complete(a, k, succeeded).error = "none"
<1>1. CASE k \notin Tokens(a)
  <2>1. Complete(a, k, succeeded) = NotOwned(a, k)
    BY <1>1, NoTokenIsRefused DEF Complete
  <2> QED
    BY <1>1, <2>1, NoTokenIsRefused, EasesItself DEF Settled
<1>2. CASE k \in Tokens(a)
  <2> DEFINE l == LeaseOf(a, k)
             t == l.task
             r == a.tasks[t]
             g == Begun(a, r)
             o == Over(a, r)
             x == [a EXCEPT !.tasks[t] = o]
             y == CloseLease(x, l)
             s == Finished(y, Unheld(o), succeeded)
             z == [y EXCEPT !.tasks[t] = s]
             b == Recompute(z, FirstWorkflow)
  <2>1. l \in a.leases /\ l.token = k /\ Owned(a, k)
    BY <1>2, TokenIsOwned
  <2>2. /\ l.worker \in DOMAIN a.workers /\ l.wf = FirstWorkflow /\ r.token = l.token
        /\ t \in DOMAIN a.tasks /\ r \in TaskRecord /\ TaskAgrees(r, a.now) /\ a.now \in Nat
        /\ r.state \in Held /\ a \in Model
    BY <2>1, LeasedTask, LeaseFacts DEF Core
  <2>3. Complete(a, k, succeeded) =
          Done(Closed(CloseLease([a EXCEPT !.tasks[l.task] =
                                   [Begun(a, r) EXCEPT !.finished = a.now]], l),
                      l, succeeded))
    BY <2>1, <2>2 DEF Complete, Begun
  <2>4. Complete(a, k, succeeded) = Done(Closed(y, l, succeeded))
    BY <2>3 DEF Over
  <2>5. /\ g \in TaskRecord /\ TaskAgrees(g, a.now) /\ g.state = "RUNNING"
        /\ SameSpec(r, g) /\ g.attempt = r.attempt /\ g.token = r.token
    BY <2>2, BegunRecord
  <2>6. o = [g EXCEPT !.finished = a.now]
    BY DEF Over
  <2>7. o \in TaskRecord /\ o.token = l.token
    <3> HIDE DEF o, g
    <3> QED
      BY <2>2, <2>5, <2>6 DEF TaskRecord, Instant
  <2> HIDE DEF l, r, g, o
  <2>8. PutTo(a, x, t, o) /\ x \in Model /\ x.tasks[t] = o /\ t \in DOMAIN x.tasks
        /\ x.leases = a.leases /\ x.workers = a.workers
    <3>1. PutTo(a, x, t, o)
      BY <2>2, PutFields
    <3> HIDE DEF x
    <3>2. x \in Model /\ x.tasks[t] = o /\ DOMAIN x.tasks = DOMAIN a.tasks
      BY <2>2, <2>7, <3>1, PutModel
    <3> QED
      BY <2>2, <3>1, <3>2 DEF PutTo
  <2> HIDE DEF x
  <2>9. FreedTo(x, y, l, Unheld(o)) /\ y \in Model
    BY <2>1, <2>2, <2>7, <2>8, CloseFields
  <2> HIDE DEF y
  <2>10. y.now = a.now /\ y.tasks[t] = Unheld(o)
    BY <2>8, <2>9, ModelFacts DEF FreedTo, PutTo
  <2>11. Closed(y, l, succeeded) = b
    BY <2>2, <2>10 DEF Closed
  <2>12. /\ s \in TaskRecord /\ TaskAgrees(s, a.now)
         /\ s.state \in FinishedWith \cup {"RETRY_WAIT"}
         /\ s.token = NoToken /\ SameSpec(g, s) /\ s.attempt = g.attempt
    <3>1. Unheld(o) = Unheld([g EXCEPT !.finished = y.now])
      BY <2>6, <2>10
    <3> QED
      BY <2>2, <2>5, <2>10, <3>1, FinishedRecord
  <2> HIDE DEF s
  <2>13. PutTo(y, z, t, s)
    BY <2>9, PutFields
  <2> HIDE DEF z
  <2>14. FreedTo(a, z, l, s)
    <3>1. FreedTo(x, z, l, s)
      BY <2>9, <2>13, FreedThenPut
    <3> QED
      BY <2>8, <3>1, PutThenFreed
  <2>15. SameSpec(r, s) /\ s.attempt = r.attempt
    BY <2>5, <2>12 DEF SameSpec
  <2>16. /\ Core(z) /\ Quiet(z) /\ Live(z)
         /\ Eases(a, z) \/ Settles(a, z, t)
    BY <2>1, <2>12, <2>14, <2>15, ResultKeeps DEF r
  <2>17. Settled(a, b)
    BY <2>2, <2>16, RecomputeSettles
  <2> QED
    BY <2>4, <2>11, <2>17 DEF Done
<1> QED
  BY <1>1, <1>2

-----------------------------------------------------------------------------
(* cancel_workflow. *)

LEMMA CancelTaskKeeps ==
  ASSUME NEW a, Core(a), NEW t \in DOMAIN a.tasks, NEW b, b = CancelTask(a, t)
  PROVE  /\ Core(b) /\ Eases(a, b) /\ b.workflows = a.workflows /\ b.leases \subseteq a.leases
         /\ b.tasks[t].state \in Final
<1> DEFINE r == a.tasks[t]
           s == Moved([Unheld(r) EXCEPT !.retryAt = Nil, !.finished = a.now], "CANCELLED")
<1>1. a \in Model /\ r \in TaskRecord /\ TaskAgrees(r, a.now) /\ a.now \in Nat
  BY ModelFacts DEF Core, TasksAgree
<1>2. CASE r.state \in Final
  BY <1>2, EasesItself DEF CancelTask
<1>3. CASE r.state \notin Final
  <2>1. s \in TaskRecord /\ TaskAgrees(s, a.now) /\ s.state = "CANCELLED" /\ Eased(r, s)
    BY <1>1, <1>3, CancelledRecord
  <2>2. MayBecome(a, r, s) /\ s.state \notin Held /\ s.state \in Final
    BY <1>3, <2>1 DEF MayBecome, Eased, Held, Final, Active
  <2>3. b = [WithoutLease(a, t) EXCEPT !.tasks[t] =
               Moved([Unheld(@) EXCEPT !.retryAt = Nil, !.finished = a.now], "CANCELLED")]
    BY <1>3 DEF CancelTask
  <2> HIDE DEF s
  <2>4. CASE r.state \in Held
    <3>1. PICK l \in a.leases : l.task = t /\ l.token = r.token
      BY <2>4, HeldFacts
    <3> DEFINE c == CloseLease(a, l)
    <3>2. WithoutLease(a, t) = c
      BY <3>1, LeaseOfToken DEF WithoutLease
    <3>3. FreedTo(a, c, l, Unheld(r)) /\ c \in Model
      BY <1>1, <3>1, LeaseFacts, CloseFields
    <3> HIDE DEF c
    <3>4. c.tasks[t] = Unheld(r)
      BY <1>1, <3>1, <3>3, ModelFacts DEF FreedTo
    <3>5. Unheld(Unheld(r)) = Unheld(r)
      BY <1>1 DEF Unheld, TaskRecord
    <3>6. b = [c EXCEPT !.tasks[t] = s]
      BY <2>3, <3>2, <3>4, <3>5 DEF s
    <3>7. PutTo(c, b, t, s)
      BY <3>3, <3>6, PutFields
    <3>8. FreedTo(a, b, l, s)
      BY <3>1, <3>3, <3>7, FreedThenPut
    <3>9. Core(b) /\ Eases(a, b)
      BY <2>1, <2>2, <3>1, <3>8, CoreFreed, EasesFreed
    <3>10. b.tasks[t] = s
      BY <1>1, <3>1, <3>8, ModelFacts DEF FreedTo
    <3> QED
      BY <2>2, <3>8, <3>9, <3>10 DEF FreedTo
  <2>5. CASE r.state \notin Held
    <3>1. r.token = NoToken
      BY <1>1, <2>5 DEF TaskAgrees
    <3>2. r.token \notin Tokens(a)
      BY <3>1, LeaseFacts, NotAToken DEF Tokens
    <3>3. b = [a EXCEPT !.tasks[t] = s]
      BY <2>3, <3>2 DEF WithoutLease, s
    <3>4. PutTo(a, b, t, s)
      BY <1>1, <3>3, PutFields
    <3>5. StaysHeld(r, s)
      BY <2>2, <2>5 DEF StaysHeld
    <3>6. Core(b) /\ Eases(a, b)
      BY <1>1, <2>1, <2>2, <3>4, <3>5, CorePut, EasesPut
    <3>7. b.tasks[t] = s
      BY <1>1, <2>1, <3>4, PutModel
    <3> QED
      BY <2>2, <3>4, <3>6, <3>7 DEF PutTo
  <2> QED
    BY <2>4, <2>5
<1> QED
  BY <1>2, <1>3

(* The tasks at the places in s are over. *)
AfterCancels(a, s, y) ==
  /\ Core(y) /\ Eases(a, y)
  /\ y.workflows = a.workflows /\ y.leases \subseteq a.leases
  /\ \A i \in s : y.tasks[Flow(a).order[i]].state \in Final

LEMMA CancelTurn ==
  ASSUME NEW a, Core(a), NEW s \in SUBSET Places(a), NEW e \in s,
         NEW y, AfterCancels(a, s \ {e}, y)
  PROVE  AfterCancels(a, s, CancelTask(y, Flow(a).order[e]))
<1> DEFINE t == Flow(a).order[e]
           z == CancelTask(y, t)
<1>1. /\ Core(y) /\ Eases(a, y) /\ y.workflows = a.workflows /\ y.leases \subseteq a.leases
      /\ \A i \in s \ {e} : y.tasks[Flow(a).order[i]].state \in Final
  BY DEF AfterCancels
<1>2. /\ DOMAIN y.tasks = DOMAIN a.tasks
      /\ \A i \in Places(a) : Flow(a).order[i] \in DOMAIN y.tasks
  BY <1>1, OrderFacts DEF Eases
<1>3. /\ Core(z) /\ Eases(y, z) /\ z.workflows = y.workflows /\ z.leases \subseteq y.leases
      /\ z.tasks[t].state \in Final
  BY <1>1, <1>2, CancelTaskKeeps
<1>4. \A i \in s \ {e} : z.tasks[Flow(a).order[i]].state \in Final
  <2> TAKE i \in s \ {e}
  <2>1. Flow(a).order[i] \in DOMAIN y.tasks
    BY <1>2
  <2>2. Eased(y.tasks[Flow(a).order[i]], z.tasks[Flow(a).order[i]])
    BY <1>3, <2>1 DEF Eases
  <2>3. z.tasks[Flow(a).order[i]].state = y.tasks[Flow(a).order[i]].state
    BY <1>1, <2>2, FinalStays
  <2> QED
    BY <1>1, <2>3
<1> HIDE DEF z
<1>5. Eases(a, z)
  BY <1>1, <1>3, EasesOn
<1>6. AfterCancels(a, s, z)
  BY <1>1, <1>3, <1>4, <1>5 DEF AfterCancels
<1> QED
  BY <1>6 DEF z

CancelsTo(a, o, g) ==
  [s \in SUBSET DOMAIN o |->
     IF s = {} THEN a ELSE CancelTask(g[s \ {Max(s)}], o[Max(s)])]

CancelAll(a) == FoldLeft(CancelTask, a, Flow(a).order)

LEMMA CancelAllIs ==
  ASSUME NEW a
  PROVE  CancelAll(a) = (CHOOSE g : g = CancelsTo(a, Flow(a).order, g))[DOMAIN Flow(a).order]
  BY DEF CancelAll, FoldLeft, MapThenFoldSet, CancelsTo

LEMMA CancelAllKeeps ==
  ASSUME NEW a, Core(a)
  PROVE  AfterCancels(a, Places(a), CancelAll(a))
<1> DEFINE T == Places(a)
           o == Flow(a).order
           C == [s \in SUBSET T |-> Max(s)]
           F == [i \in T |-> [y \in Model |-> CancelTask(y, o[i])]]
           Q == {p \in (SUBSET T) \X Model : AfterCancels(a, p[1], p[2])}
           h == CHOOSE g : g = CancelsTo(a, o, g)
<1>1. IsFiniteSet(T) /\ T = 1..Len(o) /\ DOMAIN o = T /\ Len(o) \in Nat
  BY OrderFacts DEF Places
<1>2. \A s \in SUBSET T : s # {} => C[s] \in s /\ C[s] = Max(s) /\ \A i \in s : i <= C[s]
  BY <1>1, LastPlace
<1>3. ASSUME NEW s \in SUBSET T, s # {}, NEW y, <<s \ {C[s]}, y>> \in Q
      PROVE  <<s, CancelTask(y, o[C[s]])>> \in Q
  <2>1. C[s] \in s
    BY <1>2, <1>3
  <2>2. AfterCancels(a, s \ {C[s]}, y)
    BY <1>3
  <2>3. AfterCancels(a, s, CancelTask(y, o[C[s]]))
    <3> HIDE DEF C
    <3> QED
      BY <2>1, <2>2, CancelTurn
  <2>4. CancelTask(y, o[C[s]]) \in Model
    BY <2>3 DEF AfterCancels, Core
  <2> QED
    BY <2>3, <2>4
<1>4. <<{}, a>> \in Q
  <2>1. AfterCancels(a, {}, a)
    BY EasesItself DEF AfterCancels
  <2> QED
    BY <2>1 DEF Core
<1>5. \A s, y : <<s, y>> \in Q => y \in Model /\ AfterCancels(a, s, y)
  OBVIOUS
<1>6. \A i \in T, y \in Model : F[i][y] = CancelTask(y, o[i])
  OBVIOUS
<1>7. Chooses(C, T)
  BY <1>2 DEF Chooses
<1> HIDE DEF T, C, F, Q, h, o
<1>8. PICK g : g = Folds(T, C, a, F, g)
  <2>1. IsFiniteSet(T)
    BY <1>1
  <2> QED
    BY <1>7, <2>1, FoldExists
<1>9. g[{}] = a /\ \A s \in SUBSET T : s # {} => g[s] = F[C[s]][g[s \ {C[s]}]]
  <2>1. \A s \in SUBSET T : g[s] = IF s = {} THEN a ELSE F[C[s]][g[s \ {C[s]}]]
    BY <1>8 DEF Folds
  <2> QED
    BY <2>1
<1>10. \A s \in SUBSET T : s # {} => C[s] \in T
  BY <1>7 DEF Chooses
<1>11. \A s \in SUBSET T : <<s, g[s]>> \in Q
  <2>1. ASSUME NEW s \in SUBSET T, s # {}, <<s \ {C[s]}, g[s \ {C[s]}]>> \in Q
        PROVE  <<s, g[s]>> \in Q
    <3>1. g[s] = CancelTask(g[s \ {C[s]}], o[C[s]])
      BY <1>5, <1>6, <1>9, <1>10, <2>1
    <3> QED
      BY <1>3, <2>1, <3>1
  <2>2. <<{}, g[{}]>> \in Q
    BY <1>4, <1>9
  <2>3. \A s \in SUBSET T :
          s # {} /\ <<s \ {C[s]}, g[s \ {C[s]}]>> \in Q => <<s, g[s]>> \in Q
    BY <2>1
  <2>4. IsFiniteSet(T)
    BY <1>1
  <2> QED
    BY <1>7, <2>2, <2>3, <2>4, FoldHolds
<1>12. g = CancelsTo(a, o, g)
  <2>1. ASSUME NEW s \in SUBSET T, s # {}
        PROVE  g[s] = CancelTask(g[s \ {Max(s)}], o[Max(s)])
    <3>1. s \ {C[s]} \in SUBSET T
      OBVIOUS
    <3>2. g[s] = CancelTask(g[s \ {C[s]}], o[C[s]])
      BY <1>5, <1>6, <1>9, <1>10, <1>11, <2>1, <3>1
    <3> QED
      BY <1>2, <2>1, <3>2
  <2>2. g = [s \in SUBSET T |-> IF s = {} THEN a ELSE F[C[s]][g[s \ {C[s]}]]]
    BY <1>8 DEF Folds
  <2>3. \A s \in SUBSET T : (IF s = {} THEN a ELSE F[C[s]][g[s \ {C[s]}]]) =
          IF s = {} THEN a ELSE CancelTask(g[s \ {Max(s)}], o[Max(s)])
    BY <1>9, <2>1
  <2> QED
    BY <1>1, <2>2, <2>3 DEF CancelsTo
<1>13. h = CancelsTo(a, o, h)
  BY <1>12 DEF h
<1>14. /\ h[{}] = a
       /\ \A s \in SUBSET T : s # {} => h[s] = CancelTask(h[s \ {C[s]}], o[C[s]])
  <2>1. \A s \in SUBSET T : h[s] =
          IF s = {} THEN a ELSE CancelTask(h[s \ {Max(s)}], o[Max(s)])
    BY <1>1, <1>13 DEF CancelsTo
  <2> QED
    BY <1>2, <2>1
<1>15. \A s \in SUBSET T : <<s, h[s]>> \in Q
  <2>1. ASSUME NEW s \in SUBSET T, s # {}, <<s \ {C[s]}, h[s \ {C[s]}]>> \in Q
        PROVE  <<s, h[s]>> \in Q
    BY <1>3, <1>14, <2>1
  <2>2. <<{}, h[{}]>> \in Q
    BY <1>4, <1>14
  <2>3. \A s \in SUBSET T :
          s # {} /\ <<s \ {C[s]}, h[s \ {C[s]}]>> \in Q => <<s, h[s]>> \in Q
    BY <2>1
  <2>4. IsFiniteSet(T)
    BY <1>1
  <2> QED
    BY <1>7, <2>2, <2>3, <2>4, FoldHolds
<1>16. AfterCancels(a, T, h[T])
  BY <1>5, <1>15
<1> QED
  BY <1>1, <1>16, CancelAllIs DEF h, T, o

LEMMA CancelKeeps ==
  ASSUME NEW a, Core(a), Quiet(a), Live(a), NEW f
  PROVE  /\ Calms(a, CancelWorkflow(a, f).m)
         /\ f = FirstWorkflow => CancelWorkflow(a, f).error = "none"
<1>1. DOMAIN a.workflows = {FirstWorkflow}
  BY ModelFacts DEF Core
<1>2. CASE f # FirstWorkflow
  <2>1. CancelWorkflow(a, f) = Raises(a, "unknown_workflow")
    BY <1>1, <1>2 DEF CancelWorkflow
  <2>2. CancelWorkflow(a, f).m = a
    <3>1. \A code : Raises(a, code).m = a
      BY DEF Raises
    <3> QED
      BY <2>1, <3>1, Zenon
  <2> QED
    BY <1>2, <2>2, SameCalms
<1>3. CASE f = FirstWorkflow /\ Flow(a).state \in Final
  <2>1. CancelWorkflow(a, f) = Done(a)
    BY <1>1, <1>3 DEF CancelWorkflow, Flow
  <2> QED
    BY <2>1, SameCalms DEF Done
<1>4. CASE f = FirstWorkflow /\ Flow(a).state \notin Final
  <2> DEFINE x == [a EXCEPT !.workflows[f].state = "CANCELLED",
                            !.workflows[f].finished = a.now]
             b == CancelAll(x)
             v == "CANCELLED"
  <2>1. x = Given(a, f, v)
    BY DEF Given, Final
  <2>2. v \in Final \cup Open /\ v \in Final
    BY DEF Final
  <2>3. a \in Model
    BY DEF Core
  <2>4. CancelWorkflow(a, f) = Done(FoldLeft(CancelTask, x, Flow(a).order))
    BY <1>1, <1>4 DEF CancelWorkflow, Flow
  <2> HIDE DEF x, v
  <2>5. GivenTo(a, x, v)
    BY <1>4, <2>1, <2>2, <2>3, GivenFields
  <2>6. Core(x) /\ Eases(a, x)
    BY <1>4, <2>2, <2>5, GivenKeeps
  <2>7. Flow(x).order = Flow(a).order /\ x.leases = a.leases /\ x.now = a.now
        /\ Flow(x).state = v
    BY <2>5 DEF GivenTo, SameFlow
  <2>8. CancelWorkflow(a, f) = Done(b)
    BY <2>4, <2>7 DEF CancelAll
  <2>9. AfterCancels(x, Places(x), b)
    BY <2>6, CancelAllKeeps
  <2> HIDE DEF b
  <2>10. /\ Core(b) /\ Eases(x, b) /\ b.workflows = x.workflows /\ b.leases \subseteq x.leases
         /\ \A i \in Places(x) : b.tasks[Flow(x).order[i]].state \in Final
    BY <2>9 DEF AfterCancels
  <2>11. \A t \in DOMAIN b.tasks : b.tasks[t].state \in Final
    BY <2>6, <2>10, OrderFacts DEF Eases
  <2>12. Quiet(b)
    BY <2>7, <2>10, <2>11 DEF Quiet, Flow, v
  <2>13. Live(b)
    BY <2>7, <2>10 DEF Live, Eases
  <2>14. Eases(a, b)
    BY <2>6, <2>10, EasesOn
  <2> QED
    BY <2>8, <2>10, <2>12, <2>13, <2>14 DEF Done, Calms
<1> QED
  BY <1>2, <1>3, <1>4

-----------------------------------------------------------------------------
(* lease_next. *)

WithToken(v, k) == [v EXCEPT !.active = @ \cup {k}]

GrantedTask(a, w, t) == LeasedUnder(a.tasks[t], NewLease(a, w, t))

GrantedTo(a, b, w, t) ==
  /\ IsRecord(b)
  /\ b.now = a.now /\ b.counter = a.counter + 1 /\ b.workflows = a.workflows
  /\ b.closed = a.closed
  /\ b.workers = [a.workers EXCEPT ![w] = WithToken(a.workers[w], FreshToken(a))]
  /\ b.leases = a.leases \cup {NewLease(a, w, t)}
  /\ b.tasks = [a.tasks EXCEPT ![t] = GrantedTask(a, w, t)]

LEMMA GrantFields ==
  ASSUME NEW a \in Model, NEW w \in DOMAIN a.workers, NEW t \in DOMAIN a.tasks
  PROVE  GrantedTo(a, Grant(a, w, t), w, t)
<1> DEFINE token == FreshToken(a)
           l == NewLease(a, w, t)
           s == GrantedTask(a, w, t)
           v == WithToken(a.workers[w], token)
           b == Grant(a, w, t)
<1>1. b = [a EXCEPT !.counter = @ + 1, !.tasks[t] = s, !.leases = @ \cup {l},
                    !.workers[w] = v]
  BY DEF Grant, NewLease, GrantedTask, WithToken
<1> HIDE DEF s, l, v, b
<1>2. /\ IsRecord(b) /\ b.now = a.now /\ b.counter = a.counter + 1
      /\ b.workflows = a.workflows /\ b.closed = a.closed
      /\ b.workers = [a.workers EXCEPT ![w] = v] /\ b.leases = a.leases \cup {l}
      /\ b.tasks = [a.tasks EXCEPT ![t] = s]
  BY <1>1 DEF Model, IsRecord
<1> QED
  BY <1>2 DEF GrantedTo, b, s, l, v

LEMMA FreshIsFresh ==
  ASSUME NEW a, Core(a)
  PROVE  /\ FreshToken(a) \in TokenSet /\ FreshToken(a)[1] = a.counter + 1
         /\ FreshToken(a) \notin Tokens(a) \cup a.closed
         /\ \A k \in Tokens(a) \cup a.closed : k[1] \in Nat /\ k[1] <= a.counter
<1>1. a.counter \in Nat /\ a.now \in Nat /\ a.closed \in SUBSET TokenSet
  BY ModelFacts DEF Core
<1>2. Tokens(a) \in SUBSET TokenSet
  BY LeaseFacts DEF Tokens
<1>3. \A k \in Tokens(a) \cup a.closed : k[1] \in Nat /\ k[1] <= a.counter
  BY <1>1, <1>2 DEF Core, TokensAgree, TokenSet
<1>4. FreshToken(a) \in TokenSet /\ FreshToken(a)[1] = a.counter + 1
  BY <1>1 DEF FreshToken, TokenSet
<1>5. FreshToken(a) \notin Tokens(a) \cup a.closed
  BY <1>1, <1>3, <1>4
<1> QED
  BY <1>3, <1>4, <1>5

LEMMA GrantedRecords ==
  ASSUME NEW a, Core(a), NEW w \in DOMAIN a.workers, NEW t \in DOMAIN a.tasks,
         a.tasks[t].state = "READY",
         NEW r, r = a.tasks[t], NEW s, s = GrantedTask(a, w, t),
         NEW l, l = NewLease(a, w, t)
  PROVE  /\ s \in TaskRecord /\ TaskAgrees(s, a.now) /\ s.state = "LEASED"
         /\ SameSpec(r, s) /\ s.attempt = r.attempt + 1 /\ s.token = FreshToken(a)
         /\ s.owner = w /\ s.until = l.expires
         /\ l \in LeaseRecord /\ l.token = FreshToken(a) /\ l.task = t /\ l.worker = w
         /\ l.acquired = a.now /\ l.acquired < l.expires /\ l.expires \in Nat
<1>1. /\ a \in Model /\ r \in TaskRecord /\ TaskAgrees(r, a.now) /\ a.now \in Nat
      /\ w \in Nat /\ t \in TaskId
  BY ModelFacts DEF Core, TasksAgree
<1>2. FreshToken(a) \in TokenSet
  BY FreshIsFresh
<1> DEFINE token == FreshToken(a)
           until == a.now + LeaseDuration
           q == Moved(r, "LEASED")
<1>3. until \in Nat /\ a.now < until
  BY <1>1, LimitAssumption
<1>4. q = [r EXCEPT !.state = "LEASED"]
  BY <1>1, Transitions, MovedIsRecord DEF States
<1>5. q \in TaskRecord /\ q.state = "LEASED"
      /\ q.wf = r.wf /\ q.needs = r.needs /\ q.labels = r.labels /\ q.retry = r.retry
      /\ q.attempt = r.attempt /\ q.started = r.started /\ q.finished = r.finished
  BY <1>1, <1>4 DEF TaskRecord, States
<1>6. s = [q EXCEPT !.attempt = r.attempt + 1, !.token = token, !.owner = w,
                    !.until = until, !.retryAt = Nil]
  BY DEF GrantedTask, LeasedUnder, NewLease
<1>7. r.attempt \in Nat /\ r.attempt + 1 \in Nat /\ r.wf = FirstWorkflow
  BY <1>1 DEF TaskRecord
<1>8. l = [token |-> token, wf |-> r.wf, task |-> t, worker |-> w,
           attempt |-> r.attempt + 1, acquired |-> a.now, expires |-> until]
  BY DEF NewLease
<1> HIDE DEF token, until, q
<1>9. /\ l \in LeaseRecord /\ l.token = token /\ l.task = t /\ l.worker = w
      /\ l.acquired = a.now /\ l.expires = until
  BY <1>1, <1>2, <1>3, <1>7, <1>8 DEF LeaseRecord, token
<1>10. s \in TaskRecord
  <2>1. token \in TokenSet /\ until \in Instant /\ Nil \in Instant
    BY <1>2, <1>3 DEF token, Instant
  <2> DEFINE p == [q EXCEPT !.attempt = r.attempt + 1, !.token = token]
  <2>2. p \in TaskRecord
    BY <1>5, <1>7, <2>1 DEF TaskRecord
  <2>3. s = [p EXCEPT !.owner = w, !.until = until, !.retryAt = Nil]
    BY <1>6
  <2> HIDE DEF p
  <2> QED
    BY <1>1, <2>1, <2>2, <2>3 DEF TaskRecord
<1>11. /\ s.state = "LEASED" /\ s.wf = r.wf /\ s.needs = r.needs /\ s.labels = r.labels
       /\ s.retry = r.retry /\ s.attempt = r.attempt + 1 /\ s.token = token /\ s.owner = w
       /\ s.until = until /\ s.retryAt = Nil /\ s.started = r.started
       /\ s.finished = r.finished
  BY <1>5, <1>6 DEF TaskRecord
<1>12. r.finished = Nil /\ r.started <= a.now
  BY <1>1 DEF TaskAgrees
<1>13. TaskAgrees(s, a.now)
  <2>1. Nil <= a.now
    BY <1>1 DEF Nil
  <2>2. s.attempt >= 1
    BY <1>7, <1>11
  <2> QED
    BY <1>11, <1>12, <2>1, <2>2 DEF TaskAgrees, Held
<1> QED
  BY <1>3, <1>9, <1>10, <1>11, <1>13 DEF token, SameSpec

(* Task t goes to a worker, under a token nobody had. *)
Leases(a, b, t) ==
  /\ b.now = a.now /\ b.counter = a.counter + 1
  /\ DOMAIN b.tasks = DOMAIN a.tasks
  /\ a.tasks[t].state \in Idle \cup Held /\ b.tasks[t].state = "LEASED"
  /\ b.tasks[t].token = FreshToken(a)
  /\ SameSpec(a.tasks[t], b.tasks[t]) /\ b.tasks[t].attempt = a.tasks[t].attempt + 1
  /\ \A u \in DOMAIN a.tasks : u # t => Eased(a.tasks[u], b.tasks[u])
  /\ SameStaff(a, b) /\ SameFlow(a, b)
  /\ a.closed \subseteq b.closed
  /\ Tokens(b) \cup b.closed = Tokens(a) \cup a.closed \cup {FreshToken(a)}
  /\ Indexed(a) => Indexed(b)

LEMMA WithTokenFacts ==
  ASSUME NEW v \in WorkerRecord, NEW k \in TokenSet, NEW x, x = WithToken(v, k)
  PROVE  /\ x \in WorkerRecord /\ x.active = v.active \cup {k}
         /\ x.capacity = v.capacity /\ x.labels = v.labels
         /\ x.heartbeat = v.heartbeat /\ x.dropped = v.dropped
  BY DEF WithToken, WorkerRecord

LEMMA GrantedWorkers ==
  ASSUME NEW a, Core(a), NEW w \in DOMAIN a.workers, ~ Full(a.workers[w]),
         NEW t \in DOMAIN a.tasks, a.tasks[t].state = "READY",
         NEW b, GrantedTo(a, b, w, t)
  PROVE  /\ b.workers \in Tables(Nat, WorkerRecord)
         /\ WorkersAgree(b) /\ SameStaff(a, b)
         /\ Indexed(a) => Indexed(b)
<1> DEFINE k == FreshToken(a)
           l == NewLease(a, w, t)
           x == WithToken(a.workers[w], k)
<1>1. k \in TokenSet /\ k \notin Tokens(a)
  BY FreshIsFresh
<1>2. l.token = k /\ l.worker = w
  BY GrantedRecords
<1>3. /\ a.workers \in Tables(Nat, WorkerRecord)
      /\ \A v \in DOMAIN a.workers : a.workers[v] \in WorkerRecord
  BY ModelFacts DEF Core
<1>4. /\ x \in WorkerRecord /\ x.active = a.workers[w].active \cup {k}
      /\ x.capacity = a.workers[w].capacity /\ x.labels = a.workers[w].labels
      /\ x.heartbeat = a.workers[w].heartbeat /\ x.dropped = a.workers[w].dropped
  BY <1>1, <1>3, WithTokenFacts
<1>5. b.workers = [a.workers EXCEPT ![w] = x] /\ b.leases = a.leases \cup {l}
  BY DEF GrantedTo
<1> HIDE DEF k, l, x
<1>6. b.workers \in Tables(Nat, WorkerRecord)
  BY <1>3, <1>4, <1>5, TableFacts
<1>7. /\ DOMAIN b.workers = DOMAIN a.workers /\ b.workers[w] = x
      /\ \A v \in DOMAIN a.workers : v # w => b.workers[v] = a.workers[v]
  BY <1>3, <1>5
<1>8. SameStaff(a, b)
  BY <1>4, <1>7 DEF SameStaff
<1>9. ASSUME NEW v \in DOMAIN a.workers
      PROVE  /\ \A j \in b.workers[v].active : \E i \in b.leases : i.token = j /\ i.worker = v
             /\ Cardinality(b.workers[v].active) <= b.workers[v].capacity
  <2>1. /\ IsFiniteSet(a.workers[v].active) /\ Cardinality(a.workers[v].active) \in Nat
        /\ a.workers[v].active \in SUBSET Tokens(a)
        /\ \A j \in a.workers[v].active : \E i \in a.leases : i.token = j /\ i.worker = v
    BY ActiveFinite
  <2>2. Cardinality(a.workers[v].active) <= a.workers[v].capacity
    BY DEF Core, WorkersAgree
  <2>3. CASE v # w
    BY <1>5, <1>7, <2>1, <2>2, <2>3
  <2>4. CASE v = w
    <3>1. k \notin a.workers[v].active
      BY <1>1, <2>1
    <3>2. Cardinality(a.workers[v].active \cup {k}) = Cardinality(a.workers[v].active) + 1
      BY <2>1, <3>1, FS_AddElement
    <3>3. ~ (Cardinality(a.workers[v].active) >= a.workers[v].capacity)
      BY <2>4 DEF Full
    <3>4. a.workers[v].capacity \in Nat
      BY <1>3 DEF WorkerRecord
    <3>5. Cardinality(a.workers[v].active \cup {k}) <= a.workers[v].capacity
      BY <2>1, <3>2, <3>3, <3>4
    <3>6. Cardinality(b.workers[v].active) <= b.workers[v].capacity
      BY <1>4, <1>7, <2>4, <3>5
    <3>7. \A j \in b.workers[v].active : \E i \in b.leases : i.token = j /\ i.worker = v
      BY <1>2, <1>4, <1>5, <1>7, <2>1, <2>4
    <3> QED
      BY <3>6, <3>7
  <2> QED
    BY <2>3, <2>4
<1>10. WorkersAgree(b)
  BY <1>7, <1>9 DEF WorkersAgree
<1>11. ASSUME Indexed(a) PROVE Indexed(b)
  <2> SUFFICES ASSUME NEW i \in b.leases PROVE i.token \in b.workers[i.worker].active
    BY DEF Indexed
  <2>1. CASE i = l
    BY <1>2, <1>4, <1>7, <2>1
  <2>2. CASE i \in a.leases
    <3>1. i.token \in a.workers[i.worker].active /\ i.worker \in DOMAIN a.workers
      BY <1>11, <2>2, LeaseFacts DEF Indexed
    <3> QED
      BY <1>4, <1>7, <3>1
  <2> QED
    BY <1>5, <2>1, <2>2
<1> QED
  BY <1>6, <1>8, <1>10, <1>11

LEMMA GrantedLeases ==
  ASSUME NEW a, Core(a), NEW w \in DOMAIN a.workers, NEW t \in DOMAIN a.tasks,
         a.tasks[t].state = "READY", NEW b, GrantedTo(a, b, w, t)
  PROVE  /\ DOMAIN b.tasks = DOMAIN a.tasks /\ b.tasks[t] = GrantedTask(a, w, t)
         /\ \A u \in DOMAIN a.tasks : u # t => b.tasks[u] = a.tasks[u]
         /\ LeasesAgree(b) /\ TokensAgree(b)
         /\ Tokens(b) = Tokens(a) \cup {FreshToken(a)}
<1> DEFINE k == FreshToken(a)
           l == NewLease(a, w, t)
           s == GrantedTask(a, w, t)
<1>1. /\ k \notin Tokens(a) \cup a.closed /\ k[1] = a.counter + 1 /\ k \in TokenSet
      /\ \A j \in Tokens(a) \cup a.closed : j[1] \in Nat /\ j[1] <= a.counter
  BY FreshIsFresh
<1>2. /\ s.state = "LEASED" /\ s.token = k /\ s.owner = w /\ s.until = l.expires
      /\ l.token = k /\ l.task = t /\ l.worker = w /\ l.acquired = a.now
      /\ l.acquired < l.expires
  BY GrantedRecords
<1>3. /\ b.leases = a.leases \cup {l} /\ b.now = a.now /\ b.closed = a.closed
      /\ b.counter = a.counter + 1 /\ b.tasks = [a.tasks EXCEPT ![t] = s]
  BY DEF GrantedTo
<1>4. DOMAIN b.workers = DOMAIN a.workers
  BY ModelFacts DEF GrantedTo, Core
<1>5. a.now \in Nat /\ a.counter \in Nat
  BY ModelFacts DEF Core
<1> HIDE DEF k, l, s
<1>6. /\ DOMAIN b.tasks = DOMAIN a.tasks /\ b.tasks[t] = s
      /\ \A u \in DOMAIN a.tasks : u # t => b.tasks[u] = a.tasks[u]
  BY <1>3, ModelFacts DEF Core
<1>7. Tokens(b) = Tokens(a) \cup {k}
  BY <1>2, <1>3 DEF Tokens
<1>8. TokensAgree(b)
  <2>1. Tokens(a) \cap a.closed = {}
    BY DEF Core, TokensAgree
  <2>2. Tokens(b) \cap b.closed = {}
    BY <1>1, <1>3, <1>7, <2>1
  <2>3. \A j \in Tokens(b) \cup b.closed : j[1] <= b.counter
    BY <1>1, <1>3, <1>5, <1>7
  <2> QED
    BY <2>2, <2>3 DEF TokensAgree
<1>9. LeasesAgree(b)
  <2>1. IsFiniteSet(b.leases)
    BY <1>3, FS_AddElement DEF Core, LeasesAgree
  <2>2. LeaseAgrees(b, l)
    <3>1. l.acquired <= b.now
      BY <1>2, <1>3, <1>5
    <3> QED
      BY <1>2, <1>4, <1>6, <3>1 DEF LeaseAgrees, Held
  <2>3. ASSUME NEW i \in a.leases PROVE LeaseAgrees(b, i) /\ i.token # k
    <3>1. LeaseAgrees(a, i) /\ i.token \in Tokens(a)
      BY DEF Core, LeasesAgree, Tokens
    <3>2. i.task # t
      BY <3>1 DEF LeaseAgrees, Held
    <3> QED
      BY <1>1, <1>3, <1>4, <1>6, <3>1, <3>2 DEF LeaseAgrees
  <2>4. \A i, j \in a.leases : i.token = j.token => i = j
    BY DEF Core, LeasesAgree
  <2>5. \A i, j \in b.leases : i.token = j.token => i = j
    BY <1>2, <1>3, <2>3, <2>4
  <2>6. ASSUME NEW u \in DOMAIN b.tasks, b.tasks[u].state \in Held
        PROVE  \E i \in b.leases : i.task = u
    <3>1. CASE u = t
      BY <1>2, <1>3, <3>1
    <3>2. CASE u # t
      <4>1. \E i \in a.leases : i.task = u
        BY <1>6, <2>6, <3>2 DEF Core, LeasesAgree
      <4> QED
        BY <1>3, <4>1
    <3> QED
      BY <3>1, <3>2
  <2>7. \A i \in b.leases : LeaseAgrees(b, i)
    BY <1>3, <2>2, <2>3
  <2> QED
    BY <2>1, <2>5, <2>6, <2>7 DEF LeasesAgree
<1> QED
  BY <1>6, <1>7, <1>8, <1>9 DEF k, s

LEMMA GrantKeeps ==
  ASSUME NEW a, Core(a), Quiet(a), Live(a), NEW w \in DOMAIN a.workers,
         ~ Full(a.workers[w]), NEW t \in DOMAIN a.tasks, a.tasks[t].state = "READY",
         Flow(a).state \in Open, NEW b, b = Grant(a, w, t)
  PROVE  Core(b) /\ Quiet(b) /\ Live(b) /\ Leases(a, b, t)
<1> DEFINE r == a.tasks[t]
           s == GrantedTask(a, w, t)
           l == NewLease(a, w, t)
<1>1. /\ a \in Model /\ r \in TaskRecord /\ a.now \in Nat /\ a.counter \in Nat
      /\ a.tasks \in Tables(TaskId, TaskRecord) /\ a.leases \in SUBSET LeaseRecord
      /\ a.closed \in SUBSET TokenSet
      /\ a.workflows \in [{FirstWorkflow} -> WorkflowRecord]
  BY ModelFacts DEF Core
<1>2. GrantedTo(a, b, w, t)
  BY <1>1, GrantFields
<1>3. /\ s \in TaskRecord /\ TaskAgrees(s, a.now) /\ s.state = "LEASED"
      /\ SameSpec(r, s) /\ s.attempt = r.attempt + 1 /\ s.token = FreshToken(a)
      /\ l \in LeaseRecord /\ l.acquired = a.now /\ l.acquired < l.expires
      /\ l.expires \in Nat
  BY GrantedRecords
<1>4. /\ DOMAIN b.tasks = DOMAIN a.tasks /\ b.tasks[t] = s
      /\ \A u \in DOMAIN a.tasks : u # t => b.tasks[u] = a.tasks[u]
      /\ LeasesAgree(b) /\ TokensAgree(b)
      /\ Tokens(b) = Tokens(a) \cup {FreshToken(a)}
  BY <1>2, GrantedLeases
<1>5. /\ b.workers \in Tables(Nat, WorkerRecord)
      /\ WorkersAgree(b) /\ SameStaff(a, b)
      /\ Indexed(a) => Indexed(b)
  BY <1>2, GrantedWorkers
<1>6. /\ IsRecord(b) /\ b.now = a.now /\ b.counter = a.counter + 1
      /\ b.workflows = a.workflows /\ b.closed = a.closed
      /\ b.leases = a.leases \cup {l} /\ b.tasks = [a.tasks EXCEPT ![t] = s]
  BY <1>2 DEF GrantedTo
<1> HIDE DEF r, s, l
<1>7. b \in Model
  <2>1. b.tasks \in Tables(TaskId, TaskRecord)
    BY <1>1, <1>3, <1>6, TableFacts
  <2>2. b.leases \in SUBSET LeaseRecord
    BY <1>1, <1>3, <1>6
  <2>3. b.counter \in Nat /\ b.now \in Nat /\ b.closed \in SUBSET TokenSet
        /\ b.workflows \in [{FirstWorkflow} -> WorkflowRecord]
    BY <1>1, <1>6
  <2> QED
    BY <1>5, <1>6, <2>1, <2>2, <2>3, ModelFrom
<1>8. r.state = "READY"
  BY DEF r
<1>9. MayBecome(a, r, s)
  <2>1. \A d \in r.needs : a.tasks[d].state = "SUCCEEDED"
    BY <1>8 DEF Core, NeedsDone, Active, r
  <2> QED
    BY <1>3, <1>8, <2>1 DEF MayBecome
<1>10. TasksAgree(b)
  BY <1>3, <1>4, <1>6 DEF Core, TasksAgree
<1>11. NeedsDone(b)
  <2>1. NeedsDone(a) /\ \A u \in DOMAIN a.tasks : a.tasks[u].needs \subseteq DOMAIN a.tasks
    BY NeedsAreTasks DEF Core
  <2>2. MayBecome(a, a.tasks[t], s) /\ b.tasks = [a.tasks EXCEPT ![t] = s]
    BY <1>6, <1>9 DEF r
  <2> QED
    BY <2>1, <2>2, NeedsPut
<1>12. FlowAgrees(b)
  <2>1. \A u \in DOMAIN a.tasks : b.tasks[u].needs = a.tasks[u].needs
    BY <1>3, <1>4 DEF SameSpec, r
  <2> QED
    BY <1>4, <1>6, <2>1, OrderPut DEF Core
<1>13. Core(b)
  BY <1>4, <1>5, <1>7, <1>10, <1>11, <1>12 DEF Core
<1>14. Flow(b) = Flow(a)
  BY <1>6 DEF Flow
<1>15. Quiet(b)
  BY <1>14 DEF Quiet, Open, Final
<1>16. Live(b)
  <2>1. l.expires > a.now
    BY <1>1, <1>3
  <2> QED
    BY <1>6, <2>1 DEF Live
<1>17. Leases(a, b, t)
  <2>1. \A u \in DOMAIN a.tasks : u # t => Eased(a.tasks[u], b.tasks[u])
    BY <1>4, EasedSteps
  <2>2. Tokens(b) \cup b.closed = Tokens(a) \cup a.closed \cup {FreshToken(a)}
    BY <1>4, <1>6
  <2> QED
    BY <1>3, <1>4, <1>5, <1>6, <1>8, <1>14, <2>1, <2>2 DEF Leases, SameFlow, Idle, r
<1> QED
  BY <1>13, <1>15, <1>16, <1>17

-----------------------------------------------------------------------------
(* The task that is chosen. *)

Place(a, t) ==
  CHOOSE i \in DOMAIN a.workflows[FirstWorkflow].order :
    a.workflows[FirstWorkflow].order[i] = t

LEMMA PlaceIs ==
  ASSUME NEW a, Core(a), NEW t \in DOMAIN a.tasks
  PROVE  Place(a, t) \in Places(a) /\ Flow(a).order[Place(a, t)] = t
<1>1. \E i \in DOMAIN Flow(a).order : Flow(a).order[i] = t
  BY OrderFacts
<1> QED
  BY <1>1, OrderFacts DEF Place, Flow

LEMMA PrecedesIs ==
  ASSUME NEW a \in Model, NEW t \in DOMAIN a.tasks, NEW u \in DOMAIN a.tasks,
         Place(a, t) <= Place(a, u)
  PROVE  Precedes(a, t, u)
<1>1. a.tasks[t].wf = FirstWorkflow /\ a.tasks[u].wf = FirstWorkflow
  <2>1. a.tasks[t] \in TaskRecord /\ a.tasks[u] \in TaskRecord
    BY ModelFacts
  <2> QED
    BY <2>1 DEF TaskRecord
<1> DEFINE x == <<a.workflows[FirstWorkflow].created, FirstWorkflow, Place(a, t)>>
           y == <<a.workflows[FirstWorkflow].created, FirstWorkflow, Place(a, u)>>
<1>2. x[1] = y[1] /\ x[2] = y[2] /\ x[3] <= y[3]
  OBVIOUS
<1> QED
  BY <1>1, <1>2 DEF Precedes, Place

LEMMA ServedIs ==
  ASSUME NEW a, Core(a), NEW w \in DOMAIN a.workers, Candidates(a, w) # {}
  PROVE  \E t \in Candidates(a, w) : Serve(a, w) = Grant(a, w, t)
<1> DEFINE fit == Candidates(a, w)
           S == {Place(a, t) : t \in fit}
<1>1. fit \subseteq DOMAIN a.tasks
  BY DEF Candidates
<1> HIDE DEF fit
<1>2. S \in SUBSET Nat /\ S # {}
  <2>1. \A t \in fit : Place(a, t) \in Nat
    <3>1. \A t \in fit : Place(a, t) \in Places(a)
      BY <1>1, PlaceIs
    <3>2. \A i \in Places(a) : i \in Nat
      BY OrderFacts DEF Places
    <3> QED
      BY <3>1, <3>2
  <2> QED
    BY <2>1 DEF fit
<1>3. PICK n \in S : \A i \in S : n <= i
  <2> HIDE DEF S
  <2> QED
    BY <1>2, LeastNat
<1>4. PICK t \in fit : Place(a, t) = n
  BY <1>3
<1>5. \A u \in fit : Precedes(a, t, u)
  BY <1>1, <1>3, <1>4, PrecedesIs DEF Core
<1>6. (CHOOSE x \in fit : \A u \in fit : Precedes(a, x, u)) \in fit
  BY <1>5
<1> QED
  BY <1>6 DEF Serve, fit

(* What lease_next leaves. *)
Handed(a, b) ==
  /\ Core(b) /\ Quiet(b) /\ Live(b)
  /\ Eases(a, b) \/ \E t \in DOMAIN a.tasks : Leases(a, b, t)

LEMMA LeasesAfter ==
  ASSUME NEW a, NEW y, Eases(a, y), NEW t \in DOMAIN a.tasks, NEW b, Leases(y, b, t)
  PROVE  Leases(a, b, t)
<1>1. FreshToken(y) = FreshToken(a)
  BY DEF Eases, FreshToken
<1>2. \A u \in DOMAIN a.tasks : u # t => Eased(a.tasks[u], b.tasks[u])
  BY EasedSteps DEF Eases, Leases
<1>3. Eased(a.tasks[t], y.tasks[t])
  BY DEF Eases
<1>4. a.tasks[t].state \in Idle \cup Held
  BY <1>3 DEF Leases, Eased, Loosens
<1>5. SameSpec(a.tasks[t], b.tasks[t]) /\ b.tasks[t].attempt = a.tasks[t].attempt + 1
  BY <1>3 DEF Leases, Eased, SameSpec
<1>6. SameStaff(a, b) /\ SameFlow(a, b)
  BY DEF Eases, Leases, SameStaff, SameFlow
<1> QED
  BY <1>1, <1>2, <1>4, <1>5, <1>6 DEF Eases, Leases

LEMMA ServeKeeps ==
  ASSUME NEW a, Core(a), Quiet(a), Live(a), NEW w \in DOMAIN a.workers,
         ~ Full(a.workers[w])
  PROVE  Handed(a, Serve(RecomputeAll(a), w))
<1> DEFINE y == RecomputeAll(a)
           b == Serve(y, w)
<1>1. Recomputed(a, y)
  <2>1. y = Recompute(a, FirstWorkflow)
    BY RecomputeAllIs DEF Core
  <2> QED
    BY <2>1, RecomputeKeeps
<1> HIDE DEF y
<1>2. /\ Core(y) /\ Quiet(y) /\ Eases(a, y) /\ y.leases = a.leases /\ y.workers = a.workers
  BY <1>1 DEF Recomputed
<1>3. Live(y) /\ w \in DOMAIN y.workers /\ ~ Full(y.workers[w])
  BY <1>2 DEF Live, Eases
<1>4. CASE Candidates(y, w) = {}
  <2>1. b = y
    BY <1>4 DEF Serve
  <2> QED
    BY <1>2, <1>3, <2>1 DEF Handed, y
<1>5. CASE Candidates(y, w) # {}
  <2>1. PICK t \in Candidates(y, w) : b = Grant(y, w, t)
    BY <1>2, <1>3, <1>5, ServedIs
  <2>2. t \in DOMAIN y.tasks /\ y.tasks[t].state = "READY"
        /\ y.workflows[y.tasks[t].wf].state \in Open
    BY DEF Candidates
  <2>3. y.tasks[t].wf = FirstWorkflow
    <3>1. y.tasks[t] \in TaskRecord
      BY <1>2, <2>2, ModelFacts DEF Core
    <3> QED
      BY <3>1 DEF TaskRecord
  <2>4. Flow(y).state \in Open
    BY <2>2, <2>3 DEF Flow
  <2> HIDE DEF b
  <2>5. Core(b) /\ Quiet(b) /\ Live(b) /\ Leases(y, b, t)
    BY <1>2, <1>3, <2>1, <2>2, <2>4, GrantKeeps
  <2>6. t \in DOMAIN a.tasks
    BY <1>2, <2>2 DEF Eases
  <2>7. Leases(a, b, t)
    BY <1>2, <2>5, <2>6, LeasesAfter
  <2> QED
    BY <2>5, <2>6, <2>7 DEF Handed, b, y
<1> QED
  BY <1>4, <1>5

LEMMA RaisesIs ==
  /\ \A n, code : Raises(n, code).m = n /\ Raises(n, code).error = code
  /\ \A n : Done(n).m = n /\ Done(n).error = "none"
  BY DEF Raises, Done

LEMMA AskKeeps ==
  ASSUME NEW a, Core(a), Quiet(a), Live(a), NEW w
  PROVE  /\ Handed(a, Ask(a, w).m)
         /\ w \in DOMAIN a.workers =>
              a.workers[w].dropped \/ Ask(a, w).error \in {"none", "worker_expired"}
<1>1. Handed(a, a)
  BY EasesItself DEF Handed
<1>2. CASE w \notin DOMAIN a.workers
  <2>1. \E code : Ask(a, w) = Raises(a, code)
    BY <1>2 DEF Ask
  <2> QED
    BY <1>1, <1>2, <2>1, RaisesIs
<1>3. CASE w \in DOMAIN a.workers /\ a.workers[w].dropped
  <2>1. \E code : Ask(a, w) = Raises(a, code)
    BY <1>3 DEF Ask
  <2> QED
    BY <1>1, <1>3, <2>1, RaisesIs
<1>4. CASE /\ w \in DOMAIN a.workers /\ ~ a.workers[w].dropped
           /\ a.now - a.workers[w].heartbeat > WorkerTTL
  <2>1. Ask(a, w) = Raises(a, "worker_expired")
    BY <1>4 DEF Ask
  <2> QED
    BY <1>1, <2>1, RaisesIs
<1>5. CASE /\ w \in DOMAIN a.workers /\ ~ a.workers[w].dropped
           /\ ~ (a.now - a.workers[w].heartbeat > WorkerTTL) /\ Full(a.workers[w])
  <2>1. Ask(a, w) = Done(a)
    BY <1>5 DEF Ask
  <2> QED
    BY <1>1, <2>1, RaisesIs
<1>6. CASE /\ w \in DOMAIN a.workers /\ ~ a.workers[w].dropped
           /\ ~ (a.now - a.workers[w].heartbeat > WorkerTTL) /\ ~ Full(a.workers[w])
  <2>1. Ask(a, w) = Done(Serve(RecomputeAll(a), w))
    BY <1>6 DEF Ask
  <2>2. Handed(a, Serve(RecomputeAll(a), w))
    BY <1>6, ServeKeeps
  <2> QED
    BY <2>1, <2>2, RaisesIs
<1> QED
  BY <1>2, <1>3, <1>4, <1>5, <1>6

LEMMA LeaseNextKeeps ==
  ASSUME NEW a, Core(a), Quiet(a), NEW w
  PROVE  /\ Handed(a, LeaseNext(a, w).m)
         /\ w \in DOMAIN a.workers =>
              a.workers[w].dropped \/ LeaseNext(a, w).error \in {"none", "worker_expired"}
<1> DEFINE y == Sweep(a)
           b == Ask(y, w).m
<1>1. Core(y) /\ Quiet(y) /\ Live(y) /\ Eases(a, y)
  BY SweepKeeps DEF Calms
<1>2. LeaseNext(a, w) = Ask(y, w)
  BY DEF LeaseNext
<1> HIDE DEF y
<1>3. Handed(y, b)
  BY <1>1, AskKeeps
<1>4. Core(b) /\ Quiet(b) /\ Live(b) /\ (Eases(y, b) \/ \E t \in DOMAIN y.tasks : Leases(y, b, t))
  BY <1>3 DEF Handed
<1> HIDE DEF b
<1>5. Eases(a, b) \/ \E t \in DOMAIN a.tasks : Leases(a, b, t)
  <2>1. DOMAIN y.tasks = DOMAIN a.tasks
    BY <1>1 DEF Eases
  <2> QED
    BY <1>1, <1>4, <2>1, EasesOn, LeasesAfter
<1>6. Handed(a, b)
  BY <1>4, <1>5 DEF Handed
<1>7. w \in DOMAIN a.workers =>
        w \in DOMAIN y.workers /\ y.workers[w].dropped = a.workers[w].dropped
  BY <1>1 DEF Eases, SameStaff
<1> QED
  BY <1>1, <1>2, <1>6, <1>7, AskKeeps DEF b

-----------------------------------------------------------------------------
(* register_worker, heartbeat and drop_worker: only the workers change. *)

StaffTo(a, b, workers) ==
  /\ IsRecord(b)
  /\ b.now = a.now /\ b.counter = a.counter /\ b.workflows = a.workflows
  /\ b.tasks = a.tasks /\ b.leases = a.leases /\ b.closed = a.closed
  /\ b.workers = workers

(* A worker registers again while it holds leases. *)
Forgets(a, b) ==
  \E l \in a.leases : a.workers[l.worker].dropped /\ ~ b.workers[l.worker].dropped

Restaffs(a, b) ==
  /\ b.now = a.now /\ b.counter = a.counter /\ b.workflows = a.workflows
  /\ b.tasks = a.tasks /\ b.leases = a.leases /\ b.closed = a.closed
  /\ DOMAIN a.workers \subseteq DOMAIN b.workers
  /\ Indexed(a) => Indexed(b) \/ Forgets(a, b)

(* Every worker is there with the labels it had. *)
SameLabels(a, b) ==
  /\ DOMAIN b.workers = DOMAIN a.workers
  /\ \A w \in DOMAIN a.workers : b.workers[w].labels = a.workers[w].labels

LEMMA StaffFields ==
  ASSUME NEW a \in Model, NEW workers
  PROVE  StaffTo(a, [a EXCEPT !.workers = workers], workers)
  BY DEF StaffTo, IsRecord, Model

LEMMA StaffKeeps ==
  ASSUME NEW a, Core(a), Quiet(a), Live(a), NEW T \in Tables(Nat, WorkerRecord),
         DOMAIN a.workers \subseteq DOMAIN T,
         \A w \in DOMAIN T :
           \/ T[w].active = {}
           \/ /\ w \in DOMAIN a.workers /\ T[w].active = a.workers[w].active
              /\ T[w].capacity = a.workers[w].capacity,
         NEW b, StaffTo(a, b, T)
  PROVE  Core(b) /\ Quiet(b) /\ Live(b)
<1>1. b \in Model
  BY ModelFacts, ModelFrom DEF Core, StaffTo
<1>2. /\ b.now = a.now /\ b.counter = a.counter /\ b.workflows = a.workflows
      /\ b.tasks = a.tasks /\ b.leases = a.leases /\ b.closed = a.closed /\ b.workers = T
  BY DEF StaffTo
<1>3. LeasesAgree(b)
  BY <1>2 DEF Core, LeasesAgree, LeaseAgrees
<1>4. TokensAgree(b) /\ TasksAgree(b) /\ NeedsDone(b) /\ FlowAgrees(b) /\ Quiet(b) /\ Live(b)
  BY <1>2 DEF Core, TokensAgree, Tokens, TasksAgree, NeedsDone, FlowAgrees, Flow, IsOrder,
              Quiet, Live
<1>5. WorkersAgree(b)
  <2> SUFFICES ASSUME NEW w \in DOMAIN T
               PROVE  /\ \A k \in T[w].active : \E l \in a.leases : l.token = k /\ l.worker = w
                      /\ Cardinality(T[w].active) <= T[w].capacity
    BY <1>2 DEF WorkersAgree
  <2>1. CASE T[w].active = {}
    <3>1. T[w] \in WorkerRecord
      BY TableFacts
    <3>2. T[w].capacity \in Nat
      BY <3>1 DEF WorkerRecord
    <3>3. Cardinality(T[w].active) = 0
      BY <2>1, FS_EmptySet
    <3> QED
      BY <2>1, <3>2, <3>3
  <2>2. CASE /\ w \in DOMAIN a.workers /\ T[w].active = a.workers[w].active
             /\ T[w].capacity = a.workers[w].capacity
    BY <2>2 DEF Core, WorkersAgree
  <2> QED
    BY <2>1, <2>2
<1> QED
  BY <1>1, <1>3, <1>4, <1>5 DEF Core

NewWorker(a, capacity, labels) ==
  [capacity |-> capacity, labels |-> labels, heartbeat |-> a.now, active |-> {},
   dropped |-> FALSE]

LEMMA JoinedTable ==
  ASSUME NEW T \in Tables(Nat, WorkerRecord), NEW w \in Nat, NEW v \in WorkerRecord,
         NEW J, J = Entered(T, w, v)
  PROVE  J \in Tables(Nat, WorkerRecord)
<1>1. DOMAIN T \in SUBSET Nat /\ \A x \in DOMAIN T : T[x] \in WorkerRecord
  BY TableFacts
<1>2. J = [x \in DOMAIN T \cup {w} |-> IF x = w THEN v ELSE T[x]]
  BY DEF Entered
<1>3. \A x \in DOMAIN T \cup {w} : J[x] \in WorkerRecord
  BY <1>1, <1>2
<1>4. J \in [DOMAIN T \cup {w} -> WorkerRecord] /\ DOMAIN T \cup {w} \in SUBSET Nat
  BY <1>1, <1>2, <1>3
<1> QED
  BY <1>4 DEF Tables

LEMMA RegisterKeeps ==
  ASSUME NEW a, Core(a), Quiet(a), Live(a), NEW w \in Nat, NEW capacity, NEW labels \in Labels,
         NEW b, b = RegisterWorker(a, w, capacity, labels).m
  PROVE  Core(b) /\ Quiet(b) /\ Live(b) /\ Restaffs(a, b)
<1>1. CASE \/ capacity \notin 1..256
           \/ w \in DOMAIN a.workers /\ ~ a.workers[w].dropped
  <2>1. \E code : RegisterWorker(a, w, capacity, labels) = Raises(a, code)
    BY <1>1 DEF RegisterWorker
  <2>2. b = a
    BY <2>1, RaisesIs
  <2> QED
    BY <2>2 DEF Restaffs
<1>2. CASE /\ capacity \in 1..256
           /\ w \in DOMAIN a.workers => a.workers[w].dropped
  <2> DEFINE v == NewWorker(a, capacity, labels)
             T == Entered(a.workers, w, v)
  <2>1. RegisterWorker(a, w, capacity, labels) = Done([a EXCEPT !.workers = T])
    BY <1>2 DEF RegisterWorker, NewWorker
  <2>2. a \in Model /\ a.now \in Nat /\ a.workers \in Tables(Nat, WorkerRecord)
    BY ModelFacts DEF Core
  <2>3. v \in WorkerRecord /\ v.active = {} /\ v.dropped = FALSE
    BY <1>2, <2>2 DEF NewWorker, WorkerRecord
  <2> HIDE DEF v
  <2>4. /\ T \in Tables(Nat, WorkerRecord) /\ DOMAIN T = DOMAIN a.workers \cup {w}
        /\ T[w] = v /\ \A x \in DOMAIN a.workers : x # w => T[x] = a.workers[x]
    <3>1. w \in Nat /\ v \in WorkerRecord /\ a.workers \in Tables(Nat, WorkerRecord)
      BY <2>2, <2>3
    <3>2. T = Entered(a.workers, w, v)
      OBVIOUS
    <3> HIDE DEF T
    <3>3. T \in Tables(Nat, WorkerRecord)
      BY <3>1, <3>2, JoinedTable
    <3> QED
      BY <3>2, <3>3 DEF Entered
  <2> HIDE DEF T
  <2>5. StaffTo(a, b, T)
    BY <2>1, <2>2, RaisesIs, StaffFields
  <2>6. Core(b) /\ Quiet(b) /\ Live(b)
    BY <2>3, <2>4, <2>5, StaffKeeps
  <2>7. ASSUME Indexed(a), ~ Forgets(a, b) PROVE Indexed(b)
    <3> SUFFICES ASSUME NEW l \in a.leases PROVE l.token \in T[l.worker].active
      BY <2>5 DEF Indexed, StaffTo
    <3>1. l.worker \in DOMAIN a.workers
      BY LeaseFacts
    <3>2. l.worker # w
      BY <1>2, <2>3, <2>4, <2>5, <2>7, <3>1 DEF Forgets, StaffTo
    <3> QED
      BY <2>4, <2>7, <3>1, <3>2 DEF Indexed
  <2>8. Restaffs(a, b)
    BY <2>4, <2>5, <2>7 DEF Restaffs, StaffTo
  <2> QED
    BY <2>6, <2>8
<1> QED
  BY <1>1, <1>2

(* One worker's record without its leases changed. *)
LEMMA WorkerPut ==
  ASSUME NEW a, Core(a), Quiet(a), Live(a), NEW w \in DOMAIN a.workers,
         NEW v \in WorkerRecord, v.active = a.workers[w].active,
         v.capacity = a.workers[w].capacity, v.labels = a.workers[w].labels,
         NEW b, b = [a EXCEPT !.workers[w] = v]
  PROVE  Core(b) /\ Quiet(b) /\ Live(b) /\ Restaffs(a, b) /\ SameLabels(a, b)
<1> DEFINE T == [a.workers EXCEPT ![w] = v]
<1>1. a \in Model /\ a.workers \in Tables(Nat, WorkerRecord)
  BY ModelFacts DEF Core
<1>2. StaffTo(a, b, T)
  <2>1. b = [a EXCEPT !.workers = T]
    BY <1>1 DEF Model
  <2> HIDE DEF T
  <2> QED
    BY <1>1, <2>1, StaffFields
<1>3. /\ T \in Tables(Nat, WorkerRecord) /\ DOMAIN T = DOMAIN a.workers /\ T[w] = v
      /\ \A x \in DOMAIN a.workers : x # w => T[x] = a.workers[x]
  BY <1>1, TableFacts
<1> HIDE DEF T
<1>4. Core(b) /\ Quiet(b) /\ Live(b)
  <2>1. \A x \in DOMAIN T : /\ x \in DOMAIN a.workers /\ T[x].active = a.workers[x].active
                            /\ T[x].capacity = a.workers[x].capacity
    BY <1>3
  <2> QED
    BY <1>2, <1>3, <2>1, StaffKeeps
<1>5. Indexed(a) => Indexed(b)
  BY <1>2, <1>3, LeaseFacts DEF Indexed, StaffTo
<1>6. Restaffs(a, b) /\ SameLabels(a, b)
  BY <1>2, <1>3, <1>5 DEF Restaffs, SameLabels, StaffTo
<1> QED
  BY <1>4, <1>6

Beaten(v, now) == [v EXCEPT !.heartbeat = now]

Left(v) == [v EXCEPT !.dropped = TRUE]

LEMMA WorkerRecords ==
  ASSUME NEW v \in WorkerRecord, NEW now \in Nat
  PROVE  /\ Beaten(v, now) \in WorkerRecord /\ Beaten(v, now).active = v.active
         /\ Beaten(v, now).capacity = v.capacity /\ Beaten(v, now).labels = v.labels
         /\ Left(v) \in WorkerRecord /\ Left(v).active = v.active
         /\ Left(v).capacity = v.capacity /\ Left(v).labels = v.labels
  BY DEF Beaten, Left, WorkerRecord

LEMMA SameRestaffs ==
  ASSUME NEW a
  PROVE  Restaffs(a, a) /\ SameLabels(a, a)
  BY DEF Restaffs, SameLabels

LEMMA HeartbeatKeeps ==
  ASSUME NEW a, Core(a), Quiet(a), Live(a), NEW w, NEW b, b = Heartbeat(a, w).m
  PROVE  /\ Core(b) /\ Quiet(b) /\ Live(b) /\ Restaffs(a, b) /\ SameLabels(a, b)
         /\ w \in DOMAIN a.workers =>
              a.workers[w].dropped \/ Heartbeat(a, w).error = "none"
<1>1. CASE w \notin DOMAIN a.workers \/ a.workers[w].dropped
  <2>1. \E code : Heartbeat(a, w) = Raises(a, code)
    BY <1>1 DEF Heartbeat
  <2>2. b = a
    BY <2>1, RaisesIs
  <2> QED
    BY <1>1, <2>2, SameRestaffs
<1>2. CASE w \in DOMAIN a.workers /\ ~ a.workers[w].dropped
  <2>1. Heartbeat(a, w) = Done([a EXCEPT !.workers[w].heartbeat = a.now])
    BY <1>2 DEF Heartbeat
  <2>2. b = [a EXCEPT !.workers[w] = Beaten(a.workers[w], a.now)]
    BY <2>1, RaisesIs DEF Beaten
  <2>3. a.workers[w] \in WorkerRecord /\ a.now \in Nat
    BY <1>2, ModelFacts DEF Core
  <2> QED
    BY <1>2, <2>1, <2>2, <2>3, RaisesIs, WorkerRecords, WorkerPut
<1> QED
  BY <1>1, <1>2

LEMMA DropKeeps ==
  ASSUME NEW a, Core(a), Quiet(a), Live(a), NEW w, NEW b, b = DropWorker(a, w).m
  PROVE  /\ Core(b) /\ Quiet(b) /\ Live(b) /\ Restaffs(a, b) /\ SameLabels(a, b)
         /\ w \in DOMAIN a.workers => DropWorker(a, w).error = "none"
<1>1. CASE w \notin DOMAIN a.workers
  <2>1. \E code : DropWorker(a, w) = Raises(a, code)
    BY <1>1 DEF DropWorker
  <2>2. b = a
    BY <2>1, RaisesIs
  <2> QED
    BY <1>1, <2>2, SameRestaffs
<1>2. CASE w \in DOMAIN a.workers
  <2>1. DropWorker(a, w) = Done([a EXCEPT !.workers[w].dropped = TRUE])
    BY <1>2 DEF DropWorker
  <2>2. b = [a EXCEPT !.workers[w] = Left(a.workers[w])]
    BY <2>1, RaisesIs DEF Left
  <2>3. a.workers[w] \in WorkerRecord /\ a.now \in Nat
    BY <1>2, ModelFacts DEF Core
  <2> QED
    BY <1>2, <2>1, <2>2, <2>3, RaisesIs, WorkerRecords, WorkerPut
<1> QED
  BY <1>1, <1>2

LEMMA AdvanceKeeps ==
  ASSUME NEW a, Core(a), Quiet(a), NEW k \in Nat, NEW b, b = Advance(a, k)
  PROVE  Calms(Later(a, k), b)
<1>1. b = Sweep(Later(a, k))
  BY AdvanceIs
<1> QED
  BY <1>1, LaterKeeps, SweepKeeps

-----------------------------------------------------------------------------
(* Model.apply: every method keeps the invariant and is one of five steps. *)

Moves(a, b) ==
  /\ Core(b) /\ Quiet(b) /\ Live(b)
  /\ \/ Restaffs(a, b)
     \/ Eases(a, b)
     \/ \E k \in Nat : Eases(Later(a, k), b)
     \/ \E t \in DOMAIN a.tasks : Settles(a, b, t)
     \/ \E t \in DOMAIN a.tasks : Leases(a, b, t)

OwnKinds == {"start", "renew", "log", "complete_success", "complete_failure"}

LateKinds == {"stale_complete", "stale_renew", "duplicate_complete"}

WorkerKinds == {"heartbeat", "drop_worker", "lease"}

OtherKinds == {"advance_time", "sweep", "cancel_workflow"}

IsAction(x) ==
  /\ x.kind \in OwnKinds \cup LateKinds \cup WorkerKinds \cup OtherKinds \cup {"register_worker"}
  /\ x.kind = "register_worker" => x.worker \in Nat
  /\ x.text \in Nat /\ x.amount \in Nat

LEMMA EasesMoves ==
  ASSUME NEW a, NEW b, Calms(a, b)
  PROVE  Moves(a, b) /\ SameLabels(a, b)
  BY DEF Calms, Moves, Eases, SameStaff, SameLabels

LEMMA SettlesMoves ==
  ASSUME NEW a, NEW b, Settled(a, b)
  PROVE  Moves(a, b) /\ SameLabels(a, b)
<1>1. CASE Eases(a, b)
  BY <1>1, EasesMoves DEF Settled, Calms
<1>2. CASE \E t \in DOMAIN a.tasks : Settles(a, b, t)
  BY <1>2 DEF Settled, Settles, Moves, SameStaff, SameLabels
<1> QED
  BY <1>1, <1>2 DEF Settled

LEMMA HandsMoves ==
  ASSUME NEW a, NEW b, Handed(a, b)
  PROVE  Moves(a, b) /\ SameLabels(a, b)
<1>1. CASE Eases(a, b)
  BY <1>1, EasesMoves DEF Handed, Calms
<1>2. CASE \E t \in DOMAIN a.tasks : Leases(a, b, t)
  BY <1>2 DEF Handed, Leases, Moves, SameStaff, SameLabels
<1> QED
  BY <1>1, <1>2 DEF Handed

LEMMA RestaffsMoves ==
  ASSUME NEW a, NEW b, Core(b), Quiet(b), Live(b), Restaffs(a, b)
  PROVE  Moves(a, b)
  BY DEF Moves

LEMMA TimeMoves ==
  ASSUME NEW a, Core(a), NEW k \in Nat, NEW b, Calms(Later(a, k), b)
  PROVE  Moves(a, b) /\ SameLabels(a, b)
<1>1. Later(a, k).workers = a.workers
  BY LaterFields DEF Core
<1> QED
  BY <1>1 DEF Calms, Moves, Eases, SameStaff, SameLabels

LEMMA AmountIsTime ==
  ASSUME NEW k \in Nat
  PROVE  Max({0, k}) = k
<1> DEFINE zero == 0
<1>1. zero \in Int
  OBVIOUS
<1>2. Max({zero, k}) = IF zero <= k THEN k ELSE zero
  <2> HIDE DEF zero
  <2> QED
    BY <1>1, LeastOfTwo
<1> QED
  BY <1>2

(* The error of what the generator may ask for. *)
LEMMA OwnKindsMove ==
  ASSUME NEW a, Core(a), Quiet(a), Live(a), NEW x, x.kind \in OwnKinds, x.text \in Nat
  PROVE  /\ Moves(a, Apply(a, x).m) /\ SameLabels(a, Apply(a, x).m)
         /\ x.token \in Tokens(a) /\ (x.kind = "log" => x.text \in 1..ChunkLimit) =>
              Apply(a, x).error \in {"none", "task_output_limit"}
<1>1. CASE x.kind = "start"
  <2>1. Apply(a, x) = Start(a, x.token)
    BY <1>1 DEF Apply
  <2> QED
    BY <1>1, <2>1, StartKeeps, EasesMoves
<1>2. CASE x.kind = "renew"
  <2>1. Apply(a, x) = Renew(a, x.token)
    BY <1>2 DEF Apply
  <2> QED
    BY <1>2, <2>1, RenewKeeps, EasesMoves
<1>3. CASE x.kind = "log"
  <2> DEFINE size == IF x.text = NoText THEN 4 ELSE Size(x.text)
  <2>1. Apply(a, x) = AppendLog(a, x.token, size)
    BY <1>3 DEF Apply
  <2>2. size \in Nat /\ (x.text \in 1..ChunkLimit => size <= ChunkLimit)
    BY LimitAssumption DEF NoText, Size, TextX
  <2> HIDE DEF size
  <2> QED
    BY <1>3, <2>1, <2>2, AppendKeeps, EasesMoves
<1>4. CASE x.kind = "complete_success"
  <2>1. Apply(a, x) = Complete(a, x.token, TRUE)
    BY <1>4 DEF Apply
  <2> QED
    BY <1>4, <2>1, CompleteKeeps, SettlesMoves
<1>5. CASE x.kind = "complete_failure"
  <2>1. Apply(a, x) = Complete(a, x.token, FALSE)
    BY <1>5 DEF Apply
  <2> QED
    BY <1>5, <2>1, CompleteKeeps, SettlesMoves
<1> QED
  BY <1>1, <1>2, <1>3, <1>4, <1>5 DEF OwnKinds

LEMMA LateKindsMove ==
  ASSUME NEW a, Core(a), Quiet(a), Live(a), NEW x, x.kind \in LateKinds
  PROVE  /\ Moves(a, Apply(a, x).m) /\ SameLabels(a, Apply(a, x).m)
         /\ x.token \in a.closed => Apply(a, x).error \in {"stale_lease", "duplicate_completion"}
<1>1. \/ Apply(a, x) = StaleComplete(a, x.token) \/ Apply(a, x) = StaleRenew(a, x.token)
      \/ Apply(a, x) = DuplicateComplete(a, x.token)
  BY DEF LateKinds, Apply
<1>2. Apply(a, x).m = a
  BY <1>1, RefusedIsSame
<1>3. ASSUME x.token \in a.closed
      PROVE  Apply(a, x).error \in {"stale_lease", "duplicate_completion"}
  <2>1. x.token \notin Tokens(a)
    BY <1>3 DEF Core, TokensAgree
  <2>2. \/ Apply(a, x) = Raises(a, "stale_lease")
        \/ Apply(a, x) = Raises(a, "duplicate_completion")
    BY <1>1, <1>3, <2>1 DEF StaleComplete, StaleRenew, DuplicateComplete, Refused
  <2> QED
    BY <2>2, RaisesIs
<1> QED
  BY <1>2, <1>3, SameCalms, EasesMoves

LEMMA WorkerKindsMove ==
  ASSUME NEW a, Core(a), Quiet(a), Live(a), NEW x, x.kind \in WorkerKinds
  PROVE  /\ Moves(a, Apply(a, x).m) /\ SameLabels(a, Apply(a, x).m)
         /\ x.worker \in DOMAIN a.workers =>
              a.workers[x.worker].dropped \/ Apply(a, x).error \in {"none", "worker_expired"}
<1>1. CASE x.kind = "heartbeat"
  <2>1. Apply(a, x) = Heartbeat(a, x.worker)
    BY <1>1 DEF Apply
  <2> QED
    BY <2>1, HeartbeatKeeps, RestaffsMoves
<1>2. CASE x.kind = "drop_worker"
  <2>1. Apply(a, x) = DropWorker(a, x.worker)
    BY <1>2 DEF Apply
  <2> QED
    BY <2>1, DropKeeps, RestaffsMoves
<1>3. CASE x.kind = "lease"
  <2>1. Apply(a, x) = LeaseNext(a, x.worker)
    BY <1>3 DEF Apply
  <2> QED
    BY <2>1, LeaseNextKeeps, HandsMoves
<1> QED
  BY <1>1, <1>2, <1>3 DEF WorkerKinds

LEMMA OtherKindsMove ==
  ASSUME NEW a, Core(a), Quiet(a), Live(a), NEW x, x.kind \in OtherKinds, x.amount \in Nat
  PROVE  /\ Moves(a, Apply(a, x).m) /\ SameLabels(a, Apply(a, x).m)
         /\ x.kind = "cancel_workflow" /\ x.workflow = FirstWorkflow =>
              Apply(a, x).error = "none"
         /\ x.kind # "cancel_workflow" => Apply(a, x).error = "none"
<1>1. CASE x.kind = "advance_time"
  <2>1. Apply(a, x) = Done(Advance(a, x.amount))
    BY <1>1, AmountIsTime DEF Apply
  <2> QED
    BY <1>1, <2>1, AdvanceKeeps, TimeMoves, RaisesIs
<1>2. CASE x.kind = "sweep"
  <2>1. Apply(a, x) = Done(Sweep(a))
    BY <1>2 DEF Apply
  <2> QED
    BY <1>2, <2>1, SweepKeeps, EasesMoves, RaisesIs
<1>3. CASE x.kind = "cancel_workflow"
  <2>1. Apply(a, x) = CancelWorkflow(a, x.workflow)
    BY <1>3 DEF Apply
  <2> QED
    BY <1>3, <2>1, CancelKeeps, EasesMoves
<1> QED
  BY <1>1, <1>2, <1>3 DEF OtherKinds

LEMMA NoLabels == {} \in Labels
  BY DEF Labels

LEMMA ApplyMoves ==
  ASSUME NEW a, Core(a), Quiet(a), Live(a), NEW x, IsAction(x)
  PROVE  /\ Moves(a, Apply(a, x).m)
         /\ x.kind # "register_worker" => SameLabels(a, Apply(a, x).m)
<1>1. CASE x.kind = "register_worker"
  <2> DEFINE capacity == Max({1, x.amount})
  <2>1. Apply(a, x) = RegisterWorker(a, x.worker, capacity, {})
    BY <1>1 DEF Apply
  <2>2. x.worker \in Nat
    BY <1>1 DEF IsAction
  <2> HIDE DEF capacity
  <2> QED
    BY <1>1, <2>1, <2>2, NoLabels, RegisterKeeps, RestaffsMoves
<1>2. CASE x.kind \in OwnKinds
  BY <1>2, OwnKindsMove DEF IsAction
<1>3. CASE x.kind \in LateKinds
  BY <1>3, LateKindsMove DEF IsAction
<1>4. CASE x.kind \in WorkerKinds
  BY <1>4, WorkerKindsMove DEF IsAction
<1>5. CASE x.kind \in OtherKinds
  BY <1>5, OtherKindsMove DEF IsAction
<1> QED
  BY <1>1, <1>2, <1>3, <1>4, <1>5 DEF IsAction

-----------------------------------------------------------------------------
(* next_action and the scripts ask for actions only, and next_action asks for
   them in order. *)

Asked(a, x) ==
  /\ x.kind # "register_worker"
  /\ x.kind \in OwnKinds => x.token \in Tokens(a)
  /\ x.kind = "log" => x.text \in 1..ChunkLimit
  /\ x.kind \in LateKinds => x.token \in a.closed
  /\ x.kind \in WorkerKinds => x.worker \in DOMAIN a.workers /\ ~ a.workers[x.worker].dropped
  /\ x.kind = "cancel_workflow" => x.workflow = FirstWorkflow

LEMMA PlainActions ==
  /\ \A kind, k : /\ OfToken(kind, k).kind = kind /\ OfToken(kind, k).token = k
                  /\ OfToken(kind, k).text = 0 /\ OfToken(kind, k).amount = 0
  /\ \A kind, w : /\ OfWorker(kind, w).kind = kind /\ OfWorker(kind, w).worker = w
                  /\ OfWorker(kind, w).text = 0 /\ OfWorker(kind, w).amount = 0
  /\ \A k, size : /\ OfLog(k, size).kind = "log" /\ OfLog(k, size).token = k
                  /\ OfLog(k, size).text = size /\ OfLog(k, size).amount = 0
  /\ \A f : /\ OfWorkflow(f).kind = "cancel_workflow" /\ OfWorkflow(f).workflow = f
            /\ OfWorkflow(f).text = 0 /\ OfWorkflow(f).amount = 0
  /\ \A k : /\ OfTime(k).kind = "advance_time" /\ OfTime(k).text = 0
            /\ OfTime(k).amount = k
  /\ OfNothing.kind = "sweep" /\ OfNothing.text = 0 /\ OfNothing.amount = 0
  BY DEF OfToken, OfWorker, OfLog, OfWorkflow, OfTime, OfNothing, NoAction, NoText

LEMMA LeaseChoicesAreAsked ==
  ASSUME NEW a, NEW l \in a.leases, NEW x \in LeaseChoices(a, l)
  PROVE  IsAction(x) /\ Asked(a, x)
<1>1. l.token \in Tokens(a)
  BY DEF Tokens
<1>2. \/ \E kind \in {"start", "complete_success", "complete_failure", "renew"} :
           x = OfToken(kind, l.token)
      \/ \E size \in TextSizes : x = OfLog(l.token, size)
  BY DEF LeaseChoices
<1>3. CASE \E kind \in {"start", "complete_success", "complete_failure", "renew"} :
             x = OfToken(kind, l.token)
  <2>1. /\ x.kind \in {"start", "complete_success", "complete_failure", "renew"}
        /\ x.token = l.token /\ x.text = 0 /\ x.amount = 0
    BY <1>3, PlainActions
  <2> QED
    BY <1>1, <2>1 DEF IsAction, Asked, OwnKinds, LateKinds, WorkerKinds
<1>4. CASE \E size \in TextSizes : x = OfLog(l.token, size)
  <2>1. PICK size \in TextSizes : x = OfLog(l.token, size)
    BY <1>4
  <2>2. x.kind = "log" /\ x.token = l.token /\ x.text = size /\ x.amount = 0
    BY <2>1, PlainActions
  <2>3. size \in 1..ChunkLimit /\ size \in Nat
    BY ConfigAssumption, LimitAssumption
  <2> QED
    BY <1>1, <2>2, <2>3 DEF IsAction, Asked, OwnKinds, LateKinds, WorkerKinds
<1> QED
  BY <1>2, <1>3, <1>4

LEMMA NextActionsAreAsked ==
  ASSUME NEW a, Core(a), NEW x \in NextActions(a)
  PROVE  IsAction(x) /\ Asked(a, x)
<1>1. \/ \E kind \in {"lease", "heartbeat", "drop_worker"} :
           \E w \in DOMAIN a.workers : ~ a.workers[w].dropped /\ x = OfWorker(kind, w)
      \/ \E l \in a.leases : x \in LeaseChoices(a, l)
      \/ \E kind \in LateKinds : \E k \in a.closed : x = OfToken(kind, k)
      \/ \E f \in DOMAIN a.workflows :
           x = OfWorkflow(f)
      \/ \E k \in TimeSteps : x = OfTime(k)
      \/ x = OfNothing
  BY DEF NextActions, LateKinds
<1>2. CASE \E kind \in {"lease", "heartbeat", "drop_worker"} :
             \E w \in DOMAIN a.workers : ~ a.workers[w].dropped /\ x = OfWorker(kind, w)
  <2>1. /\ x.kind \in {"lease", "heartbeat", "drop_worker"} /\ x.text = 0 /\ x.amount = 0
        /\ x.worker \in DOMAIN a.workers /\ ~ a.workers[x.worker].dropped
    BY <1>2, PlainActions
  <2> QED
    BY <2>1 DEF IsAction, Asked, OwnKinds, LateKinds, WorkerKinds
<1>3. CASE \E l \in a.leases : x \in LeaseChoices(a, l)
  BY <1>3, LeaseChoicesAreAsked
<1>4. CASE \E kind \in LateKinds : \E k \in a.closed : x = OfToken(kind, k)
  <2>1. x.kind \in LateKinds /\ x.token \in a.closed /\ x.text = 0 /\ x.amount = 0
    BY <1>4, PlainActions
  <2> QED
    BY <2>1 DEF IsAction, Asked, OwnKinds, LateKinds, WorkerKinds
<1>5. CASE \E f \in DOMAIN a.workflows :
             x = OfWorkflow(f)
  <2>1. DOMAIN a.workflows = {FirstWorkflow}
    BY ModelFacts DEF Core
  <2>2. /\ x.kind = "cancel_workflow" /\ x.workflow = FirstWorkflow
        /\ x.text = 0 /\ x.amount = 0
    BY <1>5, <2>1, PlainActions
  <2> QED
    BY <2>2 DEF IsAction, Asked, OwnKinds, LateKinds, WorkerKinds, OtherKinds
<1>6. CASE \E k \in TimeSteps : x = OfTime(k)
  <2>1. x.kind = "advance_time" /\ x.text = 0 /\ x.amount \in Nat
    BY <1>6, PlainActions, ConfigAssumption
  <2> QED
    BY <2>1 DEF IsAction, Asked, OwnKinds, LateKinds, WorkerKinds, OtherKinds
<1>7. CASE x = OfNothing
  <2>1. x.kind = "sweep" /\ x.text = 0 /\ x.amount = 0
    BY <1>7, PlainActions
  <2> QED
    BY <2>1 DEF IsAction, Asked, OwnKinds, LateKinds, WorkerKinds, OtherKinds
<1> QED
  BY <1>1, <1>2, <1>3, <1>4, <1>5, <1>6, <1>7

LEMMA OddActionsAreActions ==
  ASSUME Core(m), NEW x \in OddActions
  PROVE  IsAction(x)
<1>1. \/ \E kind \in OwnKinds \cup LateKinds : \E k : x = OfToken(kind, k)
      \/ \E kind \in WorkerKinds \cup {"register_worker"} :
           \E w \in DOMAIN m.workers : x = OfWorker(kind, w)
      \/ x = OfWorkflow(FirstWorkflow)
  BY DEF OddActions, OwnKinds, LateKinds, WorkerKinds
<1>2. DOMAIN m.workers \in SUBSET Nat
  BY ModelFacts DEF Core
<1>3. CASE \E kind \in OwnKinds \cup LateKinds : \E k : x = OfToken(kind, k)
  <2>1. x.kind \in OwnKinds \cup LateKinds /\ x.text = 0 /\ x.amount = 0
    BY <1>3, PlainActions
  <2> QED
    BY <2>1 DEF IsAction, OwnKinds, LateKinds
<1>4. CASE \E kind \in WorkerKinds \cup {"register_worker"} :
             \E w \in DOMAIN m.workers : x = OfWorker(kind, w)
  <2>1. PICK kind \in WorkerKinds \cup {"register_worker"}, w \in DOMAIN m.workers :
          x = OfWorker(kind, w)
    BY <1>4
  <2>2. x.kind = kind /\ x.worker = w /\ x.text = 0 /\ x.amount = 0
    BY <2>1, PlainActions
  <2> QED
    BY <1>2, <2>2 DEF IsAction
<1>5. CASE x = OfWorkflow(FirstWorkflow)
  <2>1. x.kind = "cancel_workflow" /\ x.text = 0 /\ x.amount = 0
    BY <1>5, PlainActions
  <2> QED
    BY <2>1 DEF IsAction, OtherKinds
<1> QED
  BY <1>1, <1>3, <1>4, <1>5

(* What next_action asks for is refused only for the reasons given. *)
LEMMA AskedIsServed ==
  ASSUME NEW a, Core(a), Quiet(a), Live(a), NEW x, IsAction(x), Asked(a, x)
  PROVE  Apply(a, x).error \in
           {"none", "worker_expired", "task_output_limit"}
           \cup (IF x.token \in a.closed
                 THEN {"stale_lease", "duplicate_completion"} ELSE {})
<1>1. CASE x.kind \in OwnKinds
  BY <1>1, OwnKindsMove DEF IsAction, Asked
<1>2. CASE x.kind \in LateKinds
  BY <1>2, LateKindsMove DEF Asked
<1>3. CASE x.kind \in WorkerKinds
  BY <1>3, WorkerKindsMove DEF Asked
<1>4. CASE x.kind \in OtherKinds
  BY <1>4, OtherKindsMove DEF IsAction, Asked
<1> QED
  BY <1>1, <1>2, <1>3, <1>4 DEF IsAction, Asked

-----------------------------------------------------------------------------
(* What the generator draws: tasks numbered from 0, each with labels and a
   policy of the configuration. *)

DrawnTasks(tasks) ==
  /\ \E S : tasks \in Seq(S)
  /\ Len(tasks) \in Nat \ {0} /\ DOMAIN tasks = 1..Len(tasks)
  /\ \A i \in 1..Len(tasks) : /\ tasks[i].id \in TaskId
                              /\ tasks[i].labels \in Labels
                              /\ tasks[i].retry \in Policies

LEMMA SpecFacts ==
  ASSUME NEW i, NEW r \in TaskSpecs(i), NEW s
  PROVE  /\ r.id = i - 1 /\ r.labels \in Labels /\ r.retry \in Policies
         /\ [r EXCEPT !.needs = s].id = r.id
         /\ [r EXCEPT !.needs = s].labels = r.labels
         /\ [r EXCEPT !.needs = s].retry = r.retry
<1>1. \A L \in LabelSets : L \in Labels
  BY DEF Labels
<1> QED
  BY <1>1 DEF TaskSpecs

LEMMA SpecsAreDrawn ==
  ASSUME NEW n \in MinTasks..MaxTasks, NEW tasks,
         Len(tasks) = n, DOMAIN tasks = 1..n, NEW S, tasks \in Seq(S),
         \A i \in 1..n : /\ tasks[i].id = i - 1 /\ tasks[i].labels \in Labels
                         /\ tasks[i].retry \in Policies
  PROVE  DrawnTasks(tasks)
<1>1. n \in Nat \ {0} /\ \A i \in 1..n : i - 1 \in TaskId
  BY ConfigAssumption DEF TaskId
<1> QED
  BY <1>1 DEF DrawnTasks

LEMMA WorkflowsAreDrawn ==
  ASSUME NEW tasks \in GeneratedWorkflows
  PROVE  DrawnTasks(tasks)
<1> DEFINE AllSpecs == UNION {TaskSpecs(i) : i \in 1..MaxTasks}
           drawn(n) == {ts \in [1..n -> AllSpecs] : \A i \in 1..n : ts[i] \in TaskSpecs(i)}
           linked(ts) == IF Len(ts) > 1 /\ \A i \in DOMAIN ts : ts[i].needs = <<>>
                         THEN [ts EXCEPT ![Len(ts)].needs = <<ts[1].id>>] ELSE ts
<1>0. PICK n \in MinTasks..MaxTasks : \E ts \in drawn(n) : tasks = linked(ts)
  BY DEF GeneratedWorkflows
<1>1. PICK ts \in drawn(n) : tasks = linked(ts)
  BY <1>0
<1> HIDE DEF AllSpecs
<1>2. n \in Nat /\ n > 0
  BY ConfigAssumption
<1>3. ts \in [1..n -> AllSpecs] /\ \A i \in 1..n : ts[i] \in TaskSpecs(i)
  BY <1>1
<1> HIDE DEF drawn
<1>4. ts \in Seq(AllSpecs) /\ Len(ts) = n /\ DOMAIN ts = 1..n
  BY <1>2, <1>3
<1>5. \A i \in 1..n : /\ ts[i].id = i - 1 /\ ts[i].labels \in Labels
                      /\ ts[i].retry \in Policies
  BY <1>3, SpecFacts
<1>6. CASE tasks = ts
  BY <1>4, <1>5, <1>6, SpecsAreDrawn
<1>7. CASE tasks # ts
  <2> DEFINE s == <<ts[1].id>>
             last == [ts[n] EXCEPT !.needs = s]
  <2>1. tasks = [ts EXCEPT ![n].needs = s]
    BY <1>1, <1>4, <1>7
  <2>2. tasks = [ts EXCEPT ![n] = last]
    BY <2>1, <1>4
  <2>3. last.id = n - 1 /\ last.labels \in Labels /\ last.retry \in Policies
    BY <1>2, <1>3, SpecFacts
  <2> HIDE DEF last, s, linked
  <2>4. tasks \in [1..n -> AllSpecs \cup {last}]
    BY <1>3, <2>2
  <2>5. tasks \in Seq(AllSpecs \cup {last}) /\ Len(tasks) = n /\ DOMAIN tasks = 1..n
    BY <1>2, <2>4
  <2>6. \A i \in 1..n : /\ tasks[i].id = i - 1 /\ tasks[i].labels \in Labels
                        /\ tasks[i].retry \in Policies
    BY <1>3, <1>5, <2>2, <2>3
  <2> QED
    BY <2>5, <2>6, SpecsAreDrawn
<1> QED
  BY <1>6, <1>7

-----------------------------------------------------------------------------
(* add_workflow on an empty model. *)

Opened(tasks) ==
  [now |-> 0, counter |-> 0,
   workflows |-> [f \in {FirstWorkflow} |->
                    [order |-> KahnOrder(tasks), created |-> 0, state |-> "PENDING",
                     finished |-> Nil]],
   tasks |-> [t \in Ids(tasks) |-> NewTask(FirstWorkflow, ById(tasks, t))],
   workers |-> <<>>, leases |-> {}, closed |-> {}]

LEMMA HoldingRecord ==
  ASSUME NEW N, NEW W, NEW T, NEW S, NEW L, NEW K,
         NEW a \in [now : N, counter : N, workflows : W, tasks : T, workers : S, leases : L,
                   closed : K], NEW flows, NEW table,
         NEW b, b = Holding(a, flows, table)
  PROVE  /\ IsRecord(b) /\ b.workflows = flows /\ b.tasks = table
         /\ b.now = a.now /\ b.counter = a.counter
         /\ b.workers = a.workers /\ b.leases = a.leases /\ b.closed = a.closed
  BY DEF IsRecord, Holding

LEMMA EmptyHolding ==
  ASSUME NEW flows, NEW table, NEW b, b = Holding(Empty, flows, table)
  PROVE  /\ IsRecord(b) /\ b.workflows = flows /\ b.tasks = table
         /\ b.now = 0 /\ b.counter = 0
         /\ b.workers = <<>> /\ b.leases = {} /\ b.closed = {}
<1> DEFINE none == <<>>
           X == {none}
           Y == {{}}
           N == {0}
<1>1. Empty = [now |-> 0, counter |-> 0, workflows |-> none, tasks |-> none,
               workers |-> none, leases |-> {}, closed |-> {}]
  BY DEF Empty
<1> HIDE DEF none
<1>2. /\ Empty.now = 0 /\ Empty.counter = 0 /\ Empty.workers = none
      /\ Empty.leases = {} /\ Empty.closed = {}
      /\ Empty \in [now : N, counter : N, workflows : X, tasks : X, workers : X, leases : Y,
                    closed : Y]
  BY <1>1
<1> HIDE DEF X, Y, N
<1>3. /\ IsRecord(b) /\ b.workflows = flows /\ b.tasks = table
      /\ b.now = Empty.now /\ b.counter = Empty.counter
      /\ b.workers = Empty.workers /\ b.leases = Empty.leases /\ b.closed = Empty.closed
  BY <1>2, HoldingRecord
<1> QED
  BY <1>2, <1>3 DEF none

LEMMA SameRecord ==
  ASSUME NEW a, NEW b, IsRecord(a), IsRecord(b), a.now = b.now, a.counter = b.counter,
         a.workflows = b.workflows, a.tasks = b.tasks, a.workers = b.workers,
         a.leases = b.leases, a.closed = b.closed
  PROVE  a = b
  BY DEF IsRecord

LEMMA AddedIs ==
  ASSUME NEW tasks, AddWorkflow(Empty, FirstWorkflow, tasks).error = "none"
  PROVE  /\ ValidDag(tasks)
         /\ AddWorkflow(Empty, FirstWorkflow, tasks).m = Recompute(Opened(tasks), FirstWorkflow)
<1> DEFINE flow == [order |-> KahnOrder(tasks), created |-> Empty.now, state |-> "PENDING",
                    finished |-> Nil]
           flows == Entered(Empty.workflows, FirstWorkflow, flow)
           table == [t \in DOMAIN Empty.tasks \cup Ids(tasks) |->
                       IF t \in Ids(tasks) THEN NewTask(FirstWorkflow, ById(tasks, t))
                       ELSE Empty.tasks[t]]
           b == Holding(Empty, flows, table)
           c == Opened(tasks)
<1>1. DOMAIN <<>> = {}
  OBVIOUS
<1>2. Empty.workflows = <<>> /\ Empty.tasks = <<>> /\ Empty.now = 0
  BY DEF Empty
<1>3. FirstWorkflow \notin DOMAIN Empty.workflows
  BY <1>1, <1>2
<1>4. ASSUME ~ ValidDag(tasks) PROVE FALSE
  <2>1. AddWorkflow(Empty, FirstWorkflow, tasks) = Raises(Empty, FirstRefusal(tasks))
    BY <1>3, <1>4 DEF AddWorkflow
  <2>2. Raises(Empty, FirstRefusal(tasks)).error = FirstRefusal(tasks)
    BY DEF Raises
  <2>3. FirstRefusal(tasks) # "none"
    BY DEF FirstRefusal
  <2> QED
    BY <2>1, <2>2, <2>3
<1>5. AddWorkflow(Empty, FirstWorkflow, tasks) = Done(Recompute(b, FirstWorkflow))
  BY <1>3, <1>4 DEF AddWorkflow
<1>6. table = [t \in Ids(tasks) |-> NewTask(FirstWorkflow, ById(tasks, t))]
  <2>1. DOMAIN Empty.tasks \cup Ids(tasks) = Ids(tasks)
    BY <1>1, <1>2
  <2> QED
    BY <2>1
<1>7. flow = [order |-> KahnOrder(tasks), created |-> 0, state |-> "PENDING", finished |-> Nil]
  BY <1>2
<1>8. flows = [f \in {FirstWorkflow} |-> flow]
  <2> HIDE DEF flow
  <2>1. DOMAIN Empty.workflows \cup {FirstWorkflow} = {FirstWorkflow}
    BY <1>1, <1>2
  <2> QED
    BY <2>1 DEF Entered
<1>9. c = [now |-> 0, counter |-> 0, workflows |-> flows,
           tasks |-> table, workers |-> <<>>, leases |-> {}, closed |-> {}]
  <2> HIDE DEF flows, table
  <2> QED
    BY <1>6, <1>7, <1>8 DEF Opened
<1> HIDE DEF flow, flows, table, b, c
<1>10. /\ IsRecord(b) /\ b.workflows = flows /\ b.tasks = table
       /\ b.now = 0 /\ b.counter = 0
       /\ b.workers = <<>> /\ b.leases = {} /\ b.closed = {}
  BY EmptyHolding DEF b
<1>11. /\ IsRecord(c) /\ c.workflows = flows /\ c.tasks = table
       /\ c.now = 0 /\ c.counter = 0
       /\ c.workers = <<>> /\ c.leases = {} /\ c.closed = {}
  BY <1>9 DEF IsRecord
<1>12. b = c
  BY <1>10, <1>11, SameRecord
<1> QED
  BY <1>4, <1>5, <1>12, RaisesIs DEF c

LEMMA NewTaskFacts ==
  ASSUME NEW task, task.labels \in Labels, task.retry \in Policies,
         ToSet(task.needs) \in SUBSET TaskId,
         NEW r, r = NewTask(FirstWorkflow, task)
  PROVE  /\ r \in TaskRecord /\ TaskAgrees(r, 0)
         /\ r.needs = ToSet(task.needs) /\ r.labels = task.labels
         /\ r.state = "PENDING" /\ r.attempt = 0
<1>1. Normalized(task.retry) \in RetryRecord
  <2>1. task.retry.attempts \in Int /\ task.retry.base \in Int /\ task.retry.max \in Int
    BY ConfigAssumption
  <2> QED
    BY <2>1, NormalizedIsRecord
<1> DEFINE q == Normalized(task.retry)
<1>2. /\ r = [wf |-> FirstWorkflow, needs |-> ToSet(task.needs), labels |-> task.labels,
              retry |-> q, state |-> "PENDING", attempt |-> 0,
              token |-> NoToken, owner |-> NoOwner, until |-> Nil, retryAt |-> Nil,
              started |-> Nil, finished |-> Nil, output |-> 0]
  BY DEF NewTask
<1> HIDE DEF q
<1>3. r \in TaskRecord
  BY <1>1, <1>2, LimitAssumption DEF q, TaskRecord, States, Instant
<1>4. TaskAgrees(r, 0)
  BY <1>2 DEF TaskAgrees, Held, Nil
<1> QED
  BY <1>2, <1>3, <1>4

LEMMA OpenedTasks ==
  ASSUME NEW tasks, DrawnTasks(tasks), ValidDag(tasks)
  PROVE  /\ IsGraph(tasks) /\ Ids(tasks) \in SUBSET TaskId
         /\ ToSet(KahnOrder(tasks)) = Ids(tasks)
         /\ \A t \in Ids(tasks) :
              LET r == NewTask(FirstWorkflow, ById(tasks, t)) IN
              /\ r \in TaskRecord /\ TaskAgrees(r, 0) /\ r.state = "PENDING" /\ r.attempt = 0
              /\ r.needs = Needs(tasks, t) /\ r.needs \in SUBSET Ids(tasks)
              /\ \E i \in DOMAIN tasks : r.labels = tasks[i].labels
<1> DEFINE N == Len(tasks)
<1>1. N \in Nat /\ DOMAIN tasks = 1..N
      /\ \A i \in 1..N : /\ tasks[i].id \in TaskId /\ tasks[i].labels \in Labels
                         /\ tasks[i].retry \in Policies
  BY DEF DrawnTasks
<1>2. TaskId \in SUBSET Nat
  BY DEF TaskId
<1>3. IsGraph(tasks)
  BY <1>1, <1>2 DEF IsGraph
<1>4. /\ \A i \in 1..N : ToSet(tasks[i].needs) \subseteq Ids(tasks)
      /\ ToSet(KahnOrder(tasks)) = Ids(tasks)
  BY <1>3, ValidDagMeans DEF DrawnTasks
<1>5. Ids(tasks) \in SUBSET TaskId
  BY <1>1 DEF Ids
<1> HIDE DEF N
<1>6. ASSUME NEW t \in Ids(tasks), NEW r, r = NewTask(FirstWorkflow, ById(tasks, t))
      PROVE  /\ r \in TaskRecord /\ TaskAgrees(r, 0) /\ r.state = "PENDING" /\ r.attempt = 0
             /\ r.needs = Needs(tasks, t) /\ r.needs \in SUBSET Ids(tasks)
             /\ \E i \in DOMAIN tasks : r.labels = tasks[i].labels
  <2>1. PICK i \in 1..N : ById(tasks, t) = tasks[i]
    BY <1>1, ByIdIsTask
  <2>2. ToSet(tasks[i].needs) \in SUBSET TaskId /\ ToSet(tasks[i].needs) \in SUBSET Ids(tasks)
    BY <1>4, <1>5
  <2>3. /\ r \in TaskRecord /\ TaskAgrees(r, 0) /\ r.state = "PENDING" /\ r.attempt = 0
        /\ r.needs = ToSet(tasks[i].needs) /\ r.labels = tasks[i].labels
    BY <1>1, <1>6, <2>1, <2>2, NewTaskFacts
  <2> QED
    BY <1>1, <2>1, <2>2, <2>3 DEF Needs
<1> QED
  BY <1>3, <1>4, <1>5, <1>6

LEMMA OpenedFields ==
  ASSUME NEW tasks, NEW a, a = Opened(tasks)
  PROVE  /\ IsRecord(a) /\ a.now = 0 /\ a.counter = 0
         /\ DOMAIN a.tasks = Ids(tasks)
         /\ a.workers = <<>> /\ a.leases = {} /\ a.closed = {}
         /\ a.workflows \in [{FirstWorkflow} -> {Flow(a)}]
         /\ Flow(a).order = KahnOrder(tasks) /\ Flow(a).created = 0
         /\ Flow(a).state = "PENDING" /\ Flow(a).finished = Nil
<1> DEFINE flow == [order |-> KahnOrder(tasks), created |-> 0, state |-> "PENDING",
                    finished |-> Nil]
           table == [t \in Ids(tasks) |-> NewTask(FirstWorkflow, ById(tasks, t))]
<1>1. a = [now |-> 0, counter |-> 0, workflows |-> [f \in {FirstWorkflow} |-> flow],
           tasks |-> table, workers |-> <<>>, leases |-> {}, closed |-> {}]
  BY DEF Opened
<1>2. DOMAIN table = Ids(tasks)
  OBVIOUS
<1> HIDE DEF table
<1>3. /\ IsRecord(a) /\ a.now = 0 /\ a.counter = 0 /\ a.tasks = table
      /\ a.workers = <<>> /\ a.leases = {} /\ a.closed = {}
      /\ a.workflows = [f \in {FirstWorkflow} |-> flow]
  <2> HIDE DEF flow
  <2> QED
    BY <1>1 DEF IsRecord
<1>4. Flow(a) = flow /\ a.workflows \in [{FirstWorkflow} -> {flow}]
  <2> HIDE DEF flow
  <2> QED
    BY <1>3 DEF Flow
<1> QED
  BY <1>2, <1>3, <1>4

LEMMA OpenedTable ==
  ASSUME NEW tasks, NEW a, a = Opened(tasks), NEW R,
         \A t \in Ids(tasks) : NewTask(FirstWorkflow, ById(tasks, t)) \in R
  PROVE  a.tasks \in [Ids(tasks) -> R]
  BY DEF Opened

LEMMA OpenedTask ==
  ASSUME NEW tasks, NEW t \in Ids(tasks)
  PROVE  Opened(tasks).tasks[t] = NewTask(FirstWorkflow, ById(tasks, t))
  BY DEF Opened

LEMMA OpenedFlow ==
  ASSUME NEW tasks, KahnOrder(tasks) \in Seq(TaskId)
  PROVE  Flow(Opened(tasks)) \in WorkflowRecord
<1> DEFINE o == KahnOrder(tasks)
<1>1. Flow(Opened(tasks)) = [order |-> o, created |-> 0, state |-> "PENDING", finished |-> Nil]
  BY DEF Opened, Flow
<1> HIDE DEF o
<1>2. o \in Seq(TaskId)
  BY DEF o
<1> QED
  BY <1>1, <1>2 DEF WorkflowRecord, Instant, Open

LEMMA OpenedIsCore ==
  ASSUME NEW tasks, DrawnTasks(tasks), ValidDag(tasks), NEW a, a = Opened(tasks)
  PROVE  /\ Core(a) /\ Quiet(a) /\ Untouched(a) /\ DOMAIN a.tasks # {}
         /\ \A t \in DOMAIN a.tasks : /\ a.tasks[t].attempt = 0
                                      /\ \E i \in DOMAIN tasks :
                                           a.tasks[t].labels = tasks[i].labels
<1> DEFINE o == KahnOrder(tasks)
           I == Ids(tasks)
<1>1. /\ IsGraph(tasks) /\ I \in SUBSET TaskId /\ ToSet(o) = I
  BY OpenedTasks
<1>2. /\ IsRecord(a) /\ a.now = 0 /\ a.counter = 0
      /\ DOMAIN a.tasks = I
      /\ a.workers = <<>> /\ a.leases = {} /\ a.closed = {}
      /\ a.workflows \in [{FirstWorkflow} -> {Flow(a)}]
      /\ Flow(a).order = o /\ Flow(a).created = 0 /\ Flow(a).state = "PENDING"
      /\ Flow(a).finished = Nil
  BY OpenedFields
<1>3. ASSUME NEW t \in I
      PROVE  /\ a.tasks[t] \in TaskRecord /\ TaskAgrees(a.tasks[t], 0)
             /\ a.tasks[t].state = "PENDING" /\ a.tasks[t].attempt = 0
             /\ a.tasks[t].needs = Needs(tasks, t) /\ a.tasks[t].needs \in SUBSET I
             /\ \E i \in DOMAIN tasks : a.tasks[t].labels = tasks[i].labels
  <2>1. a.tasks[t] = NewTask(FirstWorkflow, ById(tasks, t))
    BY OpenedTask
  <2> QED
    BY <2>1, OpenedTasks
<1>4. a.tasks \in [I -> TaskRecord]
  BY OpenedTasks, OpenedTable
<1>5. Sound(tasks, o)
  BY <1>1, KahnSound
<1> HIDE DEF I, o
<1>6. a \in Model
  <2>1. a.tasks \in Tables(TaskId, TaskRecord)
    BY <1>1, <1>4 DEF Tables
  <2>2. a.workers \in Tables(Nat, WorkerRecord)
    <3>1. <<>> \in [{} -> WorkerRecord]
      OBVIOUS
    <3> QED
      BY <1>2, <3>1 DEF Tables
  <2>3. Flow(a) \in WorkflowRecord
    <3>1. o \in Seq(I)
      BY <1>5 DEF Sound, I
    <3>2. o \in Seq(TaskId)
      BY <1>1, <3>1
    <3> QED
      BY <3>2, OpenedFlow DEF o
  <2>4. a.workflows \in [{FirstWorkflow} -> WorkflowRecord]
    BY <1>2, <2>3
  <2>5. /\ a.now \in Nat /\ a.counter \in Nat /\ IsRecord(a)
        /\ a.leases \in SUBSET LeaseRecord /\ a.closed \in SUBSET TokenSet
    BY <1>2
  <2> QED
    BY <2>1, <2>2, <2>4, <2>5, ModelFrom
<1>7. LeasesAgree(a)
  BY <1>2, <1>3, FS_EmptySet DEF LeasesAgree, Held
<1>8. TokensAgree(a) /\ WorkersAgree(a)
  BY <1>2 DEF TokensAgree, WorkersAgree, Tokens
<1>9. TasksAgree(a) /\ NeedsDone(a)
  BY <1>2, <1>3 DEF TasksAgree, NeedsDone, Active
<1>10. FlowAgrees(a)
  <2>1. IsOrder(a, o)
    <3>1. o \in Seq(I) /\ Len(o) \in Nat /\ DOMAIN o = 1..Len(o)
      BY <1>5, LenProperties DEF Sound, I
    <3>2. \A i \in 1..Len(o) : o[i] \in I
      BY <3>1, ElementOfSeq
    <3>3. \A t \in I : \E i \in 1..Len(o) : o[i] = t
      BY <1>1, <3>1 DEF ToSet
    <3>4. \A i, k \in 1..Len(o) : o[i] = o[k] => i = k
      BY <1>5 DEF Sound
    <3>5. ASSUME NEW k \in 1..Len(o), NEW d \in a.tasks[o[k]].needs
          PROVE  \E i \in 1..(k - 1) : o[i] = d
      <4>1. d \in Needs(tasks, o[k]) \cap I
        BY <1>3, <3>2, <3>5
      <4> QED
        BY <1>5, <4>1 DEF Sound, I
    <3> QED
      BY <1>2, <3>2, <3>3, <3>4, <3>5 DEF IsOrder
  <2> QED
    BY <1>2, <2>1 DEF FlowAgrees, Final, Nil
<1>11. Quiet(a) /\ Untouched(a)
  BY <1>2, <1>3 DEF Quiet, Untouched, Final
<1>12. DOMAIN a.tasks # {}
  <2>1. 1 \in DOMAIN tasks
    BY DEF DrawnTasks
  <2>2. tasks[1].id \in I
    BY <2>1 DEF I, Ids
  <2> QED
    BY <1>2, <2>2
<1> QED
  BY <1>2, <1>3, <1>6, <1>7, <1>8, <1>9, <1>10, <1>11, <1>12 DEF Core

(* What bootstrap starts from. *)
LEMMA AddedKeeps ==
  ASSUME NEW tasks, DrawnTasks(tasks), NEW y,
         y = AddWorkflow(Empty, FirstWorkflow, tasks), y.error = "none"
  PROVE  /\ Core(y.m) /\ Quiet(y.m) /\ Untouched(y.m)
         /\ y.m.leases = {} /\ y.m.closed = {} /\ y.m.workers = <<>>
         /\ DOMAIN y.m.tasks # {}
         /\ \A t \in DOMAIN y.m.tasks :
              /\ y.m.tasks[t].attempt = 0
              /\ \E i \in DOMAIN tasks : y.m.tasks[t].labels = tasks[i].labels
<1> DEFINE a == Opened(tasks)
<1>1. ValidDag(tasks) /\ y.m = Recompute(a, FirstWorkflow)
  BY AddedIs
<1>2. /\ Core(a) /\ Quiet(a) /\ Untouched(a) /\ DOMAIN a.tasks # {}
      /\ \A t \in DOMAIN a.tasks : /\ a.tasks[t].attempt = 0
                                   /\ \E i \in DOMAIN tasks : a.tasks[t].labels = tasks[i].labels
  BY <1>1, OpenedIsCore
<1>3. a.workers = <<>> /\ a.leases = {} /\ a.closed = {}
  BY OpenedFields
<1> HIDE DEF a
<1>4. Recomputed(a, y.m)
  BY <1>1, <1>2, RecomputeKeeps
<1>5. /\ DOMAIN y.m.tasks = DOMAIN a.tasks
      /\ \A t \in DOMAIN y.m.tasks : /\ t \in DOMAIN a.tasks
                                     /\ y.m.tasks[t].attempt = a.tasks[t].attempt
                                     /\ y.m.tasks[t].labels = a.tasks[t].labels
  BY <1>4 DEF Recomputed, Eases, Eased, SameSpec
<1> QED
  BY <1>2, <1>3, <1>4, <1>5 DEF Recomputed

-----------------------------------------------------------------------------
(* A fold over a sequence of length n: Q holds of the places that had their
   turn and what they made of x. *)
SeqFolds(n, x, F, g) ==
  [s \in SUBSET (1..n) |-> IF s = {} THEN x ELSE F[Max(s)][g[s \ {Max(s)}]]]

LEMMA SeqFold ==
  ASSUME NEW n \in Nat, NEW x, NEW F, NEW Q, <<{}, x>> \in Q,
         \A y : \A s \in SUBSET (1..n) :
           s # {} /\ <<s \ {Max(s)}, y>> \in Q => <<s, F[Max(s)][y]>> \in Q
  PROVE  \E g : /\ g = SeqFolds(n, x, F, g)
                /\ \A s \in SUBSET (1..n) : <<s, g[s]>> \in Q
<1> DEFINE T == 1..n
           C == [s \in SUBSET T |-> Max(s)]
<1>1. IsFiniteSet(T)
  BY FS_Interval
<1>2. \A s \in SUBSET T : s # {} => C[s] \in s /\ C[s] = Max(s)
  BY LastPlace
<1>3. Chooses(C, T)
  BY <1>2 DEF Chooses
<1> HIDE DEF C
<1>4. PICK g : g = Folds(T, C, x, F, g)
  BY <1>1, <1>3, FoldExists
<1>5. \A s \in SUBSET T : g[s] = IF s = {} THEN x ELSE F[C[s]][g[s \ {C[s]}]]
  BY <1>4 DEF Folds
<1>6. \A s \in SUBSET T : <<s, g[s]>> \in Q
  <2>1. ASSUME NEW s \in SUBSET T, s # {}, <<s \ {C[s]}, g[s \ {C[s]}]>> \in Q
        PROVE  <<s, g[s]>> \in Q
    <3> DEFINE y == g[s \ {Max(s)}]
    <3>1. C[s] = Max(s) /\ g[s] = F[Max(s)][y]
      BY <1>2, <1>5, <2>1
    <3>2. <<s \ {Max(s)}, y>> \in Q
      BY <2>1, <3>1
    <3> HIDE DEF y
    <3> QED
      BY <2>1, <3>1, <3>2
  <2>2. g[{}] = x
    BY <1>5
  <2> QED
    BY <1>1, <1>3, <2>1, <2>2, FoldHolds
<1>7. g = SeqFolds(n, x, F, g)
  BY <1>2, <1>4 DEF Folds, SeqFolds
<1> QED
  BY <1>6, <1>7

(* And of any function that solves the same recursion. *)
LEMMA SeqFoldHolds ==
  ASSUME NEW n \in Nat, NEW h, NEW Q, <<{}, h[{}]>> \in Q,
         \A s \in SUBSET (1..n) :
           s # {} /\ <<s \ {Max(s)}, h[s \ {Max(s)}]>> \in Q => <<s, h[s]>> \in Q
  PROVE  <<1..n, h[1..n]>> \in Q
<1> DEFINE T == 1..n
           C == [s \in SUBSET T |-> Max(s)]
<1>1. IsFiniteSet(T)
  BY FS_Interval
<1>2. \A s \in SUBSET T : s # {} => C[s] \in s /\ C[s] = Max(s)
  BY LastPlace
<1>3. Chooses(C, T)
  BY <1>2 DEF Chooses
<1>4. \A s \in SUBSET T :
        s # {} /\ <<s \ {C[s]}, h[s \ {C[s]}]>> \in Q => <<s, h[s]>> \in Q
  BY <1>2
<1> HIDE DEF C, T
<1>5. \A s \in SUBSET T : <<s, h[s]>> \in Q
  BY <1>1, <1>3, <1>4, FoldHolds
<1>6. T \in SUBSET T
  OBVIOUS
<1>7. <<T, h[T]>> \in Q
  BY <1>5, <1>6
<1> QED
  BY <1>7 DEF T

-----------------------------------------------------------------------------
(* bootstrap: the workers register one by one. *)

Roster(specs) ==
  /\ Len(specs) \in Nat /\ DOMAIN specs = 1..Len(specs)
  /\ \A i \in 1..Len(specs) : specs[i].id \in Nat /\ specs[i].labels \in Labels

AfterBoots(x, specs, s, y) ==
  y.error = "none" =>
    /\ x.error = "none"
    /\ Core(y.m) /\ Quiet(y.m) /\ y.m.leases = {} /\ y.m.closed = {}
    /\ y.m.tasks = x.m.tasks
    /\ \A w \in DOMAIN y.m.workers : ~ y.m.workers[w].dropped
    /\ \A i \in s : /\ specs[i].id \in DOMAIN y.m.workers
                    /\ y.m.workers[specs[i].id].labels = specs[i].labels

Answers(x) ==
  {x} \cup {Raises(n, code) : n \in Model, code \in {"none", "capacity", "worker_exists"}}

LEMMA Joins ==
  ASSUME NEW a, Core(a), Quiet(a), Live(a), NEW w \in Nat, NEW capacity, NEW labels \in Labels,
         NEW y, y = RegisterWorker(a, w, capacity, labels)
  PROVE  /\ \E n \in Model, code \in {"none", "capacity", "worker_exists"} : y = Raises(n, code)
         /\ y.error = "none" =>
              /\ w \in DOMAIN a.workers => a.workers[w].dropped
              /\ y.m.workers = Entered(a.workers, w, NewWorker(a, capacity, labels))
<1>1. Core(y.m) /\ a \in Model /\ y.m \in Model
  BY RegisterKeeps DEF Core
<1>2. CASE capacity \notin 1..256
  <2>1. y = Raises(a, "capacity")
    BY <1>2 DEF RegisterWorker
  <2> QED
    BY <1>1, <2>1, RaisesIs
<1>3. CASE w \in DOMAIN a.workers /\ ~ a.workers[w].dropped /\ capacity \in 1..256
  <2>1. y = Raises(a, "worker_exists")
    BY <1>3 DEF RegisterWorker
  <2> QED
    BY <1>1, <2>1, RaisesIs
<1>4. CASE capacity \in 1..256 /\ (w \in DOMAIN a.workers => a.workers[w].dropped)
  <2> DEFINE T == Entered(a.workers, w, NewWorker(a, capacity, labels))
  <2>1. y = Done([a EXCEPT !.workers = T])
    BY <1>4 DEF RegisterWorker, NewWorker
  <2> HIDE DEF T
  <2>2. y.m = [a EXCEPT !.workers = T] /\ y = Raises(y.m, "none")
    BY <2>1 DEF Done, Raises
  <2>3. y.m.workers = T
    BY <1>1, <2>2, StaffFields DEF StaffTo
  <2> QED
    BY <1>1, <1>4, <2>2, <2>3 DEF T
<1> QED
  BY <1>2, <1>3, <1>4

LEMMA BootTurn ==
  ASSUME NEW x, NEW specs, Roster(specs), NEW s \in SUBSET (1..Len(specs)), NEW i \in s,
         NEW y \in Answers(x), AfterBoots(x, specs, s \ {i}, y),
         NEW z, z = Registered(y, specs[i])
  PROVE  AfterBoots(x, specs, s, z) /\ z \in Answers(x)
<1>1. CASE y.error # "none"
  BY <1>1 DEF Registered, AfterBoots
<1>2. CASE y.error = "none"
  <2> DEFINE w == specs[i].id
             labels == specs[i].labels
             capacity == specs[i].capacity
  <2>1. z = RegisterWorker(y.m, w, capacity, labels)
    BY <1>2 DEF Registered
  <2>2. w \in Nat /\ labels \in Labels
    BY DEF Roster
  <2>3. /\ x.error = "none"
        /\ Core(y.m) /\ Quiet(y.m) /\ Live(y.m) /\ y.m.leases = {} /\ y.m.closed = {}
        /\ y.m.tasks = x.m.tasks
        /\ \A v \in DOMAIN y.m.workers : ~ y.m.workers[v].dropped
        /\ \A k \in s \ {i} : /\ specs[k].id \in DOMAIN y.m.workers
                              /\ y.m.workers[specs[k].id].labels = specs[k].labels
    BY <1>2 DEF AfterBoots, Live
  <2> HIDE DEF w, labels, capacity
  <2>4. z \in Answers(x)
    BY <2>1, <2>2, <2>3, Joins DEF Answers
  <2>5. ASSUME z.error = "none"
        PROVE  /\ Core(z.m) /\ Quiet(z.m) /\ z.m.leases = {} /\ z.m.closed = {}
               /\ z.m.tasks = x.m.tasks
    BY <2>1, <2>2, <2>3, RegisterKeeps DEF Restaffs
  <2>6. ASSUME z.error = "none"
        PROVE  /\ w \notin DOMAIN y.m.workers
               /\ DOMAIN z.m.workers = DOMAIN y.m.workers \cup {w}
               /\ z.m.workers[w].labels = labels /\ ~ z.m.workers[w].dropped
               /\ \A v \in DOMAIN y.m.workers : z.m.workers[v] = y.m.workers[v]
    <3> DEFINE q == NewWorker(y.m, capacity, labels)
    <3>1. q.labels = labels /\ q.dropped = FALSE
      BY DEF NewWorker
    <3> HIDE DEF q
    <3>2. w \notin DOMAIN y.m.workers /\ z.m.workers = Entered(y.m.workers, w, q)
      BY <2>1, <2>2, <2>3, <2>6, Joins DEF q
    <3> QED
      BY <3>1, <3>2 DEF Entered
  <2>7. ASSUME z.error = "none", NEW k \in s
        PROVE  /\ specs[k].id \in DOMAIN z.m.workers
               /\ z.m.workers[specs[k].id].labels = specs[k].labels
    BY <2>3, <2>6, <2>7 DEF w, labels
  <2>8. ASSUME z.error = "none", NEW v \in DOMAIN z.m.workers
        PROVE  ~ z.m.workers[v].dropped
    BY <2>3, <2>6, <2>8
  <2>9. AfterBoots(x, specs, s, z)
    BY <2>3, <2>5, <2>7, <2>8 DEF AfterBoots
  <2> QED
    BY <2>4, <2>9
<1> QED
  BY <1>1, <1>2

BootsTo(x, specs, g) ==
  [s \in SUBSET DOMAIN specs |->
     IF s = {} THEN x ELSE Registered(g[s \ {Max(s)}], specs[Max(s)])]

LEMMA BootsIs ==
  ASSUME NEW x, NEW specs
  PROVE  FoldLeft(Registered, x, specs)
           = (CHOOSE g : g = BootsTo(x, specs, g))[DOMAIN specs]
  BY DEF FoldLeft, MapThenFoldSet, BootsTo

LEMMA BootsKeep ==
  ASSUME NEW x, NEW specs, Roster(specs), AfterBoots(x, specs, {}, x)
  PROVE  AfterBoots(x, specs, DOMAIN specs, FoldLeft(Registered, x, specs))
<1> DEFINE n == Len(specs)
           T == 1..n
           G == Answers(x)
           F == [i \in T |-> [y \in G |-> Registered(y, specs[i])]]
           Q == {p \in (SUBSET T) \X G : AfterBoots(x, specs, p[1], p[2])}
           h == CHOOSE g : g = BootsTo(x, specs, g)
<1>1. n \in Nat /\ DOMAIN specs = T
  BY DEF Roster
<1>2. \A s \in SUBSET T : s # {} => Max(s) \in s /\ Max(s) \in T
  <2> TAKE s \in SUBSET T
  <2> HAVE s # {}
  <2>1. Max(s) \in s
    BY <1>1, LastPlace
  <2> QED
    BY <2>1
<1>3. ASSUME NEW s \in SUBSET T, s # {}, NEW y, <<s \ {Max(s)}, y>> \in Q
      PROVE  <<s, Registered(y, specs[Max(s)])>> \in Q
  <2>1. Max(s) \in s
    BY <1>2, <1>3
  <2>2. y \in G /\ AfterBoots(x, specs, s \ {Max(s)}, y)
    BY <1>3
  <2> DEFINE i == Max(s)
             z == Registered(y, specs[i])
  <2> HIDE DEF i
  <2>3. AfterBoots(x, specs, s, z) /\ z \in G
    BY <2>1, <2>2, BootTurn DEF i
  <2> HIDE DEF z
  <2>4. <<s, z>> \in Q
    BY <2>3
  <2> QED
    BY <2>4 DEF z, i
<1>4. <<{}, x>> \in Q
  BY DEF Answers
<1>5. \A s, y : <<s, y>> \in Q => y \in G /\ AfterBoots(x, specs, s, y)
  OBVIOUS
<1>6. \A i \in T, y \in G : F[i][y] = Registered(y, specs[i])
  OBVIOUS
<1> HIDE DEF T, F, Q, h, G, n
<1>7. \A y : \A s \in SUBSET T :
        s # {} /\ <<s \ {Max(s)}, y>> \in Q => <<s, F[Max(s)][y]>> \in Q
  BY <1>2, <1>3, <1>5, <1>6
<1>8. PICK g : /\ g = SeqFolds(n, x, F, g)
               /\ \A s \in SUBSET T : <<s, g[s]>> \in Q
  <2>1. \E g : g = SeqFolds(n, x, F, g) /\ \A s \in SUBSET (1..n) : <<s, g[s]>> \in Q
    BY <1>1, <1>4, <1>7, SeqFold DEF T
  <2> QED
    BY <2>1 DEF T
<1>9. g = BootsTo(x, specs, g)
  <2>1. ASSUME NEW s \in SUBSET T, s # {}
        PROVE  F[Max(s)][g[s \ {Max(s)}]] = Registered(g[s \ {Max(s)}], specs[Max(s)])
    <3>1. s \ {Max(s)} \in SUBSET T
      OBVIOUS
    <3> QED
      BY <1>2, <1>5, <1>6, <1>8, <2>1, <3>1
  <2>2. g = [s \in SUBSET T |-> IF s = {} THEN x ELSE F[Max(s)][g[s \ {Max(s)}]]]
    BY <1>8 DEF SeqFolds, T
  <2>3. \A s \in SUBSET T : (IF s = {} THEN x ELSE F[Max(s)][g[s \ {Max(s)}]]) =
          IF s = {} THEN x ELSE Registered(g[s \ {Max(s)}], specs[Max(s)])
    BY <2>1
  <2> QED
    BY <1>1, <2>2, <2>3 DEF BootsTo
<1>10. h = BootsTo(x, specs, h)
  BY <1>9 DEF h
<1>11. \A s \in SUBSET T :
         h[s] = IF s = {} THEN x ELSE Registered(h[s \ {Max(s)}], specs[Max(s)])
  BY <1>1, <1>10 DEF BootsTo
<1>12. <<T, h[T]>> \in Q
  <2>1. h[{}] = x
    BY <1>11
  <2>2. ASSUME NEW s \in SUBSET T, s # {}, <<s \ {Max(s)}, h[s \ {Max(s)}]>> \in Q
        PROVE  <<s, h[s]>> \in Q
    BY <1>3, <1>11, <2>2
  <2> QED
    BY <1>1, <1>4, <2>1, <2>2, SeqFoldHolds DEF T
<1> QED
  BY <1>1, <1>5, <1>12, BootsIs DEF h

-----------------------------------------------------------------------------
(* workers: the second loop finds every task a worker. *)

WorkerSpec == [id : Nat, capacity : Nat, labels : Labels]

Served(specs, labels) == \E k \in DOMAIN specs : LabelsMatch(specs[k].labels, labels)

AfterPlaces(tasks, s, y) ==
  y \in Seq(WorkerSpec) /\ \A i \in s : Served(y, tasks[i].labels)

LEMMA PlacedServes ==
  ASSUME NEW y \in Seq(WorkerSpec), NEW task, task.labels \in Labels,
         NEW z, z = Placed(y, task)
  PROVE  /\ z \in Seq(WorkerSpec) /\ Served(z, task.labels)
         /\ \A labels : Served(y, labels) => Served(z, labels)
<1> DEFINE v == [id |-> Len(y), capacity |-> 1, labels |-> task.labels]
<1>1. CASE Served(y, task.labels)
  BY <1>1 DEF Placed, Served
<1>2. CASE ~ Served(y, task.labels)
  <2>1. z = Append(y, v)
    BY <1>2 DEF Placed, Served
  <2>2. v \in WorkerSpec /\ v.labels = task.labels
    BY DEF WorkerSpec
  <2> HIDE DEF v
  <2>3. z \in Seq(WorkerSpec)
    BY <2>1, <2>2
  <2>4. /\ Len(y) \in Nat /\ DOMAIN y = 1..Len(y) /\ DOMAIN z = 1..(Len(y) + 1)
        /\ z[Len(y) + 1] = v /\ \A k \in 1..Len(y) : z[k] = y[k]
    BY <2>1, <2>2
  <2>5. LabelsMatch(v.labels, task.labels)
    BY <2>2 DEF LabelsMatch
  <2>6. Served(z, task.labels)
    <3>1. Len(y) + 1 \in DOMAIN z
      BY <2>4
    <3> QED
      BY <2>4, <2>5, <3>1 DEF Served
  <2>7. \A k \in DOMAIN y : k \in DOMAIN z /\ z[k] = y[k]
    BY <2>4
  <2> QED
    BY <2>3, <2>6, <2>7 DEF Served
<1> QED
  BY <1>1, <1>2

PlacesTo(x, tasks, g) ==
  [s \in SUBSET DOMAIN tasks |->
     IF s = {} THEN x ELSE Placed(g[s \ {Max(s)}], tasks[Max(s)])]

LEMMA PlacesIs ==
  ASSUME NEW x, NEW tasks
  PROVE  FoldLeft(Placed, x, tasks)
           = (CHOOSE g : g = PlacesTo(x, tasks, g))[DOMAIN tasks]
  BY DEF FoldLeft, MapThenFoldSet, PlacesTo

LEMMA PlacesKeep ==
  ASSUME NEW tasks, DrawnTasks(tasks), NEW x \in Seq(WorkerSpec)
  PROVE  AfterPlaces(tasks, DOMAIN tasks, FoldLeft(Placed, x, tasks))
<1> DEFINE n == Len(tasks)
           T == 1..n
           G == Seq(WorkerSpec)
           F == [i \in T |-> [y \in G |-> Placed(y, tasks[i])]]
           Q == {p \in (SUBSET T) \X G : AfterPlaces(tasks, p[1], p[2])}
           h == CHOOSE g : g = PlacesTo(x, tasks, g)
<1>1. n \in Nat /\ DOMAIN tasks = T /\ \A i \in T : tasks[i].labels \in Labels
  BY DEF DrawnTasks
<1>2. \A s \in SUBSET T : s # {} => Max(s) \in s /\ Max(s) \in T
  <2> TAKE s \in SUBSET T
  <2> HAVE s # {}
  <2>1. Max(s) \in s
    BY <1>1, LastPlace
  <2> QED
    BY <2>1
<1>3. ASSUME NEW s \in SUBSET T, s # {}, NEW y, <<s \ {Max(s)}, y>> \in Q
      PROVE  <<s, Placed(y, tasks[Max(s)])>> \in Q
  <2> DEFINE i == Max(s)
             z == Placed(y, tasks[i])
  <2>1. i \in s /\ i \in T
    BY <1>2, <1>3
  <2>2. y \in G /\ AfterPlaces(tasks, s \ {i}, y)
    BY <1>3
  <2> HIDE DEF i
  <2>3. z \in G /\ Served(z, tasks[i].labels) /\ \A labels : Served(y, labels) => Served(z, labels)
    BY <1>1, <2>1, <2>2, PlacedServes
  <2> HIDE DEF z
  <2>4. AfterPlaces(tasks, s, z)
    BY <2>2, <2>3 DEF AfterPlaces
  <2>5. <<s, z>> \in Q
    BY <2>3, <2>4
  <2> QED
    BY <2>5 DEF z, i
<1>4. <<{}, x>> \in Q
  BY DEF AfterPlaces
<1>5. \A s, y : <<s, y>> \in Q => y \in G /\ AfterPlaces(tasks, s, y)
  OBVIOUS
<1>6. \A i \in T, y \in G : F[i][y] = Placed(y, tasks[i])
  OBVIOUS
<1> HIDE DEF T, F, Q, h, G, n
<1>7. \A y : \A s \in SUBSET T :
        s # {} /\ <<s \ {Max(s)}, y>> \in Q => <<s, F[Max(s)][y]>> \in Q
  BY <1>2, <1>3, <1>5, <1>6
<1>8. PICK g : /\ g = SeqFolds(n, x, F, g)
               /\ \A s \in SUBSET T : <<s, g[s]>> \in Q
  <2>1. \E g : g = SeqFolds(n, x, F, g) /\ \A s \in SUBSET (1..n) : <<s, g[s]>> \in Q
    BY <1>1, <1>4, <1>7, SeqFold DEF T
  <2> QED
    BY <2>1 DEF T
<1>9. g = PlacesTo(x, tasks, g)
  <2>1. ASSUME NEW s \in SUBSET T, s # {}
        PROVE  F[Max(s)][g[s \ {Max(s)}]] = Placed(g[s \ {Max(s)}], tasks[Max(s)])
    <3>1. s \ {Max(s)} \in SUBSET T
      OBVIOUS
    <3> QED
      BY <1>2, <1>5, <1>6, <1>8, <2>1, <3>1
  <2>2. g = [s \in SUBSET T |-> IF s = {} THEN x ELSE F[Max(s)][g[s \ {Max(s)}]]]
    BY <1>8 DEF SeqFolds, T
  <2>3. \A s \in SUBSET T : (IF s = {} THEN x ELSE F[Max(s)][g[s \ {Max(s)}]]) =
          IF s = {} THEN x ELSE Placed(g[s \ {Max(s)}], tasks[Max(s)])
    BY <2>1
  <2> QED
    BY <1>1, <2>2, <2>3 DEF PlacesTo
<1>10. h = PlacesTo(x, tasks, h)
  BY <1>9 DEF h
<1>11. \A s \in SUBSET T :
         h[s] = IF s = {} THEN x ELSE Placed(h[s \ {Max(s)}], tasks[Max(s)])
  BY <1>1, <1>10 DEF PlacesTo
<1>12. <<T, h[T]>> \in Q
  <2>1. h[{}] = x
    BY <1>11
  <2>2. ASSUME NEW s \in SUBSET T, s # {}, <<s \ {Max(s)}, h[s \ {Max(s)}]>> \in Q
        PROVE  <<s, h[s]>> \in Q
    BY <1>3, <1>11, <2>2
  <2> QED
    BY <1>1, <1>4, <2>1, <2>2, SeqFoldHolds DEF T
<1> QED
  BY <1>1, <1>5, <1>12, PlacesIs DEF h

LEMMA WorkersAreDrawn ==
  ASSUME NEW tasks, DrawnTasks(tasks), NEW specs \in GeneratedWorkers(tasks)
  PROVE  Roster(specs) /\ \A i \in DOMAIN tasks : Served(specs, tasks[i].labels)
<1> DEFINE WorkerSpecs(i) == [id : {i - 1}, capacity : 1..MaxCapacity,
                              labels : WorkerLabels(tasks)]
           AllSpecs == UNION {WorkerSpecs(i) : i \in 1..MaxWorkers}
           drawn(n) == {ws \in [1..n -> AllSpecs] : \A i \in 1..n : ws[i] \in WorkerSpecs(i)}
<1>1. PICK ws \in UNION {drawn(n) : n \in 1..MaxWorkers} : specs = FoldLeft(Placed, ws, tasks)
  BY DEF GeneratedWorkers
<1>2. PICK n \in 1..MaxWorkers : ws \in [1..n -> AllSpecs]
  BY <1>1
<1>3. \A L \in WorkerLabels(tasks) : L \in Labels
  <2>1. \A i \in DOMAIN tasks : tasks[i].labels \in SUBSET UNION LabelSets
    BY DEF DrawnTasks, Labels
  <2> QED
    BY <2>1 DEF WorkerLabels, Labels
<1>4. ASSUME NEW v \in AllSpecs PROVE v \in WorkerSpec
  <2>1. PICK i \in 1..MaxWorkers : v \in WorkerSpecs(i)
    OBVIOUS
  <2>2. i - 1 \in Nat
    BY ConfigAssumption
  <2>3. 1..MaxCapacity \subseteq Nat
    BY ConfigAssumption
  <2> QED
    BY <1>3, <2>1, <2>2, <2>3 DEF WorkerSpec
<1> HIDE DEF AllSpecs
<1>5. ws \in Seq(WorkerSpec)
  <2>1. n \in Nat /\ ws \in [1..n -> WorkerSpec]
    BY <1>2, <1>4, ConfigAssumption
  <2> QED
    BY <2>1
<1>6. AfterPlaces(tasks, DOMAIN tasks, specs)
  BY <1>1, <1>5, PlacesKeep
<1>7. Roster(specs)
  <2>1. specs \in Seq(WorkerSpec)
    BY <1>6 DEF AfterPlaces
  <2>2. Len(specs) \in Nat /\ DOMAIN specs = 1..Len(specs)
    BY <2>1, LenProperties
  <2>3. \A i \in 1..Len(specs) : specs[i] \in WorkerSpec
    BY <2>1, ElementOfSeq
  <2> QED
    BY <2>2, <2>3 DEF Roster, WorkerSpec
<1> QED
  BY <1>6, <1>7 DEF AfterPlaces

-----------------------------------------------------------------------------
(* The inductive invariant of the two loops. *)

Staffed(a) ==
  \A t \in DOMAIN a.tasks : \E w \in DOMAIN a.workers :
    LabelsMatch(a.workers[w].labels, a.tasks[t].labels)

IInv ==
  /\ Core(m) /\ Quiet(m) /\ Live(m)
  /\ driver \in {"generator", "script"} /\ status \in {"running", "stopped", "over"}
  /\ status = "running" => Indexed(m) /\ WithinBudget(m)
  /\ driver = "generator" => Staffed(m)
  /\ DOMAIN m.tasks # {}

(* A model that was just booted. *)
LEMMA BootedModel ==
  ASSUME NEW tasks \in GeneratedWorkflows, NEW specs \in GeneratedWorkers(tasks),
         NEW y, y = Bootstrap([tasks |-> tasks, workers |-> specs]), y.error = "none"
  PROVE  /\ Core(y.m) /\ Quiet(y.m) /\ Untouched(y.m) /\ Staffed(y.m)
         /\ y.m.leases = {} /\ y.m.closed = {} /\ DOMAIN y.m.tasks # {}
         /\ \A t \in DOMAIN y.m.tasks : y.m.tasks[t].attempt = 0
<1> DEFINE x == AddWorkflow(Empty, FirstWorkflow, tasks)
<1>1. DrawnTasks(tasks)
  BY WorkflowsAreDrawn
<1>2. Roster(specs) /\ \A i \in DOMAIN tasks : Served(specs, tasks[i].labels)
  BY <1>1, WorkersAreDrawn
<1>3. x.error = "none" =>
        /\ Core(x.m) /\ Quiet(x.m) /\ Untouched(x.m)
        /\ x.m.leases = {} /\ x.m.closed = {} /\ x.m.workers = <<>>
        /\ DOMAIN x.m.tasks # {}
        /\ \A t \in DOMAIN x.m.tasks :
             /\ x.m.tasks[t].attempt = 0
             /\ \E i \in DOMAIN tasks : x.m.tasks[t].labels = tasks[i].labels
  BY <1>1, AddedKeeps
<1>4. y = FoldLeft(Registered, x, specs)
  BY DEF Bootstrap
<1> HIDE DEF x
<1>5. AfterBoots(x, specs, {}, x)
  BY <1>3 DEF AfterBoots
<1>6. AfterBoots(x, specs, DOMAIN specs, y)
  BY <1>2, <1>4, <1>5, BootsKeep
<1>7. /\ x.error = "none"
      /\ Core(y.m) /\ Quiet(y.m) /\ y.m.leases = {} /\ y.m.closed = {}
      /\ y.m.tasks = x.m.tasks
      /\ \A i \in DOMAIN specs : /\ specs[i].id \in DOMAIN y.m.workers
                                 /\ y.m.workers[specs[i].id].labels = specs[i].labels
  BY <1>6 DEF AfterBoots
<1>8. Staffed(y.m)
  <2> SUFFICES ASSUME NEW t \in DOMAIN y.m.tasks
               PROVE  \E w \in DOMAIN y.m.workers :
                        LabelsMatch(y.m.workers[w].labels, y.m.tasks[t].labels)
    BY DEF Staffed
  <2>1. PICK i \in DOMAIN tasks : y.m.tasks[t].labels = tasks[i].labels
    BY <1>3, <1>7
  <2>2. PICK k \in DOMAIN specs : LabelsMatch(specs[k].labels, tasks[i].labels)
    BY <1>2 DEF Served
  <2> QED
    BY <1>7, <2>1, <2>2
<1> QED
  BY <1>3, <1>7, <1>8 DEF Untouched

LEMMA InitBooted ==
  ASSUME Init
  PROVE  /\ Core(m) /\ Quiet(m) /\ Untouched(m) /\ Staffed(m)
         /\ m.leases = {} /\ m.closed = {} /\ DOMAIN m.tasks # {}
         /\ \A t \in DOMAIN m.tasks : m.tasks[t].attempt = 0
         /\ driver \in {"generator", "script"} /\ status = "running"
<1>1. PICK tasks \in GeneratedWorkflows :
        \E workers \in GeneratedWorkers(tasks) :
          /\ LET boot == Bootstrap([tasks |-> tasks, workers |-> workers])
             IN boot.error = "none" /\ m = boot.m
          /\ driver \in {"generator", "script"}
          /\ status = "running"
  BY DEF Init
<1>2. PICK workers \in GeneratedWorkers(tasks) :
        /\ LET boot == Bootstrap([tasks |-> tasks, workers |-> workers])
           IN boot.error = "none" /\ m = boot.m
        /\ driver \in {"generator", "script"}
        /\ status = "running"
  BY <1>1
<1> DEFINE boot == Bootstrap([tasks |-> tasks, workers |-> workers])
<1>3. boot.error = "none" /\ m = boot.m
  BY <1>2
<1>4. /\ Core(boot.m) /\ Quiet(boot.m) /\ Untouched(boot.m) /\ Staffed(boot.m)
      /\ boot.m.leases = {} /\ boot.m.closed = {} /\ DOMAIN boot.m.tasks # {}
      /\ \A t \in DOMAIN boot.m.tasks : boot.m.tasks[t].attempt = 0
  BY <1>3, BootedModel
<1> QED
  BY <1>2, <1>3, <1>4

LEMMA InitInv ==
  ASSUME Init
  PROVE  IInv
<1>1. /\ Core(m) /\ Quiet(m) /\ Staffed(m) /\ m.leases = {} /\ DOMAIN m.tasks # {}
      /\ \A t \in DOMAIN m.tasks : m.tasks[t].attempt = 0
      /\ driver \in {"generator", "script"} /\ status = "running"
  BY InitBooted
<1>2. Live(m) /\ Indexed(m)
  BY <1>1 DEF Live, Indexed
<1>3. WithinBudget(m)
  <2>1. \A t \in DOMAIN m.tasks : m.tasks[t] \in TaskRecord
    BY <1>1, ModelFacts DEF Core
  <2>2. \A t \in DOMAIN m.tasks : m.tasks[t].retry.attempts \in 1..100
    BY <2>1 DEF TaskRecord, RetryRecord
  <2> QED
    BY <1>1, <2>2 DEF WithinBudget
<1> QED
  BY <1>1, <1>2, <1>3 DEF IInv

(* What a step leaves of the tasks. *)
LEMMA MovesTasks ==
  ASSUME NEW a, Core(a), NEW b, Moves(a, b)
  PROVE  /\ DOMAIN b.tasks = DOMAIN a.tasks
         /\ \A t \in DOMAIN a.tasks : SameSpec(a.tasks[t], b.tasks[t])
<1>1. \A k \in Nat : Later(a, k).tasks = a.tasks
  BY LaterFields DEF Core
<1>2. CASE Restaffs(a, b)
  BY <1>2 DEF Restaffs, SameSpec
<1>3. CASE Eases(a, b)
  BY <1>3 DEF Eases, Eased
<1>4. CASE \E k \in Nat : Eases(Later(a, k), b)
  BY <1>1, <1>4 DEF Eases, Eased
<1>5. CASE \E t \in DOMAIN a.tasks : Settles(a, b, t)
  BY <1>5 DEF Settles, Eased
<1>6. CASE \E t \in DOMAIN a.tasks : Leases(a, b, t)
  BY <1>6 DEF Leases, Eased
<1> QED
  BY <1>2, <1>3, <1>4, <1>5, <1>6 DEF Moves

(* What a step of either loop is. *)
LEMMA NextMoves ==
  ASSUME IInv, Next
  PROVE  /\ Moves(m, m') /\ WithinBounds /\ driver' = driver
         /\ status' \in {"running", "stopped", "over"}
         /\ status' = "running" => Violations(m') = {}
         /\ status = "running"
         /\ driver = "generator" => SameLabels(m, m')
<1>1. Core(m) /\ Quiet(m) /\ Live(m) /\ m \in Model
  BY DEF IInv, Core
<1>2. CASE Generate
  <2>1. PICK a \in NextActions(m) : m' = Apply(m, a).m
    BY <1>2 DEF Generate
  <2>2. IsAction(a) /\ a.kind # "register_worker"
    BY <1>1, <2>1, NextActionsAreAsked DEF Asked
  <2>3. Moves(m, m') /\ SameLabels(m, m')
    BY <1>1, <2>1, <2>2, ApplyMoves
  <2> QED
    BY <1>2, <2>3 DEF Generate
<1>3. CASE Follow
  <2>1. PICK a \in NextActions(m) \cup OddActions : m' = Apply(m, a).m
    BY <1>3 DEF Follow
  <2>2. IsAction(a)
    BY <1>1, <2>1, NextActionsAreAsked, OddActionsAreActions
  <2>3. Moves(m, m')
    BY <1>1, <2>1, <2>2, ApplyMoves
  <2> QED
    BY <1>3, <2>3 DEF Follow
<1> QED
  BY <1>2, <1>3 DEF Next

-----------------------------------------------------------------------------
(* check_invariants, check by check: what the invariant says of a model. *)

LEMMA Flagged ==
  /\ \A code : Flag(code, FALSE) = {}
  /\ \A code, bad : Flag(code, bad) \subseteq {code}
  /\ \A code : \A bad \in BOOLEAN : Flag(code, bad) = {} => ~ bad
  BY DEF Flag

LEMMA ViolationsAre ==
  ASSUME NEW a
  PROVE  Violations(a) =
           CheckWorkerCapacity(a) \cup CheckLeaseBijection(a) \cup CheckTaskLeaseFields(a)
           \cup CheckDependencySafety(a) \cup CheckTerminalWorkflows(a)
           \cup CheckAttempts(a) \cup CheckRetryTimes(a) \cup CheckTimestamps(a)
           \cup CheckOutputLimits(a)
<1>1. /\ DOMAIN Checks(a) = 1..9
      /\ Checks(a)[1] = CheckWorkerCapacity(a) /\ Checks(a)[2] = CheckLeaseBijection(a)
      /\ Checks(a)[3] = CheckTaskLeaseFields(a) /\ Checks(a)[4] = CheckDependencySafety(a)
      /\ Checks(a)[5] = CheckTerminalWorkflows(a) /\ Checks(a)[6] = CheckAttempts(a)
      /\ Checks(a)[7] = CheckRetryTimes(a) /\ Checks(a)[8] = CheckTimestamps(a)
      /\ Checks(a)[9] = CheckOutputLimits(a)
  BY DEF Checks
<1>2. 1..9 = {1, 2, 3, 4, 5, 6, 7, 8, 9}
  OBVIOUS
<1> QED
  BY <1>1, <1>2 DEF Violations, ToSet

LEMMA WorkersPass ==
  ASSUME NEW a, Core(a)
  PROVE  CheckWorkerCapacity(a) = {}
<1> SUFFICES ASSUME NEW w \in DOMAIN a.workers
             PROVE  LET v == a.workers[w] IN
                    /\ ~ Cardinality(v.active) > v.capacity
                    /\ v.active \subseteq Tokens(a)
                    /\ ~ \E l \in a.leases : l.token \in v.active /\ l.worker # w
  BY Flagged DEF CheckWorkerCapacity, Flag
<1> DEFINE v == a.workers[w]
<1>1. /\ \A k \in v.active : \E l \in a.leases : l.token = k /\ l.worker = w
      /\ Cardinality(v.active) <= v.capacity
  BY DEF Core, WorkersAgree
<1>2. Cardinality(v.active) \in Nat /\ v.capacity \in Nat
  <2>1. v \in WorkerRecord
    BY ModelFacts DEF Core
  <2> QED
    BY <2>1, ActiveFinite DEF WorkerRecord
<1>3. \A k, l \in a.leases : k.token = l.token => k = l
  BY DEF Core, LeasesAgree
<1> HIDE DEF v
<1>4. ~ Cardinality(v.active) > v.capacity
  BY <1>1, <1>2
<1>5. v.active \subseteq Tokens(a)
  BY <1>1 DEF Tokens
<1>6. ~ \E l \in a.leases : l.token \in v.active /\ l.worker # w
  BY <1>1, <1>3
<1> QED
  BY <1>4, <1>5, <1>6 DEF v

LEMMA LeasesPass ==
  ASSUME NEW a, Core(a)
  PROVE  /\ CheckLeaseBijection(a) \subseteq {"LEASE_WORKER_INDEX"}
         /\ CheckLeaseBijection(a) = {} <=> Indexed(a)
<1>1. \A k, l \in a.leases : k.task = l.task => k = l
  BY LeaseFacts DEF Core, LeasesAgree
<1>2. \A l \in a.leases : ~ l.expires <= l.acquired /\ l.worker \in DOMAIN a.workers
  <2> TAKE l \in a.leases
  <2>1. l \in LeaseRecord /\ l.acquired < l.expires /\ l.worker \in DOMAIN a.workers
    BY LeaseFacts
  <2> QED
    BY <2>1 DEF LeaseRecord
<1> DEFINE missing == \E l \in a.leases : \/ l.worker \notin DOMAIN a.workers
                                          \/ l.token \notin a.workers[l.worker].active
<1>3. CheckLeaseBijection(a) = Flag("LEASE_WORKER_INDEX", missing)
  BY <1>1, <1>2 DEF CheckLeaseBijection, Flag
<1>4. missing <=> ~ Indexed(a)
  BY <1>2 DEF Indexed
<1> QED
  BY <1>3, <1>4 DEF Flag

LEMMA FieldsPass ==
  ASSUME NEW a, Core(a)
  PROVE  CheckTaskLeaseFields(a) = {}
<1> SUFFICES ASSUME NEW t \in DOMAIN a.tasks
             PROVE  LET r == a.tasks[t] IN
                    IF r.state \notin Held
                    THEN Flag("INACTIVE_TASK_HAS_LEASE", Unheld(r) # r) = {}
                    ELSE /\ r.token # NoToken /\ r.token \in Tokens(a)
                         /\ LET l == LeaseOf(a, r.token) IN
                            l.task = t /\ l.worker = r.owner /\ l.expires = r.until
  BY DEF CheckTaskLeaseFields, Flag
<1> DEFINE r == a.tasks[t]
<1>1. r \in TaskRecord /\ TaskAgrees(r, a.now)
  BY ModelFacts DEF Core, TasksAgree
<1>2. ASSUME r.state \notin Held
      PROVE  Unheld(r) = r
  <2>1. r.token = NoToken /\ r.owner = NoOwner /\ r.until = Nil
    BY <1>1, <1>2 DEF TaskAgrees
  <2> HIDE DEF r
  <2> QED
    BY <1>1, <2>1 DEF Unheld, TaskRecord
<1>3. ASSUME r.state \in Held
      PROVE  /\ r.token # NoToken /\ r.token \in Tokens(a)
             /\ LET l == LeaseOf(a, r.token) IN
                l.task = t /\ l.worker = r.owner /\ l.expires = r.until
  <2>1. PICK l \in a.leases : l.task = t /\ l.token = r.token
    BY <1>3, HeldFacts
  <2>2. r.token \in Tokens(a) /\ LeaseOf(a, r.token) = l
    BY <2>1, LeaseOfToken
  <2>3. l.worker = r.owner /\ l.expires = r.until
    BY <2>1, LeaseFacts
  <2>4. r.token # NoToken
    <3>1. l.token \in TokenSet
      BY LeaseFacts DEF LeaseRecord
    <3> QED
      BY <2>1, <3>1, NotAToken
  <2> QED
    BY <2>1, <2>2, <2>3, <2>4
<1> QED
  BY <1>2, <1>3 DEF Flag

LEMMA NeedsPass ==
  ASSUME NEW a, Core(a)
  PROVE  CheckDependencySafety(a) = {}
  BY DEF CheckDependencySafety, AllTasks, Flag, Core, NeedsDone

LEMMA WorkflowsPass ==
  ASSUME NEW a, Core(a), Quiet(a), DOMAIN a.tasks # {}
  PROVE  CheckTerminalWorkflows(a) = {}
<1> DEFINE v == Flow(a)
           S == StatesOf(a, FirstWorkflow)
<1>1. DOMAIN a.workflows = {FirstWorkflow} /\ a.workflows[FirstWorkflow] = v
  BY ModelFacts DEF Core, Flow
<1>2. S = {a.tasks[t].state : t \in DOMAIN a.tasks}
  BY StatesAre DEF Core
<1>3. v.state = "SUCCEEDED" => S = {"SUCCEEDED"}
  BY <1>2 DEF Quiet
<1>4. v.state \in Final => S \subseteq Final /\ a.leases = {}
  <2> HAVE v.state \in Final
  <2>1. \A t \in DOMAIN a.tasks : a.tasks[t].state \in Final
    BY DEF Quiet
  <2>2. \A l \in a.leases : FALSE
    BY <2>1, LeaseFacts, StateSets
  <2> QED
    BY <1>2, <2>1, <2>2
<1>5. v.state \in Final <=> v.finished # Nil
  BY DEF Core, FlowAgrees
<1>6. "CANCELLED" \in Final
  BY DEF Final
<1> HIDE DEF v, S
<1>7. /\ ~ (v.state = "SUCCEEDED" /\ S # {"SUCCEEDED"})
      /\ ~ (v.state = "CANCELLED" /\ ~ S \subseteq Final)
      /\ ~ (v.state = "CANCELLED" /\ \E l \in a.leases : l.wf = FirstWorkflow)
      /\ ~ (v.state \in Final /\ v.finished = Nil)
      /\ ~ (v.state \notin Final /\ v.finished # Nil)
  BY <1>3, <1>4, <1>5, <1>6
<1> QED
  BY <1>1, <1>7 DEF CheckTerminalWorkflows, Flag, S

LEMMA AttemptsPass ==
  ASSUME NEW a, Core(a)
  PROVE  /\ CheckAttempts(a) \subseteq {"ATTEMPT_BUDGET"}
         /\ CheckAttempts(a) = {} <=> WithinBudget(a)
<1>1. ASSUME NEW t \in DOMAIN a.tasks
      PROVE  LET r == a.tasks[t] IN
             /\ ~ (r.state = "PENDING" /\ r.attempt # 0)
             /\ ~ (r.state \in Held /\ r.attempt < 1)
             /\ r.attempt > r.retry.attempts <=> ~ r.attempt <= r.retry.attempts
  <2> DEFINE r == a.tasks[t]
  <2>1. r \in TaskRecord /\ TaskAgrees(r, a.now)
    BY ModelFacts DEF Core, TasksAgree
  <2>2. r.attempt \in Nat /\ r.retry.attempts \in Nat
    BY <2>1 DEF TaskRecord, RetryRecord
  <2> QED
    BY <2>1, <2>2 DEF TaskAgrees
<1>2. \A t \in DOMAIN a.tasks :
        LET r == a.tasks[t] IN
        Flag("ATTEMPT_BUDGET", r.attempt > r.retry.attempts)
        \cup Flag("PENDING_ATTEMPT", r.state = "PENDING" /\ r.attempt # 0)
        \cup Flag("ACTIVE_ATTEMPT", r.state \in Held /\ r.attempt < 1)
        = IF r.attempt <= r.retry.attempts THEN {} ELSE {"ATTEMPT_BUDGET"}
  BY <1>1 DEF Flag
<1>3. CheckAttempts(a) =
        UNION {IF a.tasks[t].attempt <= a.tasks[t].retry.attempts THEN {}
               ELSE {"ATTEMPT_BUDGET"} : t \in DOMAIN a.tasks}
  BY <1>2 DEF CheckAttempts, AllTasks
<1> QED
  BY <1>3 DEF WithinBudget

LEMMA TimesPass ==
  ASSUME NEW a, Core(a)
  PROVE  CheckRetryTimes(a) = {} /\ CheckTimestamps(a) = {} /\ CheckOutputLimits(a) = {}
<1>1. ASSUME NEW t \in DOMAIN a.tasks
      PROVE  LET r == a.tasks[t] IN
             /\ ~ (r.state = "RETRY_WAIT" /\ r.retryAt = Nil)
             /\ ~ (r.state # "RETRY_WAIT" /\ r.retryAt # Nil)
             /\ ~ r.started > a.now /\ ~ r.finished > a.now
             /\ r.finished \notin 0..(r.started - 1)
             /\ ~ r.output > OutputLimit
  <2> DEFINE r == a.tasks[t]
  <2>1. r \in TaskRecord /\ TaskAgrees(r, a.now) /\ a.now \in Nat
    BY ModelFacts DEF Core, TasksAgree
  <2>2. r.started \in Instant /\ r.finished \in Instant /\ r.output \in 0..OutputLimit
    BY <2>1 DEF TaskRecord
  <2> HIDE DEF r
  <2>3. r.finished \notin 0..(r.started - 1)
    BY <2>1, <2>2 DEF TaskAgrees, Instant, Nil
  <2>4. ~ r.started > a.now /\ ~ r.finished > a.now /\ ~ r.output > OutputLimit
    BY <2>1, <2>2, LimitAssumption DEF TaskAgrees, Instant, Nil
  <2>5. /\ ~ (r.state = "RETRY_WAIT" /\ r.retryAt = Nil)
        /\ ~ (r.state # "RETRY_WAIT" /\ r.retryAt # Nil)
    BY <2>1 DEF TaskAgrees
  <2> QED
    BY <2>3, <2>4, <2>5 DEF r
<1>2. /\ DOMAIN a.workflows = {FirstWorkflow} /\ a.workflows[FirstWorkflow] = Flow(a)
      /\ ~ Flow(a).created > a.now /\ Flow(a).finished \notin 0..(Flow(a).created - 1)
  <2> DEFINE v == Flow(a)
  <2>1. v \in WorkflowRecord /\ FlowAgrees(a) /\ a.now \in Nat
        /\ DOMAIN a.workflows = {FirstWorkflow} /\ a.workflows[FirstWorkflow] = v
    BY ModelFacts DEF Core, Flow
  <2>2. v.created \in Nat /\ v.finished \in Instant
    BY <2>1 DEF WorkflowRecord
  <2>3. v.created <= a.now /\ (v.finished # Nil => v.created <= v.finished)
    BY <2>1 DEF FlowAgrees
  <2> HIDE DEF v
  <2>4. ~ v.created > a.now /\ v.finished \notin 0..(v.created - 1)
    BY <2>1, <2>2, <2>3 DEF Instant, Nil
  <2> QED
    BY <2>1, <2>4 DEF v
<1>3. CheckRetryTimes(a) = {}
  BY <1>1 DEF CheckRetryTimes, AllTasks, Flag
<1>4. CheckTimestamps(a) = {}
  BY <1>1, <1>2 DEF CheckTimestamps, AllTasks, Flag
<1>5. CheckOutputLimits(a) = {}
  BY <1>1 DEF CheckOutputLimits, AllTasks, Flag
<1> QED
  BY <1>3, <1>4, <1>5

(* Of a model the invariant holds of, two checks can fail. *)
LEMMA TwoChecks ==
  ASSUME NEW a, Core(a), Quiet(a), DOMAIN a.tasks # {}
  PROVE  Violations(a) =
           (IF WithinBudget(a) THEN {} ELSE {"ATTEMPT_BUDGET"})
           \cup (IF Indexed(a) THEN {} ELSE {"LEASE_WORKER_INDEX"})
<1>1. Violations(a) = CheckLeaseBijection(a) \cup CheckAttempts(a)
  BY ViolationsAre, WorkersPass, FieldsPass, NeedsPass, WorkflowsPass, TimesPass
<1>2. CheckLeaseBijection(a) = IF Indexed(a) THEN {} ELSE {"LEASE_WORKER_INDEX"}
  BY LeasesPass
<1>3. CheckAttempts(a) = IF WithinBudget(a) THEN {} ELSE {"ATTEMPT_BUDGET"}
  BY AttemptsPass
<1> QED
  BY <1>1, <1>2, <1>3

-----------------------------------------------------------------------------
(* The invariant is inductive. *)

LEMMA NextInv ==
  ASSUME IInv, Next
  PROVE  IInv'
<1>1. Core(m) /\ DOMAIN m.tasks # {}
  BY DEF IInv
<1>2. /\ Moves(m, m') /\ driver' = driver
      /\ status' \in {"running", "stopped", "over"}
      /\ status' = "running" => Violations(m') = {}
      /\ driver = "generator" => SameLabels(m, m')
  BY NextMoves
<1>3. Core(m') /\ Quiet(m') /\ Live(m')
  BY <1>2 DEF Moves
<1>4. /\ DOMAIN m'.tasks = DOMAIN m.tasks
      /\ \A t \in DOMAIN m.tasks : SameSpec(m.tasks[t], m'.tasks[t])
  BY <1>1, <1>2, MovesTasks
<1>5. ASSUME status' = "running"
      PROVE  Indexed(m') /\ WithinBudget(m')
  <2>1. Violations(m') = {}
    BY <1>2, <1>5
  <2> QED
    BY <1>1, <1>3, <1>4, <2>1, TwoChecks
<1>6. ASSUME driver' = "generator"
      PROVE  Staffed(m')
  <2>1. Staffed(m) /\ SameLabels(m, m')
    BY <1>2, <1>6 DEF IInv
  <2> QED
    BY <1>4, <2>1 DEF Staffed, SameLabels, SameSpec
<1> QED
  BY <1>1, <1>2, <1>3, <1>4, <1>5, <1>6 DEF IInv

(* Both loops keep the invariant, and the model within it: leases and tasks
   that agree, tokens no one has twice, an order that is one. *)
THEOREM Invariant == Spec => []IInv
<1>1. Init => IInv
  BY InitInv
<1>2. IInv /\ [Next]_vars => IInv'
  <2> SUFFICES ASSUME IInv, [Next]_vars PROVE IInv'
    OBVIOUS
  <2>1. CASE Next
    BY <2>1, NextInv
  <2>2. CASE UNCHANGED vars
    BY <2>2 DEF vars, IInv
  <2> QED
    BY <2>1, <2>2
<1> QED
  BY <1>1, <1>2, PTL DEF Spec

(* Every field of the reference model stays in its range, and no method of
   model.py is cut short by transition_task raising in the middle of it. *)
THEOREM Typed == Spec => []TypeOK
<1>1. IInv => TypeOK
  <2> SUFFICES ASSUME IInv PROVE TypeOK
    OBVIOUS
  <2>1. Core(m) /\ m \in Model
    BY DEF IInv, Core
  <2>2. m.now \in Nat /\ m.counter \in Nat
    BY <2>1, ModelFacts
  <2>3. \A f \in DOMAIN m.workflows : m.workflows[f].state \in Final \cup Open
    <3>1. DOMAIN m.workflows = {FirstWorkflow} /\ m.workflows[FirstWorkflow] \in WorkflowRecord
      BY <2>1, ModelFacts
    <3> QED
      BY <3>1 DEF WorkflowRecord
  <2>4. ASSUME NEW r \in AllTasks(m)
        PROVE  /\ r.state \in DOMAIN AllowedTransitions
               /\ r.output \in 0..OutputLimit
               /\ {r.until, r.retryAt, r.started, r.finished} \subseteq Nat \cup {Nil}
    <3>1. r \in TaskRecord
      BY <2>1, ModelFacts DEF AllTasks
    <3>2. DOMAIN AllowedTransitions = States
      BY DEF AllowedTransitions, States
    <3> QED
      BY <3>1, <3>2 DEF TaskRecord, Instant
  <2>5. \A l \in m.leases : l.expires \in Nat /\ l.worker \in DOMAIN m.workers
    BY <2>1, LeaseFacts DEF LeaseRecord
  <2> QED
    BY <2>2, <2>3, <2>4, <2>5 DEF TypeOK, IInv
<1> QED
  BY <1>1, Invariant, PTL

(* A workflow that is over, failed ones included, which
   check_terminal_workflows does not look at, has no lease and no task that is
   not over. *)
THEOREM NothingRunsOn == Spec => []OverIsQuiet
<1>1. IInv => OverIsQuiet
  <2> SUFFICES ASSUME IInv, NEW f \in DOMAIN m.workflows, m.workflows[f].state \in Final
               PROVE  StatesOf(m, f) \subseteq Final /\ \A l \in m.leases : l.wf # f
    BY DEF OverIsQuiet
  <2>1. Core(m) /\ m \in Model /\ Quiet(m)
    BY DEF IInv, Core
  <2>2. f = FirstWorkflow /\ Flow(m).state \in Final
    BY <2>1, ModelFacts DEF Flow
  <2>3. \A t \in DOMAIN m.tasks : m.tasks[t].state \in Final
    BY <2>1, <2>2 DEF Quiet
  <2>4. StatesOf(m, f) \subseteq Final
    BY <2>1, <2>2, <2>3, StatesAre
  <2>5. \A l \in m.leases : FALSE
    BY <2>1, <2>3, LeaseFacts, StateSets
  <2> QED
    BY <2>4, <2>5
<1> QED
  BY <1>1, Invariant, PTL

(* What next_action chooses, the model refuses only because the worker was
   silent for too long or the log is full, or because the token is closed and
   was meant to be. *)
THEOREM GeneratorIsServed == Spec => []GeneratorAsksInOrder
<1>1. IInv => GeneratorAsksInOrder
  <2> SUFFICES ASSUME IInv, NEW a \in NextActions(m)
               PROVE  Apply(m, a).error \in
                        {"none", "worker_expired", "task_output_limit"}
                        \cup (IF a.token \in m.closed
                              THEN {"stale_lease", "duplicate_completion"} ELSE {})
    BY DEF GeneratorAsksInOrder
  <2>1. Core(m) /\ Quiet(m) /\ Live(m)
    BY DEF IInv
  <2>2. IsAction(a) /\ Asked(m, a)
    BY <2>1, NextActionsAreAsked
  <2> QED
    BY <2>1, <2>2, AskedIsServed
<1> QED
  BY <1>1, Invariant, PTL

(* In a generated scenario every task has a worker with its labels, whatever
   was drawn and whoever drops out: workers adds the one that is missing. *)
THEOREM TasksHavePlaces == Spec => []EveryTaskHasAPlace
<1>1. IInv => EveryTaskHasAPlace
  BY DEF IInv, Staffed, EveryTaskHasAPlace, AllTasks
<1> QED
  BY <1>1, Invariant, PTL

(* Of the checks of check_invariants only two can fail, each only after the one
   step that makes it: a task leased once more after its lease expired, a
   dropped worker that registers again while it holds leases. *)
THEOREM TwoChecksFail == Spec => OnlyTwoChecksCanFail
<1> DEFINE Again == \E t \in DOMAIN m.tasks : m'.tasks[t].attempt > m.tasks[t].attempt
           Allowed == (IF Again THEN {"ATTEMPT_BUDGET"} ELSE {})
                      \cup (IF ForgetsLeases THEN {"LEASE_WORKER_INDEX"} ELSE {})
<1>1. ASSUME IInv, Next
      PROVE  Violations(m') \subseteq Allowed
  <2>1. /\ Core(m) /\ m \in Model /\ DOMAIN m.tasks # {} /\ Moves(m, m')
        /\ Indexed(m) /\ WithinBudget(m)
    BY <1>1, NextMoves DEF IInv, Core
  <2>2. /\ DOMAIN m'.tasks = DOMAIN m.tasks
        /\ \A t \in DOMAIN m.tasks : SameSpec(m.tasks[t], m'.tasks[t])
    BY <2>1, MovesTasks
  <2>3. Core(m') /\ Quiet(m')
    BY <2>1 DEF Moves
  <2>4. ASSUME ~ Again PROVE WithinBudget(m')
    <3> SUFFICES ASSUME NEW t \in DOMAIN m.tasks
                 PROVE  m'.tasks[t].attempt <= m'.tasks[t].retry.attempts
      BY <2>2 DEF WithinBudget
    <3>1. m.tasks[t] \in TaskRecord /\ m'.tasks[t] \in TaskRecord
      BY <2>1, <2>2, <2>3, ModelFacts DEF Core
    <3>2. /\ m.tasks[t].attempt \in Nat /\ m'.tasks[t].attempt \in Nat
          /\ m.tasks[t].retry.attempts \in Nat
      BY <3>1 DEF TaskRecord, RetryRecord
    <3>3. m'.tasks[t].retry = m.tasks[t].retry
      BY <2>2 DEF SameSpec
    <3>4. m.tasks[t].attempt <= m.tasks[t].retry.attempts
      BY <2>1 DEF WithinBudget
    <3>5. ~ m'.tasks[t].attempt > m.tasks[t].attempt
      BY <2>4
    <3> QED
      BY <3>2, <3>3, <3>4, <3>5
  <2>5. ASSUME ~ ForgetsLeases PROVE Indexed(m')
    <3>1. \A k \in Nat : Indexed(Later(m, k))
      BY <2>1, LaterFields DEF Indexed
    <3>2. CASE Restaffs(m, m')
      BY <2>1, <2>5, <3>2 DEF Restaffs, Forgets, ForgetsLeases
    <3>3. CASE ~ Restaffs(m, m')
      BY <2>1, <3>1, <3>3 DEF Moves, Eases, Settles, Leases
    <3> QED
      BY <3>2, <3>3
  <2> QED
    BY <2>1, <2>2, <2>3, <2>4, <2>5, TwoChecks
<1>2. IInv /\ [Next]_vars => [Violations(m') \subseteq Allowed]_vars
  BY <1>1
<1> QED
  BY <1>2, Invariant, PTL DEF Spec, OnlyTwoChecksCanFail

(* A token that was closed is refused for ever: no step grants it again or
   forgets it, and no token is lost without being closed. *)
THEOREM ClosedForGood == Spec => ClosedStaysClosed
<1> DEFINE Stays == /\ m.closed \subseteq m'.closed /\ Tokens(m') \cap m.closed = {}
                    /\ Tokens(m) \subseteq Tokens(m') \cup m'.closed
<1>1. ASSUME IInv, Next
      PROVE  Stays
  <2>1. Core(m) /\ m \in Model /\ Moves(m, m')
    BY <1>1, NextMoves DEF IInv, Core
  <2>2. Tokens(m') \cap m'.closed = {}
    BY <2>1 DEF Moves, Core, TokensAgree
  <2>3. m.closed \subseteq m'.closed /\ Tokens(m) \subseteq Tokens(m') \cup m'.closed
    <3>1. \A k \in Nat : Later(m, k).closed = m.closed /\ Tokens(Later(m, k)) = Tokens(m)
      BY <2>1, LaterFields DEF Tokens
    <3>2. CASE Restaffs(m, m')
      BY <3>2 DEF Restaffs, Tokens
    <3>3. CASE ~ Restaffs(m, m')
      BY <2>1, <3>1, <3>3 DEF Moves, Eases, Settles, Leases
    <3> QED
      BY <3>2, <3>3
  <2> QED
    BY <2>2, <2>3
<1>2. IInv /\ [Next]_vars => [Stays]_vars
  BY <1>1
<1> QED
  BY <1>2, Invariant, PTL DEF Spec, ClosedStaysClosed

-----------------------------------------------------------------------------
(* The promise of leases. *)

PhaseIn(a, t) ==
  IF t \notin DOMAIN a.tasks THEN "idle"
  ELSE CASE a.tasks[t].state \in Held                    -> "held"
         [] a.tasks[t].state \in {"SUCCEEDED", "FAILED"} -> "decided"
         [] a.tasks[t].state = "CANCELLED"               -> "dropped"
         [] OTHER                                        -> "idle"

HolderIn(a, t) == IF t \in DOMAIN a.tasks THEN a.tasks[t].token ELSE NoToken

LEMMA PhasesAre ==
  ASSUME NEW a, NEW t \in DOMAIN a.tasks, a.tasks[t].state \in States
  PROVE  /\ a.tasks[t].state \in Held <=> PhaseIn(a, t) = "held"
         /\ a.tasks[t].state \in Idle <=> PhaseIn(a, t) = "idle"
         /\ a.tasks[t].state \in {"SUCCEEDED", "FAILED"} <=> PhaseIn(a, t) = "decided"
         /\ a.tasks[t].state = "CANCELLED" <=> PhaseIn(a, t) = "dropped"
  BY DEF PhaseIn, Held, Idle, States

LEMMA HoldersAre ==
  ASSUME NEW a, Core(a), NEW t
  PROVE  /\ PhaseIn(a, t) = "held" => HolderIn(a, t) \in Tokens(a)
         /\ PhaseIn(a, t) # "held" => HolderIn(a, t) = NoToken
         /\ t \in DOMAIN a.tasks => a.tasks[t].state \in States
<1>1. CASE t \notin DOMAIN a.tasks
  BY <1>1 DEF PhaseIn, HolderIn
<1>2. CASE t \in DOMAIN a.tasks
  <2>1. a.tasks[t] \in TaskRecord /\ TaskAgrees(a.tasks[t], a.now)
    BY <1>2, ModelFacts DEF Core, TasksAgree
  <2>2. a.tasks[t].state \in States /\ HolderIn(a, t) = a.tasks[t].token
    BY <1>2, <2>1 DEF TaskRecord, HolderIn
  <2>3. a.tasks[t].state \in Held <=> PhaseIn(a, t) = "held"
    BY <1>2, <2>2, PhasesAre
  <2>4. CASE a.tasks[t].state \in Held
    <3>1. PICK l \in a.leases : l.task = t /\ l.token = a.tasks[t].token
      BY <1>2, <2>4, HeldFacts
    <3> QED
      BY <2>2, <2>3, <2>4, <3>1 DEF Tokens
  <2>5. CASE a.tasks[t].state \notin Held
    BY <2>1, <2>2, <2>3, <2>5 DEF TaskAgrees
  <2> QED
    BY <2>4, <2>5
<1> QED
  BY <1>1, <1>2

(* The variables of LeaseService, before and after a step. *)
LEMMA Mapped ==
  ASSUME NEW t \in TaskId
  PROVE  /\ [u \in TaskId |-> PhaseOf(u)][t] = PhaseIn(m, t)
         /\ ([u \in TaskId |-> PhaseOf(u)])'[t] = PhaseIn(m', t)
         /\ [u \in TaskId |-> IF u \in DOMAIN m.tasks THEN m.tasks[u].token ELSE NoToken][t]
              = HolderIn(m, t)
         /\ ([u \in TaskId |-> IF u \in DOMAIN m.tasks THEN m.tasks[u].token ELSE NoToken])'[t]
              = HolderIn(m', t)
  BY DEF PhaseOf, PhaseIn, HolderIn

(* A task that is not leased and gets no result. *)
LEMMA EasedTask ==
  ASSUME Core(m), Core(m'), NEW t \in TaskId, DOMAIN m'.tasks = DOMAIN m.tasks,
         t \in DOMAIN m.tasks => Eased(m.tasks[t], m'.tasks[t])
  PROVE  /\ Promise!Keeps(t) \/ Promise!Releases(t) \/ Promise!Drops(t)
         /\ ~ Promise!Grants(t) /\ ~ Promise!Decides(t)
<1> DEFINE p == PhaseIn(m, t)
           q == PhaseIn(m', t)
           h == HolderIn(m, t)
           k == HolderIn(m', t)
<1>1. /\ p = "held" => h \in Tokens(m)
      /\ p # "held" => h = NoToken
      /\ q # "held" => k = NoToken
  BY HoldersAre
<1>2. \/ p = q /\ h = k
      \/ p \in {"idle", "held"} /\ q \in {"idle", "dropped"}
  <2>1. CASE t \notin DOMAIN m.tasks
    BY <2>1 DEF PhaseIn, HolderIn
  <2>2. CASE t \in DOMAIN m.tasks
    <3> DEFINE r == m.tasks[t]
               s == m'.tasks[t]
    <3>1. r.state \in States /\ s.state \in States /\ h = r.token /\ k = s.token
      BY <2>2, HoldersAre DEF HolderIn
    <3>2. /\ r.state \in Held <=> p = "held"
          /\ r.state \in Idle <=> p = "idle"
          /\ s.state \in Held <=> q = "held"
          /\ s.state \in Idle <=> q = "idle"
          /\ s.state = "CANCELLED" <=> q = "dropped"
      BY <2>2, <3>1, PhasesAre
    <3>3. r.state = s.state => p = q
      BY <2>2 DEF PhaseIn
    <3>4. Loosens(r, s)
      BY <2>2 DEF Eased
    <3> HIDE DEF p, q, h, k, r, s
    <3> QED
      BY <3>1, <3>2, <3>3, <3>4 DEF Loosens
  <2> QED
    BY <2>1, <2>2
<1> HIDE DEF p, q, h, k
<1> QED
  BY <1>1, <1>2, Mapped DEF p, q, h, k, Promise!Keeps, Promise!Releases, Promise!Drops,
     Promise!Grants, Promise!Decides

LEMMA EasedStep ==
  ASSUME Core(m), Core(m'), DOMAIN m'.tasks = DOMAIN m.tasks,
         \A t \in DOMAIN m.tasks : Eased(m.tasks[t], m'.tasks[t]),
         Tokens(m') \cup m'.closed = Tokens(m) \cup m.closed
  PROVE  Promise!Step
<1>1. ASSUME NEW t \in TaskId
      PROVE  /\ Promise!Keeps(t) \/ Promise!Releases(t) \/ Promise!Drops(t)
             /\ ~ Promise!Grants(t) /\ ~ Promise!Decides(t)
  BY EasedTask
<1>2. Promise!Granted = {}
  BY <1>1 DEF Promise!Granted
<1>3. (Tokens(m) \cup m.closed)' = Tokens(m) \cup m.closed
  BY DEF Tokens
<1> QED
  BY <1>1, <1>2, <1>3 DEF Promise!Step

LEMMA SettlesStep ==
  ASSUME Core(m), Core(m'), NEW d \in DOMAIN m.tasks, Settles(m, m', d)
  PROVE  Promise!Step
<1>1. d \in TaskId
  BY ModelFacts DEF Core
<1>2. ASSUME NEW t \in TaskId, t # d
      PROVE  /\ Promise!Keeps(t) \/ Promise!Releases(t) \/ Promise!Drops(t)
             /\ ~ Promise!Grants(t) /\ ~ Promise!Decides(t)
  BY <1>2, EasedTask DEF Settles
<1>3. Promise!Decides(d) /\ ~ Promise!Grants(d)
  <2>1. /\ m.tasks[d].state \in Held /\ m'.tasks[d].state \in FinishedWith
        /\ m'.tasks[d].token = NoToken /\ d \in DOMAIN m'.tasks
    BY DEF Settles
  <2>2. m.tasks[d].state \in States /\ m'.tasks[d].state \in States
    BY <2>1, HoldersAre
  <2>3. PhaseIn(m, d) = "held"
    BY <2>1, <2>2, PhasesAre
  <2>4. PhaseIn(m', d) = "decided"
    BY <2>1, <2>2, PhasesAre DEF FinishedWith
  <2>5. HolderIn(m', d) = NoToken
    BY <2>1 DEF HolderIn
  <2> QED
    BY <1>1, <2>3, <2>4, <2>5, Mapped DEF Promise!Decides, Promise!Grants
<1>4. Promise!Granted = {}
  BY <1>2, <1>3 DEF Promise!Granted
<1>5. (Tokens(m) \cup m.closed)' = Tokens(m) \cup m.closed
  BY DEF Tokens, Settles
<1>6. \A t, u \in TaskId : Promise!Decides(t) /\ Promise!Decides(u) => t = u
  BY <1>2
<1>7. \A t \in TaskId : \/ Promise!Keeps(t) \/ Promise!Releases(t) \/ Promise!Decides(t)
                        \/ Promise!Drops(t) \/ Promise!Grants(t)
  BY <1>2, <1>3
<1> QED
  BY <1>4, <1>5, <1>6, <1>7 DEF Promise!Step

LEMMA LeasesStep ==
  ASSUME Core(m), Core(m'), NEW g \in DOMAIN m.tasks, Leases(m, m', g), WithinBounds
  PROVE  Promise!Step
<1> DEFINE new == FreshToken(m)
<1>1. g \in TaskId /\ m.now \in Nat /\ m.counter \in Nat
  BY ModelFacts DEF Core
<1>2. ASSUME NEW t \in TaskId, t # g
      PROVE  /\ Promise!Keeps(t) \/ Promise!Releases(t) \/ Promise!Drops(t)
             /\ ~ Promise!Grants(t) /\ ~ Promise!Decides(t)
  BY <1>2, EasedTask DEF Leases
<1>3. new \in (1..MaxLeases) \X (0..MaxTime) /\ new \notin Tokens(m) \cup m.closed
  <2>1. m.counter + 1 <= MaxLeases /\ m.now <= MaxTime
    BY DEF WithinBounds, Leases
  <2>2. m.counter + 1 \in 1..MaxLeases /\ m.now \in 0..MaxTime
    BY <1>1, <2>1, BoundsAssumption
  <2> QED
    BY <2>2, FreshIsFresh DEF FreshToken
<1>4. HolderIn(m', g) = new
  BY DEF HolderIn, Leases
<1>5. Promise!Grants(g) /\ ~ Promise!Decides(g)
  <2>1. /\ m.tasks[g].state \in Idle \cup Held /\ m'.tasks[g].state = "LEASED"
        /\ g \in DOMAIN m'.tasks
    BY DEF Leases
  <2>2. m.tasks[g].state \in States /\ m'.tasks[g].state \in States
    BY <2>1, HoldersAre
  <2>3. PhaseIn(m, g) \in {"idle", "held"}
    BY <2>1, <2>2, PhasesAre
  <2>4. PhaseIn(m', g) = "held"
    BY <2>1, <2>2, PhasesAre DEF Held
  <2> HIDE DEF new
  <2> QED
    BY <1>1, <1>3, <1>4, <2>3, <2>4, Mapped DEF Promise!Decides, Promise!Grants
<1>6. Promise!Granted = {g}
  BY <1>1, <1>2, <1>5 DEF Promise!Granted
<1> DEFINE holder == [u \in TaskId |-> IF u \in DOMAIN m.tasks THEN m.tasks[u].token
                                       ELSE NoToken]
<1>7. (Tokens(m) \cup m.closed)' = (Tokens(m) \cup m.closed)
                                   \cup {holder'[t] : t \in Promise!Granted}
  <2>1. Tokens(m') \cup m'.closed = Tokens(m) \cup m.closed \cup {new}
    BY DEF Leases
  <2>2. holder'[g] = new
    BY <1>1, <1>4, Mapped
  <2> HIDE DEF holder, new
  <2>3. {holder'[t] : t \in Promise!Granted} = {new}
    BY <1>6, <2>2
  <2> QED
    BY <2>1, <2>3 DEF Tokens
<1>8. \A t \in TaskId : ~ Promise!Decides(t)
  BY <1>2, <1>5
<1>9. \A t \in TaskId : \/ Promise!Keeps(t) \/ Promise!Releases(t) \/ Promise!Decides(t)
                        \/ Promise!Drops(t) \/ Promise!Grants(t)
  BY <1>2, <1>5
<1> QED
  BY <1>6, <1>7, <1>8, <1>9 DEF Promise!Step

(* The chaos lab's model implements LeaseService: only the holder of a task
   gives it a result, and a task goes to a new holder only under a token that
   nobody ever had. *)
THEOREM ModelKeepsThePromise == Spec => KeepsThePromise
<1>1. Init => Promise!Init
  <2> SUFFICES ASSUME Init PROVE Promise!Init
    OBVIOUS
  <2>1. Core(m) /\ Untouched(m) /\ m.leases = {} /\ m.closed = {}
    BY InitBooted
  <2>2. ASSUME NEW t \in TaskId
        PROVE  PhaseIn(m, t) = "idle" /\ HolderIn(m, t) = NoToken
    <3>1. PhaseIn(m, t) = "idle"
      BY <2>1, HoldersAre, PhasesAre DEF PhaseIn, Untouched, Idle
    <3> QED
      BY <2>1, <3>1, HoldersAre
  <2>3. Tokens(m) \cup m.closed = {}
    BY <2>1 DEF Tokens
  <2>4. [t \in TaskId |-> PhaseOf(t)] = [t \in TaskId |-> "idle"]
    BY <2>2 DEF PhaseOf, PhaseIn
  <2>5. [t \in TaskId |-> IF t \in DOMAIN m.tasks THEN m.tasks[t].token ELSE NoToken]
          = [t \in TaskId |-> NoToken]
    BY <2>2 DEF HolderIn
  <2> QED
    BY <2>3, <2>4, <2>5 DEF Promise!Init
<1>2. ASSUME IInv, IInv', [Next]_vars
      PROVE  [Promise!Step]_(Promise!vars)
  <2>1. CASE Next
    <3>1. /\ Core(m) /\ Core(m') /\ m \in Model /\ Moves(m, m') /\ WithinBounds
          /\ DOMAIN m'.tasks = DOMAIN m.tasks
      BY <1>2, <2>1, NextMoves, MovesTasks DEF IInv, Core
    <3>2. CASE Restaffs(m, m')
      <4>1. Tokens(m') \cup m'.closed = Tokens(m) \cup m.closed
        BY <3>2 DEF Restaffs, Tokens
      <4>2. \A t \in DOMAIN m.tasks : Eased(m.tasks[t], m'.tasks[t])
        BY <3>2, EasedSteps DEF Restaffs
      <4> QED
        BY <3>1, <4>1, <4>2, EasedStep
    <3>3. CASE Eases(m, m')
      BY <3>1, <3>3, EasedStep DEF Eases
    <3>4. CASE \E k \in Nat : Eases(Later(m, k), m')
      <4>1. PICK k \in Nat : Eases(Later(m, k), m')
        BY <3>4
      <4>2. /\ Later(m, k).tasks = m.tasks /\ Later(m, k).closed = m.closed
            /\ Tokens(Later(m, k)) = Tokens(m)
        BY <3>1, LaterFields DEF Tokens
      <4> QED
        BY <3>1, <4>1, <4>2, EasedStep DEF Eases
    <3>5. CASE \E t \in DOMAIN m.tasks : Settles(m, m', t)
      BY <3>1, <3>5, SettlesStep
    <3>6. CASE \E t \in DOMAIN m.tasks : Leases(m, m', t)
      BY <3>1, <3>6, LeasesStep
    <3> QED
      BY <3>1, <3>2, <3>3, <3>4, <3>5, <3>6 DEF Moves
  <2>2. CASE UNCHANGED vars
    <3>1. m' = m
      BY <2>2 DEF vars
    <3> QED
      BY <3>1 DEF Promise!vars, PhaseOf, Tokens
  <2> QED
    BY <1>2, <2>1, <2>2
<1> QED
  BY <1>1, <1>2, Invariant, PTL DEF Spec, KeepsThePromise, Promise!Spec
=============================================================================
