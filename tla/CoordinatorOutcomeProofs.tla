---------------------- MODULE CoordinatorOutcomeProofs ----------------------
(***************************************************************************)
(* Proofs about what the methods of Coordinator add up to, from its        *)
(* inductive invariant: the two counters the code keeps by hand, how       *)
(* workflows end, that Recompute's loop computes what the model says of    *)
(* it, and that the store implements LeaseService.                         *)
(***************************************************************************)
EXTENDS RecomputePass, CoordinatorProofs, WellFoundedInduction

(* The counters: ActiveLeases, a worker's number of leases, and Attempt, a
   task's number of leases granted. *)

HeldBy(L, w) == {l \in L : l.worker = w}

Counted(st) ==
  \A w \in Worker : /\ st.active[w] = Cardinality(HeldBy(st.leases, w))
                    /\ st.active[w] <= Capacity(w)

(* A change of the store that grants no lease: the counters stay right, the
   leases are old ones, and no task is charged an attempt. *)
Tame(st, new) ==
  /\ Counted(st) => Counted(new)
  /\ \A l \in new.leases : \E m \in st.leases :
       m.token = l.token /\ m.worker = l.worker
  /\ \A t \in Task : new.rt[t].attempt = st.rt[t].attempt
  /\ \A f \in Workflow : new.wf[f] = "ABSENT" => st.wf[f] = "ABSENT"

(* Tame changes compose. *)
LEMMA TameCompose ==
  ASSUME NEW a, NEW b, NEW c, Tame(a, b), Tame(b, c)
  PROVE  Tame(a, c)
<1>1. Counted(a) => Counted(c)
  BY DEF Tame
<1>2. ASSUME NEW l \in c.leases
      PROVE  \E m \in a.leases : m.token = l.token /\ m.worker = l.worker
  <2>1. PICK k \in b.leases : k.token = l.token /\ k.worker = l.worker
    BY DEF Tame
  <2>2. PICK m \in a.leases : m.token = k.token /\ m.worker = k.worker
    BY DEF Tame
  <2> QED
    BY <2>1, <2>2
<1>3. \A t \in Task : c.rt[t].attempt = a.rt[t].attempt
  BY DEF Tame
<1>4. \A f \in Workflow : c.wf[f] = "ABSENT" => a.wf[f] = "ABSENT"
  BY DEF Tame
<1> QED
  BY <1>1, <1>2, <1>3, <1>4 DEF Tame

(* Taking away leases and lowering the counts by them keeps the counts: the
   guard against negative counts never bites. *)
LEMMA ReleasedCounted ==
  ASSUME NEW st, Typed(st), Counted(st), NEW L \in SUBSET st.leases,
         NEW new, new.leases = st.leases \ L, new.active = Released(st, L)
  PROVE  Counted(new)
<1> SUFFICES ASSUME NEW w \in Worker
             PROVE  /\ new.active[w] = Cardinality(HeldBy(new.leases, w))
                    /\ new.active[w] <= Capacity(w)
  BY DEF Counted
<1> DEFINE A == HeldBy(st.leases, w)
           B == HeldBy(L, w)
<1>1. IsFiniteSet(A) /\ B \in SUBSET A
  BY FS_Subset DEF Typed, HeldBy
<1>2. HeldBy(new.leases, w) = A \ B /\ A \cap B = B
  BY DEF HeldBy
<1>3. st.active[w] = Cardinality(A) /\ st.active[w] <= Capacity(w)
  BY DEF Counted
<1>4. new.active[w] = IF Cardinality(B) < st.active[w]
                      THEN st.active[w] - Cardinality(B) ELSE 0
  BY DEF Released, HeldBy
<1> HIDE DEF A, B
<1>5. /\ Cardinality(A) \in Nat
      /\ Cardinality(B) \in Nat
      /\ Cardinality(B) <= Cardinality(A)
  BY <1>1, FS_CardinalityType, FS_Subset
<1>6. Cardinality(A \ B) = Cardinality(A) - Cardinality(B)
  BY <1>1, <1>2, FS_Difference
<1>7. Capacity(w) \in Int
  BY PolicyAssumption DEF Capacity
<1>8. new.active[w] = Cardinality(A) - Cardinality(B)
  BY <1>3, <1>4, <1>5
<1>9. new.active[w] = Cardinality(HeldBy(new.leases, w))
  BY <1>2, <1>6, <1>8
<1>10. new.active[w] <= Cardinality(A)
  BY <1>5, <1>8
<1>11. new.active[w] \in Int
  BY <1>5, <1>8
<1> QED
  BY <1>3, <1>5, <1>7, <1>9, <1>10, <1>11

-----------------------------------------------------------------------------
(* Every helper but Grant is tame. *)

(* A pass touches neither leases nor counters. *)
LEMMA RecomputeTame ==
  ASSUME NEW st, Typed(st), NEW F
  PROVE  Tame(st, Recompute(st, F))
<1> DEFINE new == Recompute(st, F)
<1>1. /\ new.leases = st.leases
      /\ new.active = st.active
      /\ \A f \in Workflow :
           IF f \in F /\ st.wf[f] \in Open
           THEN new.wf[f] \in {"RUNNING", "SUCCEEDED", "FAILED"}
           ELSE new.wf[f] = st.wf[f]
  BY RecomputeFields DEF Typed
<1>2. \A t \in Task : new.rt[t].attempt = st.rt[t].attempt
  BY RecomputeSteady
<1> HIDE DEF new
<1>3. Counted(st) => Counted(new)
  BY <1>1 DEF Counted
<1> QED
  BY <1>1, <1>2, <1>3 DEF Tame, new

(* Expiry lowers the counts by the leases it takes away. *)
LEMMA ExpireTame ==
  ASSUME NEW st, Typed(st), NEW L \in SUBSET st.leases
  PROVE  Tame(st, Expire(st, L))
<1> DEFINE new == Expire(st, L)
<1>1. /\ new.wf = st.wf
      /\ new.leases = st.leases \ L
      /\ new.active = Released(st, L)
      /\ \A t \in Task : \/ new.rt[t] = ExpireTask(st.rt[t])
                         \/ new.rt[t] = st.rt[t]
  BY ExpireFields
<1>2. \A r \in Runtime : ExpireTask(r).attempt = r.attempt
  BY DEF ExpireTask, ClearLease, Runtime
<1> HIDE DEF new
<1>3. \A t \in Task : new.rt[t].attempt = st.rt[t].attempt
  BY <1>1, <1>2 DEF Typed, Store
<1>4. Counted(st) => Counted(new)
  BY <1>1, ReleasedCounted
<1> QED
  BY <1>1, <1>3, <1>4 DEF Tame, new

(* A sweep, and LeaseNext's recomputation after it. *)
LEMMA SweptTame ==
  ASSUME NEW st, Sound(st), NEW F
  PROVE  Tame(st, Swept(st)) /\ Tame(st, Recompute(Swept(st), F))
<1> DEFINE mid == Expire(st, Overdue(st))
<1>1. Overdue(st) \in SUBSET st.leases
  BY DEF Overdue
<1>2. Sound(mid) /\ Tame(st, mid)
  BY <1>1, ExpireSound, ExpireTame DEF Sound
<1>3. Swept(st) = Recompute(mid, Workflow)
  BY DEF Swept
<1> HIDE DEF mid
<1>4. Tame(mid, Swept(st))
  BY <1>2, <1>3, RecomputeTame DEF Sound
<1>5. Tame(st, Swept(st))
  BY <1>2, <1>4, TameCompose
<1>6. Typed(Swept(st))
  BY SweptSound DEF Sound
<1>7. Tame(Swept(st), Recompute(Swept(st), F))
  BY <1>6, RecomputeTame
<1> QED
  BY <1>5, <1>7, TameCompose

(* Closing a lease. *)
LEMMA CloseTame ==
  ASSUME NEW st, Sound(st), NEW l \in st.leases, NEW ok \in BOOLEAN
  PROVE  Tame(st, Close(st, l, ok))
<1> DEFINE new == Close(st, l, ok)
           t == l.task
           q == ClosedTask(t, st.rt[t], ok)
<1>1. Typed(st) /\ t \in Task /\ st.rt[t] \in Runtime
  BY DEF Sound, Typed, Store, Lease
<1>2. st.rt[t].state \in Held /\ st.rt[t].attempt > 0
  BY <1>1 DEF Sound, Matches, Describes, Attempted
<1>3. /\ new.wf = st.wf
      /\ new.leases = st.leases \ {l}
      /\ new.rt = [st.rt EXCEPT ![t] = q]
  BY <1>1, <1>2, CloseFields
<1>4. new.active = Released(st, {l})
  BY <1>1 DEF Close, Typed, Store
<1>5. q.attempt = st.rt[t].attempt
  BY <1>1, <1>2, ClosedTaskEnds
<1> HIDE DEF new, t, q
<1>6. \A u \in Task : new.rt[u].attempt = st.rt[u].attempt
  BY <1>1, <1>3, <1>5 DEF Typed, Store
<1>7. {l} \in SUBSET st.leases
  OBVIOUS
<1>8. Counted(st) => Counted(new)
  BY <1>1, <1>3, <1>4, <1>7, ReleasedCounted
<1> QED
  BY <1>3, <1>6, <1>8 DEF Tame, new

(* Cancelling a workflow. *)
LEMMA CancelTame ==
  ASSUME NEW st, Typed(st), NEW f \in Workflow
  PROVE  Tame(st, Cancel(st, f))
<1> DEFINE new == Cancel(st, f)
           L == LeasesOf(st, f)
<1>1. /\ new.wf = [st.wf EXCEPT ![f] = "CANCELLED"]
      /\ new.leases = st.leases \ L
      /\ new.active = Released(st, L)
      /\ new.rt = [t \in Task |-> IF WfOf[t] = f THEN CancelledTask(st, f, t)
                                                 ELSE st.rt[t]]
  BY CancelFields
<1>2. L \in SUBSET st.leases
  BY DEF LeasesOf
<1> HIDE DEF new, L
<1>3. ASSUME NEW t \in Task PROVE new.rt[t].attempt = st.rt[t].attempt
  <2>1. st.rt[t] \in Runtime
    BY DEF Typed, Store
  <2>2. \A r \in Runtime : ClearLease(r).attempt = r.attempt
    BY DEF ClearLease, Runtime
  <2>3. CancelTask(st.rt[t]).attempt = st.rt[t].attempt
    BY <2>1 DEF CancelTask, Runtime
  <2>4. CancelTask(st.rt[t]) \in Runtime
    BY <2>1, CancelTaskEnds
  <2>5. \/ new.rt[t] = st.rt[t]
        \/ new.rt[t] = CancelTask(st.rt[t])
        \/ new.rt[t] = ClearLease(CancelTask(st.rt[t]))
    BY <1>1 DEF CancelledTask
  <2> QED
    BY <2>2, <2>3, <2>4, <2>5
<1>4. Counted(st) => Counted(new)
  BY <1>1, <1>2, ReleasedCounted
<1>5. \A g \in Workflow : new.wf[g] = "ABSENT" => st.wf[g] = "ABSENT"
  BY <1>1 DEF Typed, Store
<1> QED
  BY <1>1, <1>3, <1>4, <1>5 DEF Tame, new

(* Opening a workflow charges no task an attempt: its tasks have none yet. *)
LEMMA OpenedTame ==
  ASSUME NEW st, Typed(st), NEW f \in Workflow,
         \A t \in Task : WfOf[t] = f => st.rt[t].attempt = 0
  PROVE  Tame(st, Opened(st, f))
<1> DEFINE new == Opened(st, f)
<1>1. /\ new.wf = [st.wf EXCEPT ![f] = "PENDING"]
      /\ new.leases = st.leases
      /\ new.active = st.active
      /\ new.rt = [t \in Task |-> IF WfOf[t] = f THEN NewRuntime ELSE st.rt[t]]
  BY OpenedFields DEF Opened, Typed, Store
<1> HIDE DEF new
<1>2. \A t \in Task : new.rt[t].attempt = st.rt[t].attempt
  BY <1>1 DEF NewRuntime
<1>3. Counted(st) => Counted(new)
  BY <1>1 DEF Counted
<1>4. \A g \in Workflow : new.wf[g] = "ABSENT" => st.wf[g] = "ABSENT"
  BY <1>1 DEF Typed, Store
<1> QED
  BY <1>1, <1>2, <1>3, <1>4 DEF Tame, new

(* Changing one task's runtime but for its attempt. *)
LEMMA UpdateTame ==
  ASSUME NEW st, Typed(st), NEW t \in Task, NEW q \in Runtime,
         q.attempt = st.rt[t].attempt
  PROVE  Tame(st, [st EXCEPT !.rt[t] = q])
<1> DEFINE new == [st EXCEPT !.rt[t] = q]
<1>1. /\ new.wf = st.wf
      /\ new.leases = st.leases
      /\ new.active = st.active
      /\ new.rt = [st.rt EXCEPT ![t] = q]
  BY DEF Typed, Store
<1> HIDE DEF new
<1>2. \A u \in Task : new.rt[u].attempt = st.rt[u].attempt
  BY <1>1 DEF Typed, Store
<1>3. Counted(st) => Counted(new)
  BY <1>1 DEF Counted
<1> QED
  BY <1>1, <1>2, <1>3 DEF Tame, new

(* Renewing replaces a lease by one of the same token and worker. *)
LEMMA RenewTame ==
  ASSUME NEW st, Sound(st), NEW l \in st.leases
  PROVE  Tame(st, Renew(st, l))
<1> DEFINE new == Renew(st, l)
           x == Extended(l)
           q == [st.rt[l.task] EXCEPT !.until = LeaseDuration]
<1>1. /\ Typed(st) /\ Matches(st)
      /\ l \in Lease
      /\ l.task \in Task
      /\ st.rt[l.task] \in Runtime
  BY DEF Sound, Typed, Store, Lease
<1>2. /\ new.wf = st.wf
      /\ new.leases = (st.leases \ {l}) \cup {x}
      /\ new.active = st.active
      /\ new.rt = [st.rt EXCEPT ![l.task] = q]
  BY <1>1, RenewFields
<1>3. x.token = l.token /\ x.worker = l.worker /\ x.task = l.task
  BY <1>1 DEF Extended, Lease
<1>4. x \notin st.leases \ {l}
  BY <1>1, <1>3, OneLease
<1>5. q.attempt = st.rt[l.task].attempt
  BY <1>1 DEF Runtime
<1> HIDE DEF new, x, q
<1>6. \A u \in Task : new.rt[u].attempt = st.rt[u].attempt
  BY <1>1, <1>2, <1>5 DEF Typed, Store
<1>7. ASSUME Counted(st), NEW w \in Worker
      PROVE  Cardinality(HeldBy(new.leases, w)) = Cardinality(HeldBy(st.leases, w))
  <2> DEFINE A == HeldBy(st.leases, w)
  <2>1. IsFiniteSet(A)
    BY <1>1, FS_Subset DEF Typed, HeldBy
  <2>2. CASE l.worker # w
    <3>1. HeldBy(new.leases, w) = A
      BY <1>2, <1>3, <2>2 DEF HeldBy
    <3> QED
      BY <3>1
  <2>3. CASE l.worker = w
    <3>1. /\ HeldBy(new.leases, w) = (A \ {l}) \cup {x}
          /\ l \in A
          /\ x \notin A \ {l}
      BY <1>2, <1>3, <1>4, <2>3 DEF HeldBy
    <3> HIDE DEF A
    <3>2. /\ IsFiniteSet(A \ {l})
          /\ Cardinality(A \ {l}) = Cardinality(A) - 1
      BY <2>1, <3>1, FS_RemoveElement
    <3>3. Cardinality((A \ {l}) \cup {x}) = Cardinality(A \ {l}) + 1
      BY <3>1, <3>2, FS_AddElement
    <3>4. Cardinality(A) \in Nat
      BY <2>1, FS_CardinalityType
    <3> QED
      BY <3>1, <3>2, <3>3, <3>4 DEF A
  <2> QED
    BY <2>2, <2>3
<1>8. Counted(st) => Counted(new)
  BY <1>2, <1>7 DEF Counted
<1> QED
  BY <1>2, <1>3, <1>6, <1>8 DEF Tame, new

(* Time keeps leases apart: no two of them have one task. *)
LEMMA LaterTame ==
  ASSUME NEW st, Sound(st)
  PROVE  Tame(st, Later(st))
<1> DEFINE new == Later(st)
<1>1. Typed(st) /\ Matches(st) /\ st.leases \in SUBSET Lease
  BY DEF Sound, Typed, Store
<1>2. /\ new.wf = st.wf
      /\ new.leases = {Aged(l) : l \in st.leases}
      /\ new.active = st.active
      /\ new.rt = [t \in Task |-> AgedTask(st.rt[t])]
  BY <1>1, LaterFields
<1>3. \A l \in Lease : /\ Aged(l).token = l.token
                       /\ Aged(l).worker = l.worker
                       /\ Aged(l).task = l.task
  BY DEF Aged, Lease
<1> HIDE DEF new
<1>4. \A t \in Task : new.rt[t].attempt = st.rt[t].attempt
  <2>1. \A r \in Runtime : AgedTask(r).attempt = r.attempt
    BY DEF AgedTask, Runtime
  <2> QED
    BY <1>1, <1>2, <2>1 DEF Typed, Store
<1>5. ASSUME NEW w \in Worker
      PROVE  Cardinality(HeldBy(new.leases, w)) = Cardinality(HeldBy(st.leases, w))
  <2> DEFINE A == HeldBy(st.leases, w)
             B == HeldBy(new.leases, w)
             image == [l \in A |-> Aged(l)]
  <2>1. IsFiniteSet(A)
    BY <1>1, FS_Subset DEF Typed, HeldBy
  <2>2. \A l \in A : Aged(l) \in B
    BY <1>1, <1>2, <1>3 DEF HeldBy
  <2>3. \A m \in B : \E l \in A : m = Aged(l)
    BY <1>1, <1>2, <1>3 DEF HeldBy
  <2>4. \A l, m \in A : Aged(l) = Aged(m) => l = m
    <3> SUFFICES ASSUME NEW l \in A, NEW m \in A, Aged(l) = Aged(m)
                 PROVE  l = m
      OBVIOUS
    <3>1. l \in st.leases /\ m \in st.leases /\ l.task = m.task
      BY <1>1, <1>3 DEF HeldBy
    <3> QED
      BY <1>1, <3>1, OneLease
  <2> HIDE DEF A, B
  <2>5. image \in Bijection(A, B)
    BY <2>2, <2>3, <2>4 DEF Bijection, Injection, Surjection, IsInjective
  <2> QED
    BY <2>1, <2>5, FS_Bijection DEF ExistsBijection, A, B
<1>6. Counted(st) => Counted(new)
  BY <1>2, <1>5 DEF Counted
<1>7. \A l \in new.leases : \E m \in st.leases :
        m.token = l.token /\ m.worker = l.worker
  BY <1>1, <1>2, <1>3
<1> QED
  BY <1>2, <1>4, <1>6, <1>7 DEF Tame, new

(* Granting adds a lease, raises its worker's count and charges its task. *)
LEMMA GrantCounts ==
  ASSUME NEW st, Sound(st), Counted(st), NEW w \in Worker, NEW t \in Task,
         NEW k \in Nat \ {0}, st.rt[t].state = "READY",
         st.active[w] < Capacity(w)
  PROVE  LET new == Grant(st, w, t, k) IN
         /\ new.wf = st.wf
         /\ new.leases = st.leases \cup {GrantedLease(st, w, t, k)}
         /\ Counted(new)
         /\ \A u \in Task : new.rt[u].attempt = IF u = t THEN st.rt[t].attempt + 1
                                                ELSE st.rt[u].attempt
<1> DEFINE new == Grant(st, w, t, k)
           g == GrantedLease(st, w, t, k)
           q == GrantedTask(st.rt[t], w, k)
<1>1. Typed(st) /\ Matches(st) /\ st.rt[t] \in Runtime
  BY DEF Sound, Typed, Store
<1>2. /\ new.wf = st.wf
      /\ new.leases = st.leases \cup {g}
      /\ new.rt = [st.rt EXCEPT ![t] = q]
  BY <1>1, GrantFields
<1>3. new.active = [st.active EXCEPT ![w] = st.active[w] + 1]
  BY <1>1 DEF Grant, Typed, Store
<1>4. g.worker = w /\ g.task = t
  BY DEF GrantedLease
<1>5. g \notin st.leases
  BY <1>1, <1>4 DEF Matches, Describes, Held
<1>6. q.attempt = st.rt[t].attempt + 1
  BY <1>1 DEF GrantedTask, Runtime
<1> HIDE DEF new, g, q
<1>7. ASSUME NEW v \in Worker
      PROVE  /\ new.active[v] = Cardinality(HeldBy(new.leases, v))
             /\ new.active[v] <= Capacity(v)
  <2> DEFINE A == HeldBy(st.leases, v)
  <2>1. IsFiniteSet(A) /\ st.active \in [Worker -> Nat] /\ Capacity(v) \in Int
    BY <1>1, FS_Subset, PolicyAssumption DEF Typed, Store, HeldBy, Capacity
  <2>2. st.active[v] = Cardinality(A) /\ st.active[v] <= Capacity(v)
    BY DEF Counted
  <2>3. CASE v # w
    <3>1. HeldBy(new.leases, v) = A /\ new.active[v] = st.active[v]
      BY <1>2, <1>3, <1>4, <2>1, <2>3 DEF HeldBy
    <3> QED
      BY <2>2, <3>1
  <2>4. CASE v = w
    <3>1. /\ HeldBy(new.leases, v) = A \cup {g}
          /\ g \notin A
          /\ new.active[v] = st.active[v] + 1
      BY <1>2, <1>3, <1>4, <1>5, <2>1, <2>4 DEF HeldBy
    <3> HIDE DEF A
    <3>2. Cardinality(A \cup {g}) = Cardinality(A) + 1
      BY <2>1, <3>1, FS_AddElement
    <3> QED
      BY <2>1, <2>2, <2>4, <3>1, <3>2
  <2> QED
    BY <2>3, <2>4
<1>8. \A u \in Task : new.rt[u].attempt = IF u = t THEN st.rt[t].attempt + 1
                                          ELSE st.rt[u].attempt
  BY <1>1, <1>2, <1>6 DEF Typed, Store
<1>9. Counted(new)
  BY <1>7 DEF Counted
<1> QED
  BY <1>2, <1>8, <1>9 DEF new, g

-----------------------------------------------------------------------------
(* The invariant about the counters: the counts are right, leases belong to
   registered workers under tokens already drawn, and a workflow that is not
   there yet has had no attempts. *)
Accounts ==
  /\ Counted(store)
  /\ \A l \in store.leases : l.worker \in registered /\ l.token <= issued
  /\ \A t \in Task : store.wf[WfOf[t]] = "ABSENT" => store.rt[t].attempt = 0

(* The body of AttemptsCountLeases. *)
Granted(t) == {l \in store'.leases : l.task = t /\ l.token > issued}
Charged == \A t \in Task :
  store'.rt[t].attempt = store.rt[t].attempt + Cardinality(Granted(t))

(* Nothing is held, drawn or charged at the start. *)
LEMMA InitAccounts == Init => Accounts
<1> SUFFICES ASSUME Init PROVE Accounts
  OBVIOUS
<1>1. /\ store.active = [w \in Worker |-> 0]
      /\ store.leases = {}
      /\ store.rt = [t \in Task |-> NewRuntime]
  BY DEF Init
<1>2. \A w \in Worker : Capacity(w) >= 0
  BY PolicyAssumption DEF Capacity
<1>3. \A w \in Worker : HeldBy(store.leases, w) = {}
  BY <1>1 DEF HeldBy
<1>4. Counted(store)
  BY <1>1, <1>2, <1>3, FS_EmptySet DEF Counted
<1> QED
  BY <1>1, <1>4 DEF Accounts, NewRuntime

(* A tame step keeps the accounts, and grants and charges nothing. *)
LEMMA TameStep ==
  ASSUME Invariant, Invariant', Accounts, Tame(store, store'),
         registered' = registered, issued' = issued
  PROVE  Accounts' /\ Charged
<1>1. ASSUME NEW l \in store'.leases
      PROVE  l.worker \in registered /\ l.token <= issued
  <2>1. PICK m \in store.leases : m.token = l.token /\ m.worker = l.worker
    BY DEF Tame
  <2> QED
    BY <2>1 DEF Accounts
<1>2. \A t \in Task : store'.wf[WfOf[t]] = "ABSENT" => store'.rt[t].attempt = 0
  BY GraphAssumption DEF Tame, Accounts
<1>3. Counted(store')
  BY DEF Tame, Accounts
<1>4. Accounts'
  BY <1>1, <1>2, <1>3 DEF Accounts, Counted, HeldBy
<1>5. ASSUME NEW t \in Task
      PROVE  store'.rt[t].attempt = store.rt[t].attempt + Cardinality(Granted(t))
  <2>1. \A l \in store'.leases : l.token \in Nat
    BY DEF Invariant, Sound, Typed, Store, Lease
  <2>2. issued \in Nat
    BY DEF Invariant, TypeOK
  <2>3. Granted(t) = {}
    BY <1>1, <2>1, <2>2 DEF Granted
  <2>4. Cardinality(Granted(t)) = 0
    BY <2>3, FS_EmptySet
  <2>5. store.rt[t].attempt \in Nat
    BY DEF Invariant, Sound, Typed, Store, Runtime
  <2>6. store'.rt[t].attempt = store.rt[t].attempt
    BY DEF Tame
  <2> QED
    BY <2>4, <2>5, <2>6
<1> QED
  BY <1>4, <1>5 DEF Charged

(* LeaseNext draws one token, for the one task it charges. *)
LEMMA LeaseNextCounts ==
  ASSUME Invariant, Invariant', Accounts, NEW w \in Worker, LeaseNext(w)
  PROVE  Accounts' /\ Charged
<1>1. Sound(store)
  BY DEF Invariant
<1>2. CASE LeaseNextEmpty(w)
  <2>1. Tame(store, store') /\ registered' = registered /\ issued' = issued
    BY <1>1, <1>2, SweptTame DEF LeaseNextEmpty
  <2> QED
    BY <2>1, TameStep
<1>3. ASSUME NEW i \in DOMAIN arrivals, NEW n \in DOMAIN Order[arrivals[i]],
             LeaseNextGrants(w, i, n)
      PROVE  Accounts' /\ Charged
  <2> DEFINE st == Recompute(Swept(store), Visited(i))
             f == arrivals[i]
             t == Order[f][n]
             g == GrantedLease(st, w, t, FreshToken)
  <2>1. t \in Task
    <3>1. f \in Workflow
      BY DEF Invariant, TypeOK
    <3>2. Order[f] \in Seq(TasksOf(f)) /\ n \in DOMAIN Order[f]
      BY <3>1, GraphAssumption
    <3>3. t \in TasksOf(f)
      BY <3>2
    <3> QED
      BY <3>3 DEF TasksOf
  <2>2. Sound(st) /\ Typed(st) /\ Sound(Swept(store))
    BY <1>1, SweptSound DEF Sound
  <2>3. Tame(store, st)
    BY <1>1, SweptTame
  <2>4. st.active = Swept(store).active
    BY <2>2, RecomputeFields DEF Sound, Typed
  <2>5. st.active[w] < Capacity(w) /\ w \in registered
    BY <1>3, <2>4 DEF LeaseNextGrants, Serves
  <2>6. /\ FreshToken \in Nat \ {0}
        /\ FreshToken = issued + 1
        /\ issued \in Nat
        /\ issued' = issued + 1
        /\ registered' = registered
    BY <1>3 DEF Invariant, TypeOK, FreshToken, LeaseNextGrants
  <2>7. st.rt[t].state = "READY" /\ store' = Grant(st, w, t, FreshToken)
    BY <1>3 DEF LeaseNextGrants, Offer
  <2>8. g.token = FreshToken /\ g.task = t /\ g.worker = w
    BY DEF GrantedLease
  <2>9. Counted(st)
    BY <2>3 DEF Tame, Accounts
  <2>10. ASSUME NEW l \in st.leases
         PROVE  l.worker \in registered /\ l.token <= issued /\ l.token \in Nat
    <3>1. PICK m \in store.leases : m.token = l.token /\ m.worker = l.worker
      BY <2>3 DEF Tame
    <3>2. l.token \in Nat
      BY <2>2 DEF Typed, Store, Lease
    <3> QED
      BY <3>1, <3>2 DEF Accounts
  <2>11. \A u \in Task : st.rt[u].attempt = store.rt[u].attempt
    BY <2>3 DEF Tame
  <2>12. \A u \in Task : st.wf[WfOf[u]] = "ABSENT" => st.rt[u].attempt = 0
    BY <2>3, GraphAssumption DEF Tame, Accounts
  <2> HIDE DEF st, t, g
  <2>13. /\ store'.wf = st.wf
         /\ store'.leases = st.leases \cup {g}
    BY <2>1, <2>2, <2>5, <2>6, <2>7, <2>9, GrantCounts DEF g
  <2>14. /\ Counted(store')
         /\ \A u \in Task : store'.rt[u].attempt = IF u = t
              THEN st.rt[t].attempt + 1 ELSE st.rt[u].attempt
    BY <2>1, <2>2, <2>5, <2>6, <2>7, <2>9, GrantCounts
  <2>15. st.wf[WfOf[t]] # "ABSENT"
    BY <2>1, <2>2, <2>7 DEF Sound, Untouched
  <2>16. \A u \in Task : store'.wf[WfOf[u]] = "ABSENT" => store'.rt[u].attempt = 0
    BY <2>12, <2>13, <2>14, <2>15
  <2>17. \A l \in store'.leases : l.worker \in registered' /\ l.token <= issued'
    BY <2>5, <2>6, <2>8, <2>10, <2>13
  <2>18. Accounts'
    BY <2>14, <2>16, <2>17 DEF Accounts, Counted, HeldBy
  <2>19. ASSUME NEW u \in Task
         PROVE  store'.rt[u].attempt
                  = store.rt[u].attempt + Cardinality(Granted(u))
    <3>1. Granted(u) = IF u = t THEN {g} ELSE {}
      BY <2>6, <2>8, <2>10, <2>13 DEF Granted
    <3>2. Cardinality(Granted(u)) = IF u = t THEN 1 ELSE 0
      BY <3>1, FS_EmptySet, FS_Singleton
    <3>3. store.rt[u].attempt \in Nat
      BY DEF Invariant, Sound, Typed, Store, Runtime
    <3> QED
      BY <2>1, <2>11, <2>14, <3>2, <3>3
  <2> QED
    BY <2>18, <2>19 DEF Charged
<1> QED
  BY <1>2, <1>3 DEF LeaseNext

(* RegisterWorker sets the count of a worker that holds nothing to 0. *)
LEMMA RegisterWorkerCounts ==
  ASSUME Invariant, Invariant', Accounts, NEW w \in Worker, RegisterWorker(w)
  PROVE  Accounts' /\ Charged
<1>1. /\ store' = [store EXCEPT !.active[w] = 0]
      /\ w \notin registered
      /\ registered' = registered \cup {w}
      /\ issued' = issued
      /\ store \in Store
  BY DEF RegisterWorker, Invariant, Sound, Typed
<1>2. HeldBy(store.leases, w) = {}
  BY <1>1 DEF HeldBy, Accounts
<1>3. store.active[w] = 0
  BY <1>2, FS_EmptySet DEF Accounts, Counted
<1>4. store' = store
  BY <1>1, <1>3 DEF Store
<1>5. Accounts'
  BY <1>1, <1>4 DEF Accounts, Counted, HeldBy
<1>6. \A t \in Task : Granted(t) = {} /\ store.rt[t].attempt \in Nat
  <2>1. \A l \in store'.leases : l.token <= issued /\ l.token \in Nat
    BY <1>1, <1>4 DEF Accounts, Store, Lease
  <2>2. issued \in Nat
    BY DEF Invariant, TypeOK
  <2>3. \A t \in Task : Granted(t) = {}
    BY <2>1, <2>2 DEF Granted
  <2>4. \A t \in Task : store.rt[t].attempt \in Nat
    BY <1>1 DEF Store, Runtime
  <2> QED
    BY <2>3, <2>4
<1>7. Charged
  <2>1. Cardinality({}) = 0
    BY FS_EmptySet
  <2> SUFFICES ASSUME NEW t \in Task
               PROVE  store'.rt[t].attempt
                        = store.rt[t].attempt + Cardinality(Granted(t))
    BY DEF Charged
  <2>2. Cardinality(Granted(t)) = 0 /\ store.rt[t].attempt \in Nat
    BY <1>6, <2>1, Zenon
  <2> QED
    BY <1>4, <2>2
<1> QED
  BY <1>5, <1>7

(* The methods called with a lease token are tame. *)
LEMMA LeaseCallsTame ==
  ASSUME Invariant, NEW l \in store.leases,
         \/ StartLease(l)
         \/ RenewLease(l)
         \/ \E size \in Chunk : AppendLog(l, size)
         \/ \E ok \in BOOLEAN : CompleteLease(l, ok)
  PROVE  Tame(store, store') /\ registered' = registered /\ issued' = issued
<1> DEFINE r == store.rt[l.task]
<1>1. /\ Sound(store)
      /\ Typed(store)
      /\ l.task \in Task
      /\ r \in Runtime
  BY DEF Invariant, Sound, Typed, Store, Lease
<1>2. CASE TouchOverdue(l)
  <2>1. {l} \in SUBSET store.leases /\ store' = Expire(store, {l})
    BY <1>2 DEF TouchOverdue
  <2> QED
    BY <1>1, <1>2, <2>1, ExpireTame DEF TouchOverdue
<1>3. ASSUME StartLease(l), ~ TouchOverdue(l) PROVE Tame(store, store')
  <2>1. r.state = "LEASED" /\ store' = [store EXCEPT !.rt[l.task] = Begun(r)]
    BY <1>3 DEF StartLease
  <2> HIDE DEF r
  <2>2. TransitionTask(r, "RUNNING") = [r EXCEPT !.state = "RUNNING"]
    BY <2>1 DEF TransitionTask, ValidTaskTransitions
  <2>3. Begun(r) \in Runtime /\ Begun(r).attempt = r.attempt
    BY <1>1, <2>1, <2>2 DEF Begun, Runtime, TaskState
  <2> QED
    BY <1>1, <2>1, <2>3, UpdateTame DEF r
<1>4. ASSUME RenewLease(l), ~ TouchOverdue(l) PROVE Tame(store, store')
  BY <1>1, <1>4, RenewTame DEF RenewLease
<1>5. ASSUME NEW size \in Chunk, AppendLog(l, size), ~ TouchOverdue(l)
      PROVE  Tame(store, store')
  <2> DEFINE q == [r EXCEPT !.output = r.output + size]
  <2>1. store' = [store EXCEPT !.rt[l.task] = q]
    BY <1>5 DEF AppendLog
  <2>2. size \in Nat
    BY PolicyAssumption
  <2> HIDE DEF r
  <2>3. q \in Runtime /\ q.attempt = r.attempt
    BY <1>1, <2>2 DEF Runtime
  <2> HIDE DEF q
  <2> QED
    BY <1>1, <2>1, <2>3, UpdateTame DEF r
<1>6. ASSUME NEW ok \in BOOLEAN, CompleteLease(l, ok), ~ TouchOverdue(l)
      PROVE  Tame(store, store')
  <2> DEFINE mid == Close(store, l, ok)
  <2>1. store' = Recompute(mid, {WfOf[l.task]})
    BY <1>6 DEF CompleteLease
  <2>2. Tame(store, mid) /\ Typed(mid)
    BY <1>1, CloseTame, CloseSound DEF Sound
  <2> HIDE DEF mid
  <2> QED
    BY <2>1, <2>2, RecomputeTame, TameCompose
<1>7. registered' = registered /\ issued' = issued
  BY DEF StartLease, RenewLease, AppendLog, CompleteLease, TouchOverdue
<1> QED
  BY <1>1, <1>2, <1>3, <1>4, <1>5, <1>6, <1>7

(* Every step keeps the accounts and charges what it grants. *)
LEMMA NextCounts ==
  ASSUME Invariant, Invariant', Accounts, [Next]_vars
  PROVE  Accounts' /\ Charged
<1>1. Sound(store) /\ Typed(store)
  BY DEF Invariant, Sound
<1>2. ASSUME NEW f \in Workflow, NEW key \in Key \cup {NoKey},
             CreateWorkflow(f, key)
      PROVE  Accounts' /\ Charged
  <2> DEFINE mid == Opened(store, f)
  <2>1. /\ store' = Recompute(mid, {f})
        /\ store.wf[f] = "ABSENT"
        /\ registered' = registered
        /\ issued' = issued
    BY <1>2 DEF CreateWorkflow, Opened
  <2>2. \A t \in Task : WfOf[t] = f => store.rt[t].attempt = 0
    BY <2>1 DEF Accounts
  <2>3. Tame(store, mid) /\ Typed(mid)
    BY <1>1, <2>2, OpenedTame, OpenedFields
  <2> HIDE DEF mid
  <2>4. Tame(store, store')
    BY <2>1, <2>3, RecomputeTame, TameCompose
  <2> QED
    BY <2>1, <2>4, TameStep
<1>3. ASSUME NEW f \in Workflow, CancelWorkflow(f)
      PROVE  Accounts' /\ Charged
  <2>1. Tame(store, store') /\ registered' = registered /\ issued' = issued
    BY <1>1, <1>3, CancelTame DEF CancelWorkflow
  <2> QED
    BY <2>1, TameStep
<1>4. ASSUME NEW w \in Worker, HeartbeatWorker(w) PROVE Accounts' /\ Charged
  <2>1. store' = store /\ registered' = registered /\ issued' = issued
    BY <1>4 DEF HeartbeatWorker
  <2>2. Tame(store, store')
    BY <2>1 DEF Tame
  <2> QED
    BY <2>1, <2>2, TameStep
<1>5. ASSUME NEW l \in store.leases,
             \/ StartLease(l)
             \/ RenewLease(l)
             \/ \E size \in Chunk : AppendLog(l, size)
             \/ \E ok \in BOOLEAN : CompleteLease(l, ok)
      PROVE  Accounts' /\ Charged
  BY <1>5, LeaseCallsTame, TameStep
<1>6. CASE Sweep
  <2>1. Tame(store, store') /\ registered' = registered /\ issued' = issued
    BY <1>1, <1>6, SweptTame DEF Sweep
  <2> QED
    BY <2>1, TameStep
<1>7. CASE Tick
  <2>1. store' = Later(store) /\ registered' = registered /\ issued' = issued
    BY <1>7 DEF Tick, Later, Aged, AgedTask
  <2> QED
    BY <1>1, <2>1, LaterTame, TameStep
<1>8. CASE UNCHANGED vars
  <2>1. store' = store /\ registered' = registered /\ issued' = issued
    BY <1>8 DEF vars
  <2>2. Tame(store, store')
    BY <2>1 DEF Tame
  <2> QED
    BY <2>1, <2>2, TameStep
<1>9. CASE ClientStep
  BY <1>2, <1>3, <1>9 DEF ClientStep
<1>10. CASE WorkerStep
  BY <1>4, <1>5, <1>10, LeaseNextCounts, RegisterWorkerCounts DEF WorkerStep
<1> QED
  BY <1>6, <1>7, <1>8, <1>9, <1>10 DEF Next

(* The counters' invariant of the store's methods. *)
LEMMA AccountsHold == Spec => []Accounts
<1>1. Invariant /\ Invariant' /\ Accounts /\ [Next]_vars => Accounts'
  BY NextCounts
<1> QED
  BY <1>1, InitAccounts, InvariantHolds, PTL DEF Spec

-----------------------------------------------------------------------------
(* ActiveLeases is the number of leases a worker holds, and within capacity:
   no decrement is missed, doubled or hidden by the "> 0" guard. *)
THEOREM CountersRight == Spec => []ActiveCountsLeases
<1>1. Accounts => ActiveCountsLeases
  BY DEF Accounts, Counted, ActiveCountsLeases, HeldBy
<1> QED
  BY <1>1, AccountsHold, PTL

(* A task's attempt counter moves by one, exactly when a lease is granted. *)
THEOREM AttemptsCounted == Spec => AttemptsCountLeases
<1>1. Invariant /\ Invariant' /\ Accounts /\ [Next]_vars =>
        [\A t \in Task :
           LET granted == {l \in store'.leases : l.task = t /\ l.token > issued}
           IN store'.rt[t].attempt
                = store.rt[t].attempt + Cardinality(granted)]_vars
  BY NextCounts DEF Charged, Granted
<1> QED
  BY <1>1, AccountsHold, InvariantHolds, PTL DEF Spec, AttemptsCountLeases

-----------------------------------------------------------------------------
(* How workflows end: what a verdict says of the tasks, and that an open
   workflow can still move.  Both rest on the graph having no cycle: a pass
   leaves no task waiting for nothing, because among the tasks that wait one
   waits for none of the others. *)

(* The three invariants, workflow by workflow, of any store. *)
Quiet(st, f) ==
  st.wf[f] \in Final => \A t \in TasksOf(f) : st.rt[t].state \in Final

Judged(st, f) ==
  /\ st.wf[f] = "SUCCEEDED" <=> \A t \in TasksOf(f) : st.rt[t].state = "SUCCEEDED"
  /\ st.wf[f] = "FAILED" => \E t \in TasksOf(f) : st.rt[t].state = "FAILED"

(* A task that no client cancelled is CANCELLED for a reason.  Unlike the
   rest this holds also between two helpers of one method. *)
Grounded(st, f) ==
  st.wf[f] # "CANCELLED" =>
    \A t \in TasksOf(f) : st.rt[t].state = "CANCELLED"
       => \E d \in Deps[t] : st.rt[d].state \in Unsuccessful

Waits(st, t) == /\ \E d \in Deps[t] : st.rt[d].state # "SUCCEEDED"
                /\ \A d \in Deps[t] : st.rt[d].state \notin Unsuccessful

Moving(st, f) ==
  st.wf[f] \in Open => /\ \E t \in TasksOf(f) : st.rt[t].state \in Active
                       /\ \A t \in Waiting(st, f) : Waits(st, t)

Settled(st, f) == /\ Quiet(st, f)
                  /\ Judged(st, f)
                  /\ Grounded(st, f)
                  /\ Moving(st, f)

-----------------------------------------------------------------------------
(* The tasks of a workflow, and what they depend on, are all of it. *)
LEMMA TasksClosed ==
  ASSUME NEW f \in Workflow
  PROVE  /\ TasksOf(f) \in SUBSET Task
         /\ TasksOf(f) # {}
         /\ \A t \in TasksOf(f) : Deps[t] \in SUBSET TasksOf(f)
BY GraphAssumption DEF TasksOf

(* Among some of the tasks of a workflow one depends on none of the others. *)
LEMMA FirstTask ==
  ASSUME NEW S \in SUBSET Task, S # {}
  PROVE  \E t \in S : Deps[t] \cap S = {}
BY GraphAssumption

(* No task waits for nothing: if no task can move, none waits either. *)
LEMMA NoneWaits ==
  ASSUME NEW st \in Store, NEW f \in Workflow,
         \A t \in TasksOf(f) : st.rt[t].state \notin Active,
         \A t \in Waiting(st, f) : Waits(st, t)
  PROVE  \A t \in TasksOf(f) : st.rt[t].state \in Final
<1> DEFINE W == Waiting(st, f)
<1>1. W \in SUBSET Task
  BY TasksClosed DEF Waiting
<1>2. \A t \in TasksOf(f) : st.rt[t].state \in TaskState
  BY TasksClosed DEF Store, Runtime
<1>3. W = {}
  <2> SUFFICES ASSUME W # {} PROVE FALSE
    OBVIOUS
  <2>1. PICK t \in W : Deps[t] \cap W = {}
    BY <1>1, FirstTask
  <2>2. t \in TasksOf(f)
    BY <2>1 DEF Waiting
  <2>3. PICK d \in Deps[t] : st.rt[d].state # "SUCCEEDED"
    BY <2>1 DEF Waits
  <2>4. d \in TasksOf(f) /\ d \notin W
    BY <2>1, <2>2, <2>3, TasksClosed
  <2>5. st.rt[d].state # "PENDING"
    BY <2>4 DEF Waiting
  <2>6. st.rt[d].state \notin Unsuccessful
    BY <2>1, <2>3 DEF Waits
  <2> QED
    BY <1>2, <2>3, <2>4, <2>5, <2>6 DEF TaskState, Active, Unsuccessful
<1>4. \A t \in TasksOf(f) : st.rt[t].state # "PENDING"
  BY <1>3 DEF Waiting
<1> QED
  BY <1>2, <1>4 DEF TaskState, Active, Final

(* What the pass leaves alone and what it leaves behind. *)
LEMMA SurvivorsWait ==
  ASSUME NEW st \in Store, NEW f \in Workflow
  PROVE  /\ Survivors(st, f) \in SUBSET Waiting(st, f)
         /\ \A t \in Survivors(st, f) : \A d \in Deps[t] :
              /\ st.rt[d].state \notin Unsuccessful
              /\ st.rt[d].state = "PENDING" => d \in Survivors(st, f)
         /\ \A t \in Waiting(st, f) \ Survivors(st, f) : \E d \in Deps[t] :
              \/ st.rt[d].state \in Unsuccessful
              \/ d \in Waiting(st, f) \ Survivors(st, f)
<1> DEFINE S == Survivors(st, f)
           Good(T) == \A t \in T : \A d \in Deps[t] :
                        /\ st.rt[d].state \notin Unsuccessful
                        /\ st.rt[d].state = "PENDING" => d \in T
<1>1. S = UNION {T \in SUBSET Waiting(st, f) : Good(T)}
  BY DEF Survivors
<1>2. S \in SUBSET Waiting(st, f) /\ Good(S)
  BY <1>1
<1>3. \A T \in SUBSET Waiting(st, f) : Good(T) => T \in SUBSET S
  BY <1>1
<1>4. ASSUME NEW t \in Waiting(st, f), t \notin S
      PROVE  \E d \in Deps[t] : \/ st.rt[d].state \in Unsuccessful
                                \/ d \in Waiting(st, f) \ S
  <2> SUFFICES ASSUME \A d \in Deps[t] : /\ st.rt[d].state \notin Unsuccessful
                                         /\ d \notin Waiting(st, f) \ S
               PROVE  FALSE
    OBVIOUS
  <2>1. t \in TasksOf(f)
    BY DEF Waiting
  <2>2. \A d \in Deps[t] : st.rt[d].state = "PENDING" => d \in S
    BY <2>1, TasksClosed DEF Waiting
  <2> HIDE DEF S
  <2>3. Good(S \cup {t}) /\ S \cup {t} \in SUBSET Waiting(st, f)
    BY <1>2, <2>2
  <2> QED
    BY <1>3, <1>4, <2>3
<1> QED
  BY <1>2, <1>4

(* The verdict a pass draws is about the tasks as the pass leaves them. *)
LEMMA RecomputeVerdict ==
  ASSUME NEW st \in Store, NEW F, NEW f \in Workflow, f \in F, st.wf[f] \in Open
  PROVE  Recompute(st, F).wf[f] = Outcome(Recompute(st, F).rt, f)
<1> DEFINE Live(g) == g \in F /\ st.wf[g] \in Open
           rt == [t \in Task |-> IF Live(WfOf[t]) THEN RecomputeTask(st, WfOf[t], t)
                                                  ELSE st.rt[t]]
           wf == [g \in Workflow |-> IF Live(g) THEN Outcome(rt, g) ELSE st.wf[g]]
<1>1. Recompute(st, F) = [st EXCEPT !.rt = rt, !.wf = wf]
  BY DEF Recompute
<1>2. wf[f] = Outcome(rt, f)
  OBVIOUS
<1> HIDE DEF rt, wf
<1>3. Recompute(st, F).rt = rt /\ Recompute(st, F).wf = wf
  BY <1>1 DEF Store
<1> QED
  BY <1>2, <1>3

(* What the pass makes of the state of one task. *)
LEMMA RecomputeStates ==
  ASSUME NEW st \in Store, NEW f, NEW t \in Task
  PROVE  LET q == RecomputeTask(st, f, t)
             r == st.rt[t] IN
         /\ r.state = "PENDING" /\ t \notin Survivors(st, f) => q.state = "CANCELLED"
         /\ r.state = "PENDING" /\ t \in Survivors(st, f) =>
              q.state = IF DepsDone(st, t) THEN "READY" ELSE "PENDING"
         /\ r.state = "RETRY_WAIT" => q.state \in {"RETRY_WAIT", "READY"}
         /\ r.state \notin {"PENDING", "RETRY_WAIT"} => q.state = r.state
<1> DEFINE r == st.rt[t]
           q == RecomputeTask(st, f, t)
<1>1. r \in Runtime
  BY DEF Store
<1>2. CASE r.state = "PENDING"
  <2>1. \A v \in {"CANCELLED", "READY"} :
          TransitionTask(r, v) = [r EXCEPT !.state = v]
    BY <1>2 DEF TransitionTask, ValidTaskTransitions
  <2> HIDE DEF r
  <2>2. \A v \in {"CANCELLED", "READY"} : [r EXCEPT !.state = v].state = v
    BY <1>1 DEF Runtime
  <2>3. \A v \in {"CANCELLED", "READY"} : TransitionTask(r, v).state = v
    BY <2>1, <2>2
  <2> QED
    BY <1>2, <2>3 DEF RecomputeTask, r
<1>3. CASE r.state = "RETRY_WAIT"
  <2>1. Passed(st, t, q)
    BY RecomputeTaskCases
  <2> HIDE DEF q, r
  <2>2. q = r \/ q = [r EXCEPT !.retryAt = Nil, !.state = "READY"]
    BY <1>3, <2>1 DEF Passed, r
  <2>3. [r EXCEPT !.retryAt = Nil, !.state = "READY"].state = "READY"
    BY <1>1 DEF Runtime
  <2>4. q.state \in {"RETRY_WAIT", "READY"}
    BY <1>3, <2>2, <2>3
  <2> QED
    BY <1>3, <2>4 DEF q, r
<1>4. CASE r.state \notin {"PENDING", "RETRY_WAIT"}
  BY <1>4 DEF RecomputeTask
<1> QED
  BY <1>2, <1>3, <1>4

(* One pass over an open workflow settles it, whatever was done to its tasks
   since the last one: all that must be known is that its CANCELLED tasks are
   CANCELLED for a reason. *)
LEMMA RecomputeSettles ==
  ASSUME NEW st, Typed(st), NEW F, NEW f \in Workflow, f \in F,
         st.wf[f] \in Open, Grounded(st, f)
  PROVE  Settled(Recompute(st, F), f)
<1> DEFINE new == Recompute(st, F)
           T == TasksOf(f)
           S == Survivors(st, f)
           W == Waiting(st, f)
<1>1. st \in Store
  BY DEF Typed
<1>2. /\ new \in Store
      /\ \A t \in T : new.rt[t] = RecomputeTask(st, f, t)
      /\ new.wf[f] = Outcome(new.rt, f)
  <2>1. \A t \in T : t \in Task /\ WfOf[t] = f
    BY DEF TasksOf
  <2> QED
    BY <1>1, <2>1, RecomputeFields, RecomputeVerdict
<1>3. T \in SUBSET Task /\ T # {} /\ \A t \in T : Deps[t] \in SUBSET T
  BY TasksClosed
<1>4. \A t \in T : /\ st.rt[t].state \in TaskState
                   /\ new.rt[t].state \in TaskState
  BY <1>1, <1>2, <1>3 DEF Store, Runtime
<1>5. \A t \in T :
        /\ st.rt[t].state = "PENDING" /\ t \notin S => new.rt[t].state = "CANCELLED"
        /\ st.rt[t].state = "PENDING" /\ t \in S =>
             new.rt[t].state = IF DepsDone(st, t) THEN "READY" ELSE "PENDING"
        /\ st.rt[t].state = "RETRY_WAIT" => new.rt[t].state \in {"RETRY_WAIT", "READY"}
        /\ st.rt[t].state \notin {"PENDING", "RETRY_WAIT"}
             => new.rt[t].state = st.rt[t].state
  BY <1>1, <1>2, <1>3, RecomputeStates
<1>6. /\ S \in SUBSET W
      /\ \A t \in S : \A d \in Deps[t] :
           /\ st.rt[d].state \notin Unsuccessful
           /\ st.rt[d].state = "PENDING" => d \in S
      /\ \A t \in W \ S : \E d \in Deps[t] :
           st.rt[d].state \in Unsuccessful \/ d \in W \ S
  BY <1>1, SurvivorsWait
<1>7. W = {t \in T : st.rt[t].state = "PENDING"}
  BY DEF Waiting
<1> HIDE DEF new, T, S, W
<1>8. \A t \in T : \A d \in Deps[t] :
        (st.rt[d].state \in Unsuccessful \/ d \in W \ S)
          => new.rt[d].state \in Unsuccessful
  BY <1>3, <1>5, <1>7 DEF Unsuccessful
<1>9. \A t \in T : new.rt[t].state = "CANCELLED"
        => \E d \in Deps[t] : new.rt[d].state \in Unsuccessful
  <2> SUFFICES ASSUME NEW t \in T, new.rt[t].state = "CANCELLED"
               PROVE  \E d \in Deps[t] : new.rt[d].state \in Unsuccessful
    OBVIOUS
  <2>1. CASE st.rt[t].state = "PENDING"
    BY <1>5, <1>6, <1>7, <1>8, <2>1
  <2>2. CASE st.rt[t].state = "CANCELLED"
    <3>1. \E d \in Deps[t] : st.rt[d].state \in Unsuccessful
      BY <2>2 DEF Grounded, Open, T
    <3> QED
      BY <1>8, <3>1
  <2> QED
    BY <1>4, <1>5, <2>1, <2>2
<1>10. \A t \in T : new.rt[t].state = "PENDING" => Waits(new, t)
  <2> SUFFICES ASSUME NEW t \in T, new.rt[t].state = "PENDING" PROVE Waits(new, t)
    OBVIOUS
  <2>1. st.rt[t].state = "PENDING" /\ t \in S /\ ~ DepsDone(st, t)
    BY <1>4, <1>5
  <2>2. PICK d \in Deps[t] : st.rt[d].state # "SUCCEEDED"
    BY <2>1 DEF DepsDone
  <2>3. new.rt[d].state # "SUCCEEDED"
    BY <1>3, <1>5, <2>2
  <2>4. \A c \in Deps[t] : new.rt[c].state \notin Unsuccessful
    <3> SUFFICES ASSUME NEW c \in Deps[t] PROVE new.rt[c].state \notin Unsuccessful
      OBVIOUS
    <3>1. c \in T /\ st.rt[c].state \notin Unsuccessful
                  /\ (st.rt[c].state = "PENDING" => c \in S)
      BY <1>3, <1>6, <2>1
    <3> QED
      BY <1>5, <3>1 DEF Unsuccessful
  <2> QED
    BY <2>2, <2>3, <2>4 DEF Waits
<1>11. (\A t \in T : new.rt[t].state \notin Active)
         => \A t \in T : new.rt[t].state \in Final
  BY <1>2, <1>10, NoneWaits DEF Waiting, T
<1>12. /\ \E t \in T : new.rt[t].state \in Final \ {"SUCCEEDED"}
       /\ \A t \in T : new.rt[t].state \in Final
       => \E t \in T : new.rt[t].state = "FAILED"
  <2> SUFFICES ASSUME NEW u \in T, new.rt[u].state \in Final \ {"SUCCEEDED"},
                      \A t \in T : new.rt[t].state # "FAILED"
               PROVE  FALSE
    OBVIOUS
  <2> DEFINE C == {t \in T : new.rt[t].state = "CANCELLED"}
  <2>1. C \in SUBSET Task /\ C # {}
    BY <1>3 DEF Final
  <2>2. PICK t \in C : Deps[t] \cap C = {}
    BY <2>1, FirstTask
  <2>3. PICK d \in Deps[t] : new.rt[d].state \in Unsuccessful
    BY <1>9, <2>2
  <2>4. d \in T /\ d \notin C
    BY <1>3, <2>2, <2>3
  <2> QED
    BY <2>3, <2>4 DEF Unsuccessful
<1>13. new.wf[f] = IF \A t \in T : new.rt[t].state = "SUCCEEDED" THEN "SUCCEEDED"
                   ELSE IF /\ \E t \in T : new.rt[t].state = "FAILED"
                           /\ ~ \E t \in T : new.rt[t].state \in Active
                   THEN "FAILED" ELSE "RUNNING"
  BY <1>2 DEF Outcome, T
<1>14. Quiet(new, f)
  BY <1>11, <1>13 DEF Quiet, Final, T
<1>15. Judged(new, f)
  BY <1>3, <1>13 DEF Judged, T
<1>16. Grounded(new, f)
  BY <1>9 DEF Grounded, T
<1>17. Moving(new, f)
  <2>1. ASSUME new.wf[f] \in Open PROVE \E t \in T : new.rt[t].state \in Active
    BY <1>4, <1>11, <1>12, <1>13, <2>1 DEF Open
  <2> QED
    BY <1>10, <2>1 DEF Moving, Waiting, T
<1> QED
  BY <1>14, <1>15, <1>16, <1>17 DEF Settled, new

-----------------------------------------------------------------------------
(* The other helpers.  Most of them move a task only between active states. *)
AllSettled(st) == \A f \in Workflow : Settled(st, f)

Stirred(st, new) ==
  /\ new.wf = st.wf
  /\ \A t \in Task : \/ new.rt[t].state = st.rt[t].state
                     \/ st.rt[t].state \in Active /\ new.rt[t].state \in Active

LEMMA StirredSettled ==
  ASSUME NEW st, NEW new, AllSettled(st), Stirred(st, new)
  PROVE  AllSettled(new)
<1> SUFFICES ASSUME NEW f \in Workflow PROVE Settled(new, f)
  BY DEF AllSettled
<1>1. TasksOf(f) \in SUBSET Task /\ \A t \in TasksOf(f) : Deps[t] \in SUBSET Task
  BY TasksClosed
<1>2. Settled(st, f)
  BY DEF AllSettled
<1>3. \A t \in Task :
        /\ \A v \in {"PENDING", "SUCCEEDED", "FAILED", "CANCELLED"} :
             new.rt[t].state = v <=> st.rt[t].state = v
        /\ new.rt[t].state \in Final <=> st.rt[t].state \in Final
        /\ new.rt[t].state \in Unsuccessful <=> st.rt[t].state \in Unsuccessful
        /\ st.rt[t].state \in Active => new.rt[t].state \in Active
  BY DEF Stirred, Active, Final, Unsuccessful
<1>4. Quiet(new, f)
  BY <1>1, <1>2, <1>3 DEF Settled, Quiet, Stirred
<1>5. Judged(new, f)
  BY <1>1, <1>2, <1>3 DEF Settled, Judged, Stirred
<1>6. Grounded(new, f)
  BY <1>1, <1>2, <1>3 DEF Settled, Grounded, Stirred
<1>7. Moving(new, f)
  BY <1>1, <1>2, <1>3 DEF Settled, Moving, Waiting, Waits, Stirred
<1> QED
  BY <1>4, <1>5, <1>6, <1>7 DEF Settled

(* A workflow is as settled as it was while nothing happens to its tasks. *)
LEMMA SameSettled ==
  ASSUME NEW st, NEW new, NEW f \in Workflow, Settled(st, f),
         new.wf[f] = st.wf[f],
         \A t \in TasksOf(f) : new.rt[t].state = st.rt[t].state
  PROVE  Settled(new, f)
<1>1. \A t \in TasksOf(f) : Deps[t] \in SUBSET TasksOf(f)
  BY TasksClosed
<1>2. Quiet(new, f) /\ Judged(new, f)
  BY DEF Settled, Quiet, Judged
<1>3. Grounded(new, f)
  BY <1>1 DEF Settled, Grounded
<1>4. Moving(new, f)
  BY <1>1 DEF Settled, Moving, Waiting, Waits
<1> QED
  BY <1>2, <1>3, <1>4 DEF Settled

LEMMA RecomputeKeepsSettled ==
  ASSUME NEW st, Typed(st), AllSettled(st), NEW F
  PROVE  AllSettled(Recompute(st, F))
<1> SUFFICES ASSUME NEW f \in Workflow PROVE Settled(Recompute(st, F), f)
  BY DEF AllSettled
<1>1. CASE f \in F /\ st.wf[f] \in Open
  BY <1>1, RecomputeSettles DEF AllSettled, Settled
<1>2. CASE ~ (f \in F /\ st.wf[f] \in Open)
  <2>1. Recompute(st, F).wf[f] = st.wf[f]
    BY <1>2, RecomputeFields DEF Typed
  <2>2. \A t \in TasksOf(f) : t \in Task /\ WfOf[t] = f
    BY DEF TasksOf
  <2>3. \A t \in TasksOf(f) : Recompute(st, F).rt[t] = st.rt[t]
    BY <1>2, <2>2, RecomputeFields DEF Typed
  <2> QED
    BY <2>1, <2>3, SameSettled DEF AllSettled
<1> QED
  BY <1>1, <1>2

LEMMA ExpireStirs ==
  ASSUME NEW st, Sound(st), NEW L \in SUBSET st.leases
  PROVE  Stirred(st, Expire(st, L))
<1> DEFINE new == Expire(st, L)
           Hit(t) == \E l \in L : l.task = t /\ l.token = st.rt[t].token
<1>1. st \in Store /\ Typed(st) /\ Matches(st)
  BY DEF Sound, Typed
<1>2. /\ new.wf = st.wf
      /\ \A t \in Task :
           new.rt[t] = IF Hit(t) THEN ExpireTask(st.rt[t]) ELSE st.rt[t]
  BY <1>1, ExpireFields
<1>3. \A r \in Runtime : r.state \in Held => ExpireTask(r).state = "READY"
  BY DEF ExpireTask, ClearLease, Runtime
<1>4. ASSUME NEW t \in Task, Hit(t)
      PROVE  st.rt[t].state \in Held /\ new.rt[t].state = "READY"
  <2>1. st.rt[t].state \in Held /\ st.rt[t] \in Runtime
    BY <1>1, <1>4 DEF Matches, Describes, Store
  <2> QED
    BY <1>2, <1>3, <1>4, <2>1
<1> HIDE DEF new, Hit
<1>5. \A t \in Task : Hit(t) => st.rt[t].state \in Active /\ new.rt[t].state \in Active
  BY <1>4 DEF Held, Active
<1> QED
  BY <1>2, <1>5 DEF Stirred, new

LEMMA SweptSettled ==
  ASSUME NEW st, Sound(st), AllSettled(st), NEW F
  PROVE  AllSettled(Swept(st)) /\ AllSettled(Recompute(Swept(st), F))
<1> DEFINE mid == Expire(st, Overdue(st))
<1>1. Overdue(st) \in SUBSET st.leases
  BY DEF Overdue
<1>2. Sound(mid) /\ AllSettled(mid)
  BY <1>1, ExpireSound, ExpireStirs, StirredSettled
<1>3. AllSettled(Swept(st))
  BY <1>2, RecomputeKeepsSettled DEF Swept, Sound
<1>4. Typed(Swept(st))
  BY SweptSound DEF Sound
<1> QED
  BY <1>3, <1>4, RecomputeKeepsSettled

(* A method that leaves one active task active. *)
LEMMA OneTaskStirs ==
  ASSUME NEW st, Typed(st), NEW new, new.wf = st.wf, NEW t \in Task, NEW q,
         new.rt = [st.rt EXCEPT ![t] = q],
         st.rt[t].state \in Active, q.state \in Active
  PROVE  Stirred(st, new)
BY DEF Stirred, Typed, Store

(* A task that somebody holds belongs to an open workflow. *)
LEMMA HeldIsOpen ==
  ASSUME NEW st, Sound(st), AllSettled(st), NEW t \in Task, st.rt[t].state \in Held
  PROVE  WfOf[t] \in Workflow /\ st.wf[WfOf[t]] \in Open
<1>1. WfOf[t] \in Workflow /\ t \in TasksOf(WfOf[t])
  BY GraphAssumption DEF TasksOf
<1>2. st.wf[WfOf[t]] \in WorkflowState
  BY <1>1 DEF Sound, Typed, Store
<1>3. st.wf[WfOf[t]] # "ABSENT"
  BY DEF Sound, Untouched, Held
<1>4. st.wf[WfOf[t]] \notin Final
  BY <1>1 DEF AllSettled, Settled, Quiet, Held, Final
<1> QED
  BY <1>1, <1>2, <1>3, <1>4 DEF WorkflowState, Open, Final

(* Completing a lease: the result may end the workflow, which the pass that
   follows notices. *)
LEMMA CloseSettled ==
  ASSUME NEW st, Sound(st), AllSettled(st), NEW l \in st.leases, NEW ok \in BOOLEAN
  PROVE  AllSettled(Recompute(Close(st, l, ok), {WfOf[l.task]}))
<1> DEFINE mid == Close(st, l, ok)
           t == l.task
           f == WfOf[t]
           q == ClosedTask(t, st.rt[t], ok)
<1>1. Typed(st) /\ Matches(st) /\ st \in Store
  BY DEF Sound, Typed
<1>2. t \in Task /\ st.rt[t] \in Runtime
  BY <1>1 DEF Store, Lease
<1>3. st.rt[t].state \in Held /\ st.rt[t].attempt > 0
  BY <1>1, <1>2 DEF Sound, Attempted, Matches, Describes
<1>4. /\ Typed(mid)
      /\ mid.wf = st.wf
      /\ mid.rt = [st.rt EXCEPT ![t] = q]
  BY <1>1, <1>3, CloseFields
<1>5. q.state \in {"SUCCEEDED", "FAILED", "RETRY_WAIT"}
  BY <1>2, <1>3, ClosedTaskEnds
<1>6. f \in Workflow /\ st.wf[f] \in Open
  BY <1>2, <1>3, HeldIsOpen
<1> HIDE DEF mid, q, f
<1>7. mid.rt[t] = q /\ \A u \in Task : u # t => mid.rt[u] = st.rt[u]
  BY <1>1, <1>2, <1>4 DEF Store
<1>8. Grounded(mid, f)
  <2> SUFFICES ASSUME NEW u \in TasksOf(f), mid.rt[u].state = "CANCELLED"
               PROVE  \E d \in Deps[u] : mid.rt[d].state \in Unsuccessful
    BY DEF Grounded
  <2>1. u # t /\ u \in Task
    BY <1>5, <1>7 DEF TasksOf
  <2>2. st.rt[u].state = "CANCELLED"
    BY <1>7, <2>1
  <2>3. PICK d \in Deps[u] : st.rt[d].state \in Unsuccessful
    BY <1>6, <2>2 DEF AllSettled, Settled, Grounded, Open
  <2>4. d \in Task /\ d # t
    BY <1>3, <1>6, <2>3, TasksClosed DEF Held, Unsuccessful
  <2> QED
    BY <1>7, <2>3, <2>4
<1>9. Settled(Recompute(mid, {f}), f)
  BY <1>4, <1>6, <1>8, RecomputeSettles
<1>10. ASSUME NEW g \in Workflow, g # f PROVE Settled(Recompute(mid, {f}), g)
  <2>1. \A u \in TasksOf(g) : u \in Task /\ WfOf[u] = g /\ u # t
    BY <1>10 DEF TasksOf, f
  <2>2. \A u \in TasksOf(g) : Recompute(mid, {f}).rt[u] = st.rt[u]
    <3>1. mid \in Store
      BY <1>4 DEF Typed
    <3>2. \A u \in Task : WfOf[u] # f => Recompute(mid, {f}).rt[u] = mid.rt[u]
      BY <3>1, RecomputeFields
    <3> QED
      BY <1>7, <1>10, <2>1, <3>2
  <2>3. Recompute(mid, {f}).wf[g] = st.wf[g]
    BY <1>4, <1>10, RecomputeFields DEF Typed
  <2> QED
    BY <2>2, <2>3, SameSettled DEF AllSettled
<1> QED
  BY <1>9, <1>10 DEF AllSettled, mid, f

(* Cancelling an open workflow ends every task that has not ended. *)
LEMMA CancelSettled ==
  ASSUME NEW st, Sound(st), AllSettled(st), NEW f \in Workflow, st.wf[f] \in Open
  PROVE  AllSettled(Cancel(st, f))
<1> DEFINE new == Cancel(st, f)
<1>1. st \in Store /\ Typed(st)
  BY DEF Sound, Typed
<1>2. /\ new.wf = [st.wf EXCEPT ![f] = "CANCELLED"]
      /\ new.rt = [t \in Task |-> IF WfOf[t] = f THEN CancelledTask(st, f, t)
                                                 ELSE st.rt[t]]
  BY <1>1, CancelFields
<1> HIDE DEF new
<1>3. \A r \in Runtime : ClearLease(r).state = r.state
  BY DEF ClearLease, Runtime
<1>4. \A t \in TasksOf(f) :
        new.rt[t].state = IF st.rt[t].state \in Final THEN st.rt[t].state
                                                      ELSE "CANCELLED"
  <2> SUFFICES ASSUME NEW t \in TasksOf(f)
               PROVE  new.rt[t].state = IF st.rt[t].state \in Final
                                        THEN st.rt[t].state ELSE "CANCELLED"
    OBVIOUS
  <2>1. t \in Task /\ WfOf[t] = f
    BY DEF TasksOf
  <2>2. st.rt[t] \in Runtime
    BY <1>1, <2>1 DEF Store
  <2>3. new.rt[t].state = CancelTask(st.rt[t]).state
    BY <1>2, <1>3, <2>1, <2>2, CancelTaskEnds DEF CancelledTask
  <2> QED
    BY <2>2, <2>3, CancelTaskEnds
<1>5. new.wf[f] = "CANCELLED"
  BY <1>1, <1>2 DEF Store
<1>6. Settled(new, f)
  <2>1. Quiet(new, f)
    BY <1>4 DEF Quiet, Final
  <2>2. PICK t \in TasksOf(f) : st.rt[t].state \in Active
    BY DEF AllSettled, Settled, Moving
  <2>3. new.rt[t].state # "SUCCEEDED"
    BY <1>4, <2>2 DEF Active, Final
  <2>4. Judged(new, f)
    BY <1>5, <2>3 DEF Judged
  <2>5. Grounded(new, f) /\ Moving(new, f)
    BY <1>5 DEF Grounded, Moving, Open
  <2> QED
    BY <2>1, <2>4, <2>5 DEF Settled
<1>7. ASSUME NEW g \in Workflow, g # f PROVE Settled(new, g)
  <2>1. new.wf[g] = st.wf[g]
    BY <1>1, <1>2, <1>7 DEF Store
  <2>2. \A t \in TasksOf(g) : new.rt[t] = st.rt[t]
    BY <1>2, <1>7 DEF TasksOf
  <2> QED
    BY <2>1, <2>2, SameSettled DEF AllSettled
<1> QED
  BY <1>6, <1>7 DEF AllSettled, new

(* A workflow that is submitted starts with a pass over tasks that all wait. *)
LEMMA CreateSettled ==
  ASSUME NEW st, Sound(st), AllSettled(st), NEW f \in Workflow, st.wf[f] = "ABSENT"
  PROVE  AllSettled(Recompute(Opened(st, f), {f}))
<1> DEFINE mid == Opened(st, f)
<1>1. st \in Store /\ Typed(st)
  BY DEF Sound, Typed
<1>2. /\ Typed(mid)
      /\ mid.wf = [st.wf EXCEPT ![f] = "PENDING"]
      /\ mid.rt = [t \in Task |-> IF WfOf[t] = f THEN NewRuntime ELSE st.rt[t]]
  BY <1>1, OpenedFields
<1> HIDE DEF mid
<1>3. mid.wf[f] \in Open /\ \A g \in Workflow : g # f => mid.wf[g] = st.wf[g]
  BY <1>1, <1>2 DEF Store, Open
<1>4. Grounded(mid, f)
  BY <1>2 DEF Grounded, TasksOf, NewRuntime
<1>5. Settled(Recompute(mid, {f}), f)
  BY <1>2, <1>3, <1>4, RecomputeSettles
<1>6. ASSUME NEW g \in Workflow, g # f PROVE Settled(Recompute(mid, {f}), g)
  <2>1. \A u \in TasksOf(g) : u \in Task /\ WfOf[u] = g
    BY DEF TasksOf
  <2>2. \A u \in TasksOf(g) : Recompute(mid, {f}).rt[u] = st.rt[u]
    BY <1>2, <1>6, <2>1, RecomputeFields DEF Typed
  <2>3. Recompute(mid, {f}).wf[g] = st.wf[g]
    BY <1>2, <1>3, <1>6, RecomputeFields DEF Typed
  <2> QED
    BY <2>2, <2>3, SameSettled DEF AllSettled
<1> QED
  BY <1>5, <1>6 DEF AllSettled, mid

-----------------------------------------------------------------------------
(* The inductive invariant: the store is sound, and every workflow settled. *)
OutcomeInvariant == Invariant /\ AllSettled(store)

LEMMA InitSettled == Init => AllSettled(store)
<1> SUFFICES ASSUME Init, NEW f \in Workflow PROVE Settled(store, f)
  BY DEF AllSettled
<1>1. store.wf[f] = "ABSENT"
  BY DEF Init
<1>2. TasksOf(f) # {} /\ \A t \in TasksOf(f) : store.rt[t].state = "PENDING"
  BY TasksClosed DEF Init, NewRuntime, TasksOf
<1> QED
  BY <1>1, <1>2 DEF Settled, Quiet, Judged, Grounded, Moving, Open, Final

(* Calls with a token: none but a completion ends anything. *)
LEMMA TouchOverdueSettled ==
  ASSUME OutcomeInvariant, NEW l \in store.leases, TouchOverdue(l)
  PROVE  AllSettled(store')
<1>1. {l} \in SUBSET store.leases /\ store' = Expire(store, {l})
  BY DEF TouchOverdue
<1>2. Stirred(store, store')
  BY <1>1, ExpireStirs DEF OutcomeInvariant, Invariant
<1> QED
  BY <1>2, StirredSettled DEF OutcomeInvariant

LEMMA LeaseCallsSettled ==
  ASSUME OutcomeInvariant, NEW l \in store.leases,
         \/ StartLease(l)
         \/ RenewLease(l)
         \/ \E size \in Chunk : AppendLog(l, size)
         \/ \E ok \in BOOLEAN : CompleteLease(l, ok)
  PROVE  AllSettled(store')
<1> DEFINE t == l.task
           r == store.rt[t]
<1>1. /\ Sound(store) /\ Typed(store) /\ store \in Store
      /\ AllSettled(store)
      /\ t \in Task /\ r \in Runtime /\ r.state \in Held
  BY DEF OutcomeInvariant, Invariant, Sound, Typed, Store, Lease, Matches, Describes
<1>2. r.state \in Active
  BY <1>1 DEF Held, Active
<1> HIDE DEF t, r
<1>3. CASE TouchOverdue(l)
  BY <1>3, TouchOverdueSettled
<1>4. CASE StartLease(l) /\ ~ TouchOverdue(l)
  <2>1. r.state = "LEASED" /\ store' = [store EXCEPT !.rt[t] = Begun(r)]
    BY <1>4 DEF StartLease, t, r
  <2>2. TransitionTask(r, "RUNNING") = [r EXCEPT !.state = "RUNNING"]
    BY <2>1 DEF TransitionTask, ValidTaskTransitions
  <2>3. Begun(r) \in Runtime /\ Begun(r).state \in Active
    BY <1>1, <2>1, <2>2 DEF Begun, Runtime, TaskState, Active
  <2> DEFINE q == Begun(r)
  <2> HIDE DEF q
  <2>4. store'.wf = store.wf /\ store'.rt = [store.rt EXCEPT ![t] = q]
    <3>1. q \in Runtime /\ store' = [store EXCEPT !.rt[t] = q]
      BY <2>1, <2>3 DEF q
    <3> QED
      BY <1>1, <3>1, UpdateFields
  <2>5. q.state \in Active
    BY <2>3 DEF q
  <2>6. Stirred(store, store')
    BY <1>1, <1>2, <2>4, <2>5, OneTaskStirs DEF r
  <2> QED
    BY <1>1, <2>6, StirredSettled
<1>5. CASE RenewLease(l) /\ ~ TouchOverdue(l)
  <2>1. store' = Renew(store, l)
    BY <1>5 DEF RenewLease
  <2> DEFINE q == [r EXCEPT !.until = LeaseDuration]
  <2>2. store'.wf = store.wf /\ store'.rt = [store.rt EXCEPT ![t] = q]
    BY <1>1, <2>1, RenewFields DEF t, r
  <2>3. q.state = r.state
    BY <1>1 DEF Runtime
  <2> HIDE DEF q
  <2>4. Stirred(store, store')
    BY <1>1, <1>2, <2>2, <2>3, OneTaskStirs DEF r
  <2> QED
    BY <1>1, <2>4, StirredSettled
<1>6. ASSUME NEW size \in Chunk, AppendLog(l, size), ~ TouchOverdue(l)
      PROVE  AllSettled(store')
  <2> DEFINE q == [r EXCEPT !.output = r.output + size]
  <2>1. store' = [store EXCEPT !.rt[t] = q]
    BY <1>6 DEF AppendLog, t, r
  <2>2. q \in Runtime /\ q.state = r.state
    <3>1. size \in Nat /\ r.output \in Nat
      BY <1>1, PolicyAssumption DEF Runtime
    <3>2. r.output + size \in Nat
      BY <3>1
    <3> DEFINE m == r.output + size
    <3> HIDE DEF m
    <3>3. m \in Nat /\ q = [r EXCEPT !.output = m]
      BY <3>2 DEF m
    <3> HIDE DEF q
    <3> QED
      BY <1>1, <3>3 DEF Runtime
  <2> HIDE DEF q
  <2>3. store'.wf = store.wf /\ store'.rt = [store.rt EXCEPT ![t] = q]
    BY <1>1, <2>1, <2>2, UpdateFields
  <2>4. Stirred(store, store')
    BY <1>1, <1>2, <2>2, <2>3, OneTaskStirs DEF r
  <2> QED
    BY <1>1, <2>4, StirredSettled
<1>7. ASSUME NEW ok \in BOOLEAN, CompleteLease(l, ok), ~ TouchOverdue(l)
      PROVE  AllSettled(store')
  <2>1. store' = Recompute(Close(store, l, ok), {WfOf[l.task]})
    BY <1>7 DEF CompleteLease
  <2> QED
    BY <1>1, <2>1, CloseSettled
<1> QED
  BY <1>3, <1>4, <1>5, <1>6, <1>7

LEMMA WorkerCallsSettled ==
  ASSUME OutcomeInvariant, NEW w \in Worker,
         RegisterWorker(w) \/ HeartbeatWorker(w) \/ LeaseNext(w)
  PROVE  AllSettled(store')
<1>1. Sound(store) /\ Typed(store) /\ AllSettled(store)
  BY DEF OutcomeInvariant, Invariant, Sound
<1>2. CASE RegisterWorker(w)
  <2>1. store'.wf = store.wf /\ store'.rt = store.rt
    BY <1>1, <1>2 DEF RegisterWorker, Typed, Store
  <2>2. Stirred(store, store')
    BY <2>1 DEF Stirred
  <2> QED
    BY <1>1, <2>2, StirredSettled
<1>3. CASE HeartbeatWorker(w)
  BY <1>1, <1>3 DEF HeartbeatWorker
<1>4. CASE LeaseNextEmpty(w)
  BY <1>1, <1>4, SweptSettled DEF LeaseNextEmpty
<1>5. ASSUME NEW i \in DOMAIN arrivals, NEW n \in DOMAIN Order[arrivals[i]],
             LeaseNextGrants(w, i, n)
      PROVE  AllSettled(store')
  <2> DEFINE st == Recompute(Swept(store), Visited(i))
             f == arrivals[i]
             t == Order[f][n]
  <2>1. f \in Workflow
    BY DEF OutcomeInvariant, Invariant, TypeOK
  <2>2. t \in Task
    <3>1. Order[f] \in Seq(TasksOf(f)) /\ n \in DOMAIN Order[f]
      BY <2>1, GraphAssumption
    <3>2. t \in TasksOf(f)
      BY <3>1
    <3> QED
      BY <3>2 DEF TasksOf
  <2>3. Typed(st) /\ AllSettled(st)
    BY <1>1, SweptSound, SweptSettled DEF Sound
  <2>4. FreshToken \in Nat \ {0}
    BY DEF OutcomeInvariant, Invariant, TypeOK, FreshToken
  <2>5. st.rt[t].state = "READY" /\ store' = Grant(st, w, t, FreshToken)
    BY <1>5 DEF LeaseNextGrants, Offer
  <2> HIDE DEF st, t
  <2> DEFINE q == GrantedTask(st.rt[t], w, FreshToken)
  <2>6. store'.wf = st.wf /\ store'.rt = [st.rt EXCEPT ![t] = q]
    BY <2>2, <2>3, <2>4, <2>5, GrantFields
  <2>7. st.rt[t] \in Runtime
    BY <2>2, <2>3 DEF Typed, Store
  <2>8. q.state = "LEASED"
    BY <2>7 DEF GrantedTask, Runtime
  <2> HIDE DEF q
  <2>9. Stirred(st, store')
    BY <2>2, <2>3, <2>5, <2>6, <2>8, OneTaskStirs DEF Active
  <2> QED
    BY <2>3, <2>9, StirredSettled
<1> QED
  BY <1>2, <1>3, <1>4, <1>5 DEF LeaseNext

LEMMA NextSettled == OutcomeInvariant /\ [Next]_vars => AllSettled(store')
<1> SUFFICES ASSUME OutcomeInvariant, [Next]_vars PROVE AllSettled(store')
  OBVIOUS
<1>1. Sound(store) /\ Typed(store) /\ AllSettled(store)
  BY DEF OutcomeInvariant, Invariant, Sound
<1>2. ASSUME NEW f \in Workflow, NEW key \in Key \cup {NoKey}, CreateWorkflow(f, key)
      PROVE  AllSettled(store')
  <2>1. store' = Recompute(Opened(store, f), {f}) /\ store.wf[f] = "ABSENT"
    BY <1>2 DEF CreateWorkflow, Opened
  <2> QED
    BY <1>1, <2>1, CreateSettled
<1>3. ASSUME NEW f \in Workflow, CancelWorkflow(f) PROVE AllSettled(store')
  BY <1>1, <1>3, CancelSettled DEF CancelWorkflow
<1>4. CASE WorkerStep
  BY <1>4, WorkerCallsSettled, LeaseCallsSettled DEF WorkerStep
<1>5. CASE Sweep
  BY <1>1, <1>5, SweptSettled DEF Sweep
<1>6. CASE Tick
  <2>1. store' = Later(store)
    BY <1>6 DEF Tick, Later, Aged, AgedTask
  <2>2. \A t \in Task : store.rt[t] \in Runtime
    BY <1>1 DEF Typed, Store
  <2>3. \A r \in Runtime : AgedTask(r).state = r.state
    BY DEF AgedTask, Runtime
  <2>4. /\ store'.wf = store.wf
        /\ store'.rt = [t \in Task |-> AgedTask(store.rt[t])]
    BY <1>1, <2>1, LaterFields
  <2>5. \A t \in Task : store'.rt[t].state = store.rt[t].state
    BY <2>2, <2>3, <2>4
  <2>6. Stirred(store, store')
    BY <2>4, <2>5 DEF Stirred
  <2> QED
    BY <1>1, <2>6, StirredSettled
<1>7. CASE UNCHANGED vars
  BY <1>1, <1>7 DEF vars
<1> QED
  BY <1>2, <1>3, <1>4, <1>5, <1>6, <1>7 DEF Next, ClientStep

(* For every graph, every number of workers and every schedule, each workflow
   is settled between any two methods. *)
THEOREM OutcomeInvariantHolds == Spec => []OutcomeInvariant
<1>1. Init => OutcomeInvariant
  BY InitInvariant, InitSettled DEF OutcomeInvariant
<1>2. OutcomeInvariant /\ [Next]_vars => OutcomeInvariant'
  BY NextInvariant, NextSettled DEF OutcomeInvariant, AllSettled, Settled,
     Quiet, Judged, Grounded, Moving, Waiting, Waits, TasksOf
<1> QED
  BY <1>1, <1>2, PTL DEF Spec

(* A workflow that has ended has no unfinished task and no lease. *)
THEOREM EndedIsQuiet == Spec => []TerminalIsQuiet
<1>1. OutcomeInvariant => TerminalIsQuiet
  <2> SUFFICES ASSUME OutcomeInvariant, NEW f \in Workflow, store.wf[f] \in Final
               PROVE  /\ \A t \in TasksOf(f) : store.rt[t].state \in Final
                      /\ LeasesOf(store, f) = {}
    BY DEF TerminalIsQuiet
  <2>1. \A t \in TasksOf(f) : store.rt[t].state \in Final
    BY DEF OutcomeInvariant, AllSettled, Settled, Quiet
  <2>2. \A l \in store.leases : l.task \in Task /\ store.rt[l.task].state \in Held
    BY DEF OutcomeInvariant, Invariant, Sound, Typed, Store, Lease, Matches, Describes
  <2>3. LeasesOf(store, f) = {}
    BY <2>1, <2>2 DEF LeasesOf, TasksOf, Held, Final
  <2> QED
    BY <2>1, <2>3
<1> QED
  BY <1>1, OutcomeInvariantHolds, PTL

(* The verdicts and the cancellations follow from what became of the tasks. *)
THEOREM VerdictsJustified == Spec => []OutcomeJustified
<1>1. OutcomeInvariant => OutcomeJustified
  <2> SUFFICES ASSUME OutcomeInvariant PROVE OutcomeJustified
    OBVIOUS
  <2>1. \A f \in Workflow : Judged(store, f) /\ Grounded(store, f)
    BY DEF OutcomeInvariant, AllSettled, Settled
  <2>2. \A t \in Task : WfOf[t] \in Workflow /\ t \in TasksOf(WfOf[t])
    BY GraphAssumption DEF TasksOf
  <2> QED
    BY <2>1, <2>2 DEF OutcomeJustified, Judged, Grounded
<1> QED
  BY <1>1, OutcomeInvariantHolds, PTL

(* On every acyclic graph an open workflow has a task that can move, and none
   of its tasks waits in vain. *)
THEOREM WorkflowsCanMove == Spec => []NeverStuck
<1>1. OutcomeInvariant => NeverStuck
  BY DEF OutcomeInvariant, AllSettled, Settled, Moving, Waits, NeverStuck
<1> QED
  BY <1>1, OutcomeInvariantHolds, PTL

-----------------------------------------------------------------------------
(* Recompute's loop computes what Coordinator says of it: for any graph, in any
   topological order, from any runtimes.  After n turns the loop's variables
   are what the closed form makes of the first n tasks, because a turn finds
   the dependencies of its task already as the closed form leaves them. *)

(* The tasks the loop has passed after n turns. *)
Seen(f, n) == {Order[f][i] : i \in 1..n}

(* The loop's variables after n turns, by the closed form. *)
SeenRt(st, f, n) ==
  [t \in Task |-> IF t \in Seen(f, n) THEN RecomputeTask(st, f, t) ELSE st.rt[t]]
EndState(st, f, t) == RecomputeTask(st, f, t).state

AfterTurns(st, f, n) ==
  [rt              |-> SeenRt(st, f, n),
   allSucceeded    |-> \A t \in Seen(f, n) : EndState(st, f, t) = "SUCCEEDED",
   anyActive       |-> \E t \in Seen(f, n) : EndState(st, f, t) \in Active,
   terminalFailure |-> \E t \in Seen(f, n) : EndState(st, f, t) = "FAILED"]

-----------------------------------------------------------------------------
(* The least of some natural numbers, on which the induction rests. *)
LEMMA LeastNumber ==
  ASSUME NEW S \in SUBSET Nat, S # {}
  PROVE  \E n \in S : \A m \in S : n <= m
<1>1. IsWellFoundedOn(OpToRel(<, Nat), Nat)
  BY NatLessThanWellFounded
<1>2. PICK n \in S : \A m \in S : ~ (<<m, n>> \in OpToRel(<, Nat))
  BY <1>1, WFMin
<1>3. \A m \in S : ~ (m < n)
  BY <1>2 DEF OpToRel
<1> QED
  BY <1>3

(* The order is a sequence of the workflow's tasks, all of them. *)
LEMMA OrderLists ==
  ASSUME NEW f \in Workflow
  PROVE  /\ Len(Order[f]) \in Nat
         /\ DOMAIN Order[f] = 1..Len(Order[f])
         /\ \A i \in 1..Len(Order[f]) : Order[f][i] \in TasksOf(f)
         /\ Seen(f, Len(Order[f])) = TasksOf(f)
<1>1. Order[f] \in Seq(TasksOf(f))
  BY GraphAssumption
<1>2. /\ Len(Order[f]) \in Nat
      /\ DOMAIN Order[f] = 1..Len(Order[f])
      /\ \A i \in 1..Len(Order[f]) : Order[f][i] \in TasksOf(f)
  BY <1>1
<1>3. \A t \in TasksOf(f) : \E i \in DOMAIN Order[f] : Order[f][i] = t
  BY GraphAssumption
<1> QED
  BY <1>2, <1>3 DEF Seen

(* A turn finds its task untouched and its dependencies passed. *)
LEMMA TurnInOrder ==
  ASSUME NEW f \in Workflow, NEW n \in 1..Len(Order[f])
  PROVE  /\ Order[f][n] \in TasksOf(f)
         /\ Order[f][n] \notin Seen(f, n - 1)
         /\ Deps[Order[f][n]] \in SUBSET Seen(f, n - 1)
         /\ Seen(f, n) = Seen(f, n - 1) \cup {Order[f][n]}
         /\ Seen(f, n) \in SUBSET Task
<1> DEFINE L == Len(Order[f])
<1>1. /\ L \in Nat
      /\ DOMAIN Order[f] = 1..L
      /\ \A i \in 1..L : Order[f][i] \in TasksOf(f)
  BY OrderLists
<1>2. n \in Int /\ 1..n = (1..(n - 1)) \cup {n} /\ n \notin 1..(n - 1)
  BY <1>1
<1>3. \A i \in 1..(n - 1) : i \in 1..L /\ i < n
  BY <1>1
<1>4. Order[f][n] \notin Seen(f, n - 1)
  BY <1>1, <1>2, <1>3, OrderAssumption DEF Seen
<1>5. ASSUME NEW d \in Deps[Order[f][n]] PROVE d \in Seen(f, n - 1)
  <2>1. d \in TasksOf(f)
    BY <1>1, TasksClosed
  <2>2. PICK i \in DOMAIN Order[f] : Order[f][i] = d
    BY <2>1, GraphAssumption
  <2>3. i \in 1..L /\ i < n
    BY <1>1, <2>2, OrderAssumption
  <2>4. i \in 1..(n - 1)
    BY <1>1, <2>3
  <2> QED
    BY <2>2, <2>4 DEF Seen
<1>6. Seen(f, n) = Seen(f, n - 1) \cup {Order[f][n]}
  BY <1>2 DEF Seen
<1>7. Seen(f, n) \in SUBSET Task
  <2>1. \A i \in 1..n : i \in 1..L
    BY <1>1
  <2> QED
    BY <1>1, <2>1 DEF Seen, TasksOf
<1> QED
  BY <1>1, <1>4, <1>5, <1>6, <1>7

(* One turn does to its task what the closed form does. *)
LEMMA PassTaskClosed ==
  ASSUME NEW st \in Store, NEW f \in Workflow, NEW t \in TasksOf(f), NEW rt,
         rt[t] = st.rt[t],
         \A d \in Deps[t] : rt[d] = RecomputeTask(st, f, d)
  PROVE  PassTask(rt, t) = RecomputeTask(st, f, t)
<1> DEFINE r == st.rt[t]
           S == Survivors(st, f)
<1>1. /\ t \in Task
      /\ \A d \in Deps[t] : d \in TasksOf(f) /\ d \in Task
  BY TasksClosed
<1>2. \A d \in Deps[t] :
        /\ st.rt[d].state = "PENDING" /\ d \notin S => rt[d].state = "CANCELLED"
        /\ st.rt[d].state = "PENDING" /\ d \in S => rt[d].state \in {"READY", "PENDING"}
        /\ st.rt[d].state = "RETRY_WAIT" => rt[d].state \in {"RETRY_WAIT", "READY"}
        /\ st.rt[d].state \notin {"PENDING", "RETRY_WAIT"} => rt[d].state = st.rt[d].state
  BY <1>1, RecomputeStates
<1>3. (\A d \in Deps[t] : rt[d].state = "SUCCEEDED") <=> DepsDone(st, t)
  BY <1>2 DEF DepsDone
<1>4. CASE r.state = "PENDING"
  <2>1. t \in Waiting(st, f)
    BY <1>4 DEF Waiting
  <2>2. (\E d \in Deps[t] : rt[d].state \in Unsuccessful) <=> t \notin S
    <3>1. ASSUME t \in S, NEW d \in Deps[t] PROVE rt[d].state \notin Unsuccessful
      <4>1. /\ st.rt[d].state \notin Unsuccessful
            /\ st.rt[d].state = "PENDING" => d \in S
        BY <3>1, SurvivorsWait
      <4> QED
        BY <1>2, <4>1 DEF Unsuccessful
    <3>2. ASSUME t \notin S PROVE \E d \in Deps[t] : rt[d].state \in Unsuccessful
      <4>1. PICK d \in Deps[t] : \/ st.rt[d].state \in Unsuccessful
                                 \/ d \in Waiting(st, f) \ S
        BY <2>1, <3>2, SurvivorsWait
      <4>2. d \in Waiting(st, f) => st.rt[d].state = "PENDING"
        BY DEF Waiting
      <4> QED
        BY <1>2, <4>1, <4>2 DEF Unsuccessful
    <3> QED
      BY <3>1, <3>2
  <2> HIDE DEF S
  <2>3. PassTask(rt, t) = IF \E d \in Deps[t] : rt[d].state \in Unsuccessful
                          THEN TransitionTask(r, "CANCELLED")
                          ELSE IF \A d \in Deps[t] : rt[d].state = "SUCCEEDED"
                          THEN TransitionTask(r, "READY") ELSE r
    BY <1>4 DEF PassTask
  <2>4. RecomputeTask(st, f, t) = IF t \notin S THEN TransitionTask(r, "CANCELLED")
                                  ELSE IF DepsDone(st, t)
                                  THEN TransitionTask(r, "READY") ELSE r
    BY <1>4 DEF RecomputeTask, S
  <2> QED
    BY <1>3, <2>2, <2>3, <2>4
<1>5. CASE r.state = "RETRY_WAIT"
  BY <1>5 DEF PassTask, RecomputeTask
<1>6. CASE r.state \notin {"PENDING", "RETRY_WAIT"}
  BY <1>6 DEF PassTask, RecomputeTask
<1> QED
  BY <1>4, <1>5, <1>6

(* One turn takes the loop from the closed form to the closed form. *)
LEMMA TurnClosed ==
  ASSUME NEW st \in Store, NEW f \in Workflow, NEW n \in 1..Len(Order[f])
  PROVE  PassTurn(AfterTurns(st, f, n - 1), Order[f][n]) = AfterTurns(st, f, n)
<1> DEFINE t == Order[f][n]
           rt == SeenRt(st, f, n - 1)
           q == RecomputeTask(st, f, t)
           A == Seen(f, n - 1)
           B == Seen(f, n)
<1>1. /\ t \in TasksOf(f)
      /\ t \in Task
      /\ t \notin A
      /\ Deps[t] \in SUBSET A
      /\ B = A \cup {t}
      /\ B \in SUBSET Task
  BY TurnInOrder, TasksClosed
<1>2. /\ rt[t] = st.rt[t]
      /\ \A d \in Deps[t] : rt[d] = RecomputeTask(st, f, d)
  BY <1>1 DEF SeenRt
<1>3. PassTask(rt, t) = q
  BY <1>1, <1>2, PassTaskClosed
<1>4. [rt EXCEPT ![t] = q] = SeenRt(st, f, n)
  BY <1>1 DEF SeenRt
<1>5. q.state = EndState(st, f, t)
  BY DEF EndState
<1>6. AfterTurns(st, f, n - 1).rt = rt
  BY DEF AfterTurns
<1> DEFINE all == AfterTurns(st, f, n - 1).allSucceeded
           any == AfterTurns(st, f, n - 1).anyActive
           bad == AfterTurns(st, f, n - 1).terminalFailure
<1>7. /\ all = (\A u \in A : EndState(st, f, u) = "SUCCEEDED")
      /\ any = (\E u \in A : EndState(st, f, u) \in Active)
      /\ bad = (\E u \in A : EndState(st, f, u) = "FAILED")
  BY DEF AfterTurns
<1>8. PassTurn(AfterTurns(st, f, n - 1), t)
        = [rt              |-> [rt EXCEPT ![t] = q],
           allSucceeded    |-> all /\ q.state = "SUCCEEDED",
           anyActive       |-> any \/ q.state \in Active,
           terminalFailure |-> bad \/ q.state = "FAILED"]
  BY <1>3, <1>6 DEF PassTurn
<1>9. AfterTurns(st, f, n)
        = [rt              |-> SeenRt(st, f, n),
           allSucceeded    |-> \A u \in B : EndState(st, f, u) = "SUCCEEDED",
           anyActive       |-> \E u \in B : EndState(st, f, u) \in Active,
           terminalFailure |-> \E u \in B : EndState(st, f, u) = "FAILED"]
  BY DEF AfterTurns
<1> HIDE DEF t, rt, q, A, B, all, any, bad
<1>10. (all /\ q.state = "SUCCEEDED") = (\A u \in B : EndState(st, f, u) = "SUCCEEDED")
  BY <1>1, <1>5, <1>7
<1>11. (any \/ q.state \in Active) = (\E u \in B : EndState(st, f, u) \in Active)
  BY <1>1, <1>5, <1>7
<1>12. (bad \/ q.state = "FAILED") = (\E u \in B : EndState(st, f, u) = "FAILED")
  BY <1>1, <1>5, <1>7
<1> QED
  BY <1>4, <1>8, <1>9, <1>10, <1>11, <1>12 DEF t

-----------------------------------------------------------------------------
(* The whole loop. *)
TurnOf(st, f, g) ==
  [n \in 0..Len(Order[f]) |->
     IF n = 0
     THEN [rt |-> st.rt, allSucceeded |-> TRUE, anyActive |-> FALSE,
           terminalFailure |-> FALSE]
     ELSE PassTurn(g[n - 1], Order[f][n])]

LEMMA NoTurns ==
  ASSUME NEW st \in Store, NEW f \in Workflow
  PROVE  AfterTurns(st, f, 0) = [rt |-> st.rt, allSucceeded |-> TRUE,
                                 anyActive |-> FALSE, terminalFailure |-> FALSE]
<1>1. Seen(f, 0) = {}
  BY DEF Seen
<1>2. SeenRt(st, f, 0) = st.rt
  <2>1. st.rt = [t \in Task |-> st.rt[t]]
    BY DEF Store
  <2> QED
    BY <1>1, <2>1 DEF SeenRt
<1>3. /\ (\A t \in Seen(f, 0) : EndState(st, f, t) = "SUCCEEDED") = TRUE
      /\ (\E t \in Seen(f, 0) : EndState(st, f, t) \in Active) = FALSE
      /\ (\E t \in Seen(f, 0) : EndState(st, f, t) = "FAILED") = FALSE
  BY <1>1
<1> QED
  BY <1>2, <1>3 DEF AfterTurns

(* The closed form solves the loop's recursion, so the recursion has a
   solution and Turns is one. *)
LEMMA TurnsUnfold ==
  ASSUME NEW st \in Store, NEW f \in Workflow
  PROVE  Turns(st, f) = TurnOf(st, f, Turns(st, f))
<1> DEFINE g == [n \in 0..Len(Order[f]) |-> AfterTurns(st, f, n)]
<1>1. Len(Order[f]) \in Nat
  BY OrderLists
<1>2. AfterTurns(st, f, 0) = [rt |-> st.rt, allSucceeded |-> TRUE,
                              anyActive |-> FALSE, terminalFailure |-> FALSE]
  BY NoTurns
<1>3. \A n \in 1..Len(Order[f]) :
        PassTurn(AfterTurns(st, f, n - 1), Order[f][n]) = AfterTurns(st, f, n)
  BY TurnClosed
<1>4. \A n \in 1..Len(Order[f]) : g[n - 1] = AfterTurns(st, f, n - 1)
  BY <1>1
<1>5. g = TurnOf(st, f, g)
  <2>1. ASSUME NEW n \in 0..Len(Order[f])
        PROVE  AfterTurns(st, f, n)
                 = IF n = 0
                   THEN [rt |-> st.rt, allSucceeded |-> TRUE,
                         anyActive |-> FALSE, terminalFailure |-> FALSE]
                   ELSE PassTurn(g[n - 1], Order[f][n])
    <3>1. CASE n = 0
      BY <1>2, <3>1
    <3>2. CASE n # 0
      <4>1. n \in 1..Len(Order[f])
        BY <1>1, <3>2
      <4> HIDE DEF g
      <4> QED
        BY <1>3, <1>4, <3>2, <4>1
    <3> QED
      BY <3>1, <3>2
  <2> QED
    BY <2>1 DEF TurnOf
<1> HIDE DEF g
<1>6. Turns(st, f) = CHOOSE h : h = TurnOf(st, f, h)
  BY DEF Turns, TurnOf
<1> QED
  BY <1>5, <1>6

(* After n turns the loop's variables are what the closed form makes of the
   first n tasks. *)
LEMMA TurnsClosed ==
  ASSUME NEW st \in Store, NEW f \in Workflow
  PROVE  \A n \in 0..Len(Order[f]) : Turns(st, f)[n] = AfterTurns(st, f, n)
<1> DEFINE L == Len(Order[f])
           Bad == {n \in 0..L : Turns(st, f)[n] # AfterTurns(st, f, n)}
<1> SUFFICES ASSUME Bad # {} PROVE FALSE
  OBVIOUS
<1>1. L \in Nat
  BY OrderLists
<1>2. Turns(st, f) = TurnOf(st, f, Turns(st, f))
  BY TurnsUnfold
<1>3. Turns(st, f)[0] = [rt |-> st.rt, allSucceeded |-> TRUE,
                         anyActive |-> FALSE, terminalFailure |-> FALSE]
  BY <1>1, <1>2 DEF TurnOf
<1>4. ASSUME NEW n \in 1..L
      PROVE  Turns(st, f)[n] = PassTurn(Turns(st, f)[n - 1], Order[f][n])
  <2> DEFINE g == Turns(st, f)
  <2>1. g = TurnOf(st, f, g)
    BY <1>2
  <2> HIDE DEF g
  <2>2. n \in 0..L /\ n # 0
    BY <1>1
  <2>3. TurnOf(st, f, g)[n] = PassTurn(g[n - 1], Order[f][n])
    BY <2>2 DEF TurnOf
  <2>4. g[n] = PassTurn(g[n - 1], Order[f][n])
    BY <2>1, <2>3
  <2> QED
    BY <2>4 DEF g
<1>5. Bad \in SUBSET Nat
  BY <1>1
<1>6. PICK n \in Bad : \A m \in Bad : n <= m
  BY <1>5, LeastNumber
<1>7. CASE n = 0
  BY <1>3, <1>6, <1>7, NoTurns
<1>8. CASE n # 0
  <2>1. n \in 1..L /\ n - 1 \in 0..L /\ ~ (n <= n - 1)
    BY <1>1, <1>6, <1>8
  <2>2. n - 1 \notin Bad
    BY <1>6, <2>1
  <2>3. Turns(st, f)[n - 1] = AfterTurns(st, f, n - 1)
    BY <2>1, <2>2
  <2>4. Turns(st, f)[n] = AfterTurns(st, f, n)
    BY <1>4, <2>1, <2>3, TurnClosed
  <2> QED
    BY <1>6, <2>4
<1> QED
  BY <1>7, <1>8

-----------------------------------------------------------------------------
(* Two stores with the same fields are the same. *)
LEMMA SameStore ==
  ASSUME NEW a \in Store, NEW b \in Store,
         a.leases = b.leases, a.active = b.active,
         \A t \in Task : a.rt[t] = b.rt[t],
         \A f \in Workflow : a.wf[f] = b.wf[f]
  PROVE  a = b
<1>1. a.rt = b.rt /\ a.wf = b.wf
  BY DEF Store
<1> QED
  BY <1>1 DEF Store

(* The loop's runtimes and verdict, once it has passed every task. *)
LEMMA PassClosed ==
  ASSUME NEW st \in Store, NEW f \in Workflow
  PROVE  LET end == Pass(st, f) IN
         /\ end.rt = [t \in Task |-> IF t \in TasksOf(f) THEN RecomputeTask(st, f, t)
                                                         ELSE st.rt[t]]
         /\ (CASE end.allSucceeded -> "SUCCEEDED"
               [] end.terminalFailure /\ ~ end.anyActive -> "FAILED"
               [] OTHER -> "RUNNING") = Outcome(end.rt, f)
<1> DEFINE end == Pass(st, f)
           T == TasksOf(f)
           rt == [t \in Task |-> IF t \in T THEN RecomputeTask(st, f, t) ELSE st.rt[t]]
<1>1. Len(Order[f]) \in 0..Len(Order[f]) /\ Seen(f, Len(Order[f])) = T
  BY OrderLists
<1>2. end = AfterTurns(st, f, Len(Order[f]))
  BY <1>1, TurnsClosed DEF Pass
<1>3. T \in SUBSET Task
  BY TasksClosed
<1> HIDE DEF end
<1>4. /\ end.rt = rt
      /\ end.allSucceeded = (\A t \in T : EndState(st, f, t) = "SUCCEEDED")
      /\ end.anyActive = (\E t \in T : EndState(st, f, t) \in Active)
      /\ end.terminalFailure = (\E t \in T : EndState(st, f, t) = "FAILED")
  BY <1>1, <1>2 DEF AfterTurns, SeenRt
<1>5. \A t \in T : rt[t].state = EndState(st, f, t)
  BY <1>3 DEF EndState
<1> HIDE DEF rt
<1>6. Outcome(rt, f) = IF \A t \in T : EndState(st, f, t) = "SUCCEEDED" THEN "SUCCEEDED"
                       ELSE IF /\ \E t \in T : EndState(st, f, t) = "FAILED"
                               /\ ~ \E t \in T : EndState(st, f, t) \in Active
                       THEN "FAILED" ELSE "RUNNING"
  BY <1>5 DEF Outcome
<1> HIDE DEF T
<1>7. (CASE end.allSucceeded -> "SUCCEEDED"
         [] end.terminalFailure /\ ~ end.anyActive -> "FAILED"
         [] OTHER -> "RUNNING") = Outcome(rt, f)
  <2>1. CASE \A t \in T : EndState(st, f, t) = "SUCCEEDED"
    <3>1. T # {}
      BY TasksClosed DEF T
    <3>2. ~ end.terminalFailure
      BY <1>4, <2>1, <3>1
    <3> QED
      BY <1>4, <1>6, <2>1, <3>2
  <2>2. CASE ~ \A t \in T : EndState(st, f, t) = "SUCCEEDED"
    BY <1>4, <1>6, <2>2
  <2> QED
    BY <2>1, <2>2
<1> QED
  BY <1>4, <1>7 DEF end, rt, T

(* The loop of Workflow.Recompute, one task after the other with its three
   flags, computes the closed form: for every graph, every topological order
   of it and all runtimes, whether or not the coordinator reaches them. *)
THEOREM LoopIsClosedForm ==
  ASSUME NEW st \in Store, NEW f \in Workflow
  PROVE  RecomputeLoop(st, f) = Recompute(st, {f})
<1> DEFINE new == Recompute(st, {f})
           end == Pass(st, f)
           verdict == CASE end.allSucceeded -> "SUCCEEDED"
                        [] end.terminalFailure /\ ~ end.anyActive -> "FAILED"
                        [] OTHER -> "RUNNING"
<1>1. /\ new \in Store
      /\ new.leases = st.leases
      /\ new.active = st.active
      /\ \A t \in Task :
           new.rt[t] = IF WfOf[t] \in {f} /\ st.wf[WfOf[t]] \in Open
                       THEN RecomputeTask(st, WfOf[t], t) ELSE st.rt[t]
      /\ \A g \in Workflow :
           ~ (g \in {f} /\ st.wf[g] \in Open) => new.wf[g] = st.wf[g]
  BY RecomputeFields
<1>2. CASE st.wf[f] \notin Open
  <2>1. RecomputeLoop(st, f) = st
    BY <1>2 DEF RecomputeLoop
  <2> HIDE DEF new
  <2>2. new = st
    BY <1>1, <1>2, SameStore
  <2> QED
    BY <2>1, <2>2 DEF new
<1>3. CASE st.wf[f] \in Open
  <2> DEFINE rt == [t \in Task |-> IF t \in TasksOf(f) THEN RecomputeTask(st, f, t)
                                                       ELSE st.rt[t]]
  <2>1. end.rt = rt /\ verdict = Outcome(rt, f)
    BY PassClosed
  <2>2. new.wf[f] = Outcome(new.rt, f)
    BY <1>3, RecomputeVerdict
  <2>3. RecomputeLoop(st, f) = [st EXCEPT !.rt = end.rt, !.wf[f] = verdict]
    BY <1>3 DEF RecomputeLoop
  <2> HIDE DEF new, end, verdict
  <2>4. new.rt = rt
    <3>1. new.rt \in [Task -> Runtime]
      BY <1>1 DEF Store
    <3>2. \A t \in Task : (t \in TasksOf(f)) <=> WfOf[t] = f
      BY DEF TasksOf
    <3>3. \A t \in Task : new.rt[t] = rt[t]
      BY <1>1, <1>3, <3>2
    <3> QED
      BY <3>1, <3>3
  <2> HIDE DEF rt
  <2>5. verdict = new.wf[f]
    BY <2>1, <2>2, <2>4
  <2>6. RecomputeLoop(st, f) = [st EXCEPT !.rt = new.rt,
                                          !.wf = [st.wf EXCEPT ![f] = new.wf[f]]]
    BY <2>1, <2>3, <2>4, <2>5 DEF Store
  <2>7. new.wf = [st.wf EXCEPT ![f] = new.wf[f]]
    BY <1>1 DEF Store
  <2>8. new = [st EXCEPT !.rt = new.rt, !.wf = new.wf]
    BY <1>1 DEF Store
  <2> QED
    BY <2>6, <2>7, <2>8 DEF new
<1> QED
  BY <1>2, <1>3

(* One pass is enough: at the same instant a second one finds nothing to do,
   on which LeaseNext relies when it recomputes what the sweep has just
   recomputed without publishing the verdicts of the second pass. *)
THEOREM OnePassIsEnough ==
  ASSUME NEW st \in Store, NEW f \in Workflow
  PROVE  Recompute(Recompute(st, {f}), {f}) = Recompute(st, {f})
<1> DEFINE once == Recompute(st, {f})
           twice == Recompute(once, {f})
<1>1. /\ once \in Store
      /\ \A t \in TasksOf(f) : st.wf[f] \in Open =>
           once.rt[t] = RecomputeTask(st, f, t)
      /\ st.wf[f] \notin Open => once.wf[f] = st.wf[f]
  <2>1. \A t \in TasksOf(f) : t \in Task /\ WfOf[t] = f
    BY DEF TasksOf
  <2> QED
    BY <2>1, RecomputeFields
<1>2. st.wf[f] \in Open => once.wf[f] = Outcome(once.rt, f)
  BY RecomputeVerdict
<1> HIDE DEF once
<1>3. /\ twice \in Store
      /\ twice.leases = once.leases
      /\ twice.active = once.active
      /\ \A t \in Task :
           twice.rt[t] = IF WfOf[t] \in {f} /\ once.wf[WfOf[t]] \in Open
                         THEN RecomputeTask(once, WfOf[t], t) ELSE once.rt[t]
      /\ \A g \in Workflow :
           ~ (g \in {f} /\ once.wf[g] \in Open) => twice.wf[g] = once.wf[g]
  BY <1>1, RecomputeFields
<1>4. once.wf[f] \in Open => twice.wf[f] = Outcome(twice.rt, f)
  BY <1>1, RecomputeVerdict
<1> HIDE DEF twice
<1>5. CASE once.wf[f] \notin Open
  <2>1. \A t \in Task : twice.rt[t] = once.rt[t]
    BY <1>3, <1>5
  <2>2. \A g \in Workflow : twice.wf[g] = once.wf[g]
    BY <1>3, <1>5
  <2> QED
    BY <1>1, <1>3, <2>1, <2>2, SameStore DEF once, twice
<1>6. CASE once.wf[f] \in Open
  <2>1. st.wf[f] \in Open
    BY <1>1, <1>6
  <2>2. \A t \in Waiting(once, f) : t \in Survivors(once, f)
    <3> DEFINE W == Waiting(once, f)
    <3>1. \A t \in W : /\ t \in TasksOf(f)
                       /\ t \in Task
                       /\ st.rt[t].state = "PENDING"
                       /\ t \in Survivors(st, f)
      <4> SUFFICES ASSUME NEW t \in W
                   PROVE  st.rt[t].state = "PENDING" /\ t \in Survivors(st, f)
        BY TasksClosed DEF Waiting
      <4>1. t \in TasksOf(f) /\ t \in Task /\ once.rt[t].state = "PENDING"
        BY TasksClosed DEF Waiting
      <4>2. once.rt[t] = RecomputeTask(st, f, t)
        BY <1>1, <2>1, <4>1
      <4> QED
        BY <4>1, <4>2, RecomputeStates
    <3>2. ASSUME NEW t \in W, NEW d \in Deps[t]
          PROVE  /\ once.rt[d].state \notin Unsuccessful
                 /\ once.rt[d].state = "PENDING" => d \in W
      <4>1. d \in TasksOf(f) /\ d \in Task
        BY <3>1, TasksClosed
      <4>2. /\ st.rt[d].state \notin Unsuccessful
            /\ st.rt[d].state = "PENDING" => d \in Survivors(st, f)
        BY <3>1, SurvivorsWait
      <4>3. once.rt[d] = RecomputeTask(st, f, d)
        BY <1>1, <2>1, <4>1
      <4>4. once.rt[d].state \notin Unsuccessful
        BY <4>1, <4>2, <4>3, RecomputeStates DEF Unsuccessful
      <4> QED
        BY <4>1, <4>4 DEF Waiting
    <3> HIDE DEF W
    <3>3. W \in {S \in SUBSET Waiting(once, f) :
                   \A t \in S : \A d \in Deps[t] :
                     /\ once.rt[d].state \notin Unsuccessful
                     /\ once.rt[d].state = "PENDING" => d \in S}
      BY <3>2 DEF W
    <3> QED
      BY <3>3 DEF W, Survivors
  <2>3. ASSUME NEW t \in TasksOf(f) PROVE RecomputeTask(once, f, t) = once.rt[t]
    <3>1. t \in Task
      BY TasksClosed
    <3>2. once.rt[t] = RecomputeTask(st, f, t)
      BY <1>1, <2>1
    <3>3. CASE once.rt[t].state = "PENDING"
      <4>1. t \in Survivors(once, f)
        BY <2>2, <3>3 DEF Waiting
      <4>2. /\ st.rt[t].state = "PENDING"
            /\ t \in Survivors(st, f)
            /\ ~ DepsDone(st, t)
        BY <3>1, <3>2, <3>3, RecomputeStates
      <4>3. PICK d \in Deps[t] : st.rt[d].state # "SUCCEEDED"
        BY <4>2 DEF DepsDone
      <4>4. d \in TasksOf(f) /\ d \in Task
        BY <4>3, TasksClosed
      <4>5. once.rt[d] = RecomputeTask(st, f, d)
        BY <1>1, <2>1, <4>4
      <4>6. once.rt[d].state # "SUCCEEDED"
        BY <4>3, <4>4, <4>5, RecomputeStates
      <4>7. ~ DepsDone(once, t)
        BY <4>3, <4>6 DEF DepsDone
      <4> QED
        BY <3>3, <4>1, <4>7 DEF RecomputeTask
    <3>4. CASE once.rt[t].state = "RETRY_WAIT"
      <4>1. Kept(st, t, once.rt[t])
        BY <3>1, <3>2, RecomputeTaskCases, PassedKeeps
      <4>2. once.rt[t] = st.rt[t]
        BY <3>4, <4>1 DEF Kept
      <4>3. ~ Due(st.rt[t])
        <5> SUFFICES ASSUME Due(st.rt[t]) PROVE FALSE
          OBVIOUS
        <5> DEFINE woken == [st.rt[t] EXCEPT !.retryAt = Nil]
        <5>1. st.rt[t].state = "RETRY_WAIT" /\ st.rt[t] \in Runtime
          BY <3>1, <3>4, <4>2 DEF Store
        <5>2. woken \in Runtime /\ woken.state = "RETRY_WAIT"
          BY <5>1 DEF Runtime, Timer
        <5>3. RecomputeTask(st, f, t) = TransitionTask(woken, "READY")
          BY <5>1 DEF RecomputeTask
        <5> HIDE DEF woken
        <5>4. TransitionTask(woken, "READY") = [woken EXCEPT !.state = "READY"]
          BY <5>2 DEF TransitionTask, ValidTaskTransitions
        <5>5. [woken EXCEPT !.state = "READY"].state = "READY"
          BY <5>2 DEF Runtime
        <5> QED
          BY <3>2, <3>4, <5>3, <5>4, <5>5
      <4> QED
        BY <3>4, <4>2, <4>3 DEF RecomputeTask
    <3>5. CASE once.rt[t].state \notin {"PENDING", "RETRY_WAIT"}
      BY <3>5 DEF RecomputeTask
    <3> QED
      BY <3>3, <3>4, <3>5
  <2>4. \A t \in Task : twice.rt[t] = once.rt[t]
    <3>1. \A t \in Task : WfOf[t] = f => t \in TasksOf(f)
      BY DEF TasksOf
    <3> QED
      BY <1>3, <2>3, <3>1
  <2>5. twice.rt = once.rt
    BY <1>1, <1>3, <2>4 DEF Store
  <2>6. twice.wf[f] = once.wf[f]
    BY <1>2, <1>4, <1>6, <2>1, <2>5
  <2>7. \A g \in Workflow : twice.wf[g] = once.wf[g]
    BY <1>3, <2>6
  <2> QED
    BY <1>1, <1>3, <2>4, <2>7, SameStore DEF once, twice
<1> QED
  BY <1>5, <1>6

-----------------------------------------------------------------------------
(* Both, of a store. *)
StoreTyped == store \in Store

LEMMA StoreAgrees == StoreTyped => PassAgrees
<1> SUFFICES ASSUME store \in Store, NEW f \in Workflow
             PROVE  LET once == RecomputeLoop(store, f)
                    IN once = Recompute(store, {f}) /\ RecomputeLoop(once, f) = once
  BY DEF PassAgrees, StoreTyped
<1>1. RecomputeLoop(store, f) = Recompute(store, {f})
  BY LoopIsClosedForm
<1>2. Recompute(store, {f}) \in Store
  BY RecomputeFields
<1>3. RecomputeLoop(Recompute(store, {f}), f) = Recompute(store, {f})
  BY <1>2, LoopIsClosedForm, OnePassIsEnough
<1> QED
  BY <1>1, <1>3

(* From any states of the tasks the loop and the closed form agree, and a
   second pass changes nothing. *)
THEOREM PassAlwaysAgrees == PassSpec => []PassAgrees
<1>1. AnyInit => StoreTyped
  <2> SUFFICES ASSUME AnyInit PROVE store \in Store
    BY DEF StoreTyped
  <2>1. NewRuntime \in Runtime
    BY DEF NewRuntime, Runtime, TaskState, Timer, Nil, NoToken
  <2>2. AnyRuntime \in SUBSET Runtime
    <3>1. \A s \in TaskState, d \in Timer : RuntimeIn(s, d) \in Runtime
      BY <2>1 DEF RuntimeIn, Runtime
    <3>2. {Nil, 0, 1} \in SUBSET Timer
      BY DEF Timer
    <3> SUFFICES ASSUME NEW r \in AnyRuntime PROVE r \in Runtime
      OBVIOUS
    <3>3. \E s \in TaskState \ {"LEASED"} : \E d \in {Nil, 0, 1} :
            r = RuntimeIn(s, d)
      BY DEF AnyRuntime
    <3> QED
      BY <3>1, <3>2, <3>3
  <2>3. PICK rt \in [Task -> AnyRuntime], s \in WorkflowState :
          store = [wf     |-> [f \in Workflow |-> s],
                   rt     |-> rt,
                   leases |-> {},
                   active |-> [w \in Worker |-> 0]]
    BY DEF AnyInit
  <2>4. rt \in [Task -> Runtime]
    BY <2>2
  <2> QED
    BY <2>3, <2>4 DEF Store
<1>2. StoreTyped /\ [RecomputeStep]_vars => StoreTyped'
  BY RecomputeFields DEF RecomputeStep, StoreTyped, vars
<1> QED
  BY <1>1, <1>2, StoreAgrees, PTL DEF PassSpec

(* The same of every store the coordinator reaches. *)
THEOREM CoordinatorPassAgrees == Spec => []PassAgrees
<1>1. TypeOK => StoreTyped
  BY DEF TypeOK, StoreTyped
<1> QED
  BY <1>1, StoreAgrees, TypeCorrect, PTL

-----------------------------------------------------------------------------
(* Coordinator implements LeaseService.  A method of the store is a chain of
   helpers, and all but two of them only take tasks away from their holders or
   drop them: they "yield".  Yielding composes, so a method is a chain that
   yields around at most one grant or one result, which is a step of
   LeaseService. *)

(* What becomes of one task in a change of the store that neither grants nor
   decides; and the same of every task. *)
TaskYields(r, q) ==
  \/ /\ PhaseOf(q) = PhaseOf(r)
     /\ PhaseOf(r) = "held" => q.token = r.token
  \/ PhaseOf(r) = "held" /\ PhaseOf(q) = "idle"
  \/ PhaseOf(r) \in {"idle", "held"} /\ PhaseOf(q) = "dropped"

Yields(st, new) == \A t \in Task : TaskYields(st.rt[t], new.rt[t])

LEMMA YieldsCompose ==
  ASSUME NEW a, NEW b, NEW c, Yields(a, b), Yields(b, c)
  PROVE  Yields(a, c)
BY DEF Yields, TaskYields

(* The phase is a matter of the state alone. *)
LEMMA Phases ==
  ASSUME NEW r
  PROVE  /\ PhaseOf(r) = "held" <=> r.state \in Held
         /\ PhaseOf(r) = "decided" <=> r.state \in {"SUCCEEDED", "FAILED"}
         /\ PhaseOf(r) = "dropped" <=> r.state = "CANCELLED"
         /\ PhaseOf(r) = "idle" <=>
              r.state \notin Held \cup {"SUCCEEDED", "FAILED", "CANCELLED"}
BY DEF PhaseOf, Held

LEMMA SameYields ==
  ASSUME NEW r, NEW q, q.state = r.state, q.token = r.token
  PROVE  TaskYields(r, q)
BY DEF PhaseOf, TaskYields

-----------------------------------------------------------------------------
(* The helpers that yield. *)

LEMMA RecomputeYields ==
  ASSUME NEW st, Typed(st), NEW F
  PROVE  Yields(st, Recompute(st, F))
<1> DEFINE new == Recompute(st, F)
<1>1. /\ st \in Store
      /\ \A t \in Task :
           new.rt[t] = IF WfOf[t] \in F /\ st.wf[WfOf[t]] \in Open
                       THEN RecomputeTask(st, WfOf[t], t) ELSE st.rt[t]
  BY RecomputeFields DEF Typed
<1> HIDE DEF new
<1> SUFFICES ASSUME NEW t \in Task PROVE TaskYields(st.rt[t], new.rt[t])
  BY DEF Yields, new
<1> DEFINE r == st.rt[t]
<1>2. r \in Runtime
  BY <1>1 DEF Store
<1>3. Passed(st, t, new.rt[t])
  <2>1. Passed(st, t, RecomputeTask(st, WfOf[t], t))
    BY <1>1, RecomputeTaskCases
  <2>2. Passed(st, t, r)
    BY DEF Passed
  <2> QED
    BY <1>1, <2>1, <2>2
<1>4. CASE new.rt[t] = r
  BY <1>4, SameYields
<1>5. CASE r.state = "PENDING" /\ new.rt[t] = [r EXCEPT !.state = "CANCELLED"]
  <2>1. new.rt[t].state = "CANCELLED"
    BY <1>2, <1>5 DEF Runtime
  <2>2. PhaseOf(r) = "idle" /\ PhaseOf(new.rt[t]) = "dropped"
    BY <1>5, <2>1 DEF PhaseOf, Held
  <2> QED
    BY <2>2 DEF TaskYields
<1>6. CASE /\ r.state \in {"PENDING", "RETRY_WAIT"}
           /\ \/ new.rt[t] = [r EXCEPT !.state = "READY"]
              \/ new.rt[t] = [r EXCEPT !.retryAt = Nil, !.state = "READY"]
  <2>1. new.rt[t].state = "READY"
    BY <1>2, <1>6 DEF Runtime
  <2>2. PhaseOf(r) = "idle" /\ PhaseOf(new.rt[t]) = "idle"
    BY <1>6, <2>1 DEF PhaseOf, Held
  <2> QED
    BY <2>2 DEF TaskYields
<1> QED
  BY <1>3, <1>4, <1>5, <1>6 DEF Passed

LEMMA ExpireYields ==
  ASSUME NEW st, Sound(st), NEW L \in SUBSET st.leases
  PROVE  Yields(st, Expire(st, L))
<1> DEFINE new == Expire(st, L)
           Hit(t) == \E l \in L : l.task = t /\ l.token = st.rt[t].token
<1>1. st \in Store /\ Typed(st) /\ Matches(st)
  BY DEF Sound, Typed
<1>2. \A t \in Task :
        new.rt[t] = IF Hit(t) THEN ExpireTask(st.rt[t]) ELSE st.rt[t]
  BY <1>1, ExpireFields
<1>3. \A r \in Runtime : r.state \in Held => ExpireTask(r).state = "READY"
  BY DEF ExpireTask, ClearLease, Runtime
<1>4. ASSUME NEW t \in Task, Hit(t)
      PROVE  st.rt[t].state \in Held /\ new.rt[t].state = "READY"
  <2>1. st.rt[t].state \in Held /\ st.rt[t] \in Runtime
    BY <1>1, <1>4 DEF Matches, Describes, Store
  <2> QED
    BY <1>2, <1>3, <1>4, <2>1
<1> HIDE DEF new, Hit
<1>5. ASSUME NEW t \in Task PROVE TaskYields(st.rt[t], new.rt[t])
  <2>1. CASE Hit(t)
    <3>1. PhaseOf(st.rt[t]) = "held" /\ PhaseOf(new.rt[t]) = "idle"
      BY <1>4, <2>1 DEF PhaseOf, Held
    <3> QED
      BY <3>1 DEF TaskYields
  <2>2. CASE ~ Hit(t)
    BY <1>2, <2>2, SameYields
  <2> QED
    BY <2>1, <2>2
<1> QED
  BY <1>5 DEF Yields, new

LEMMA SweptYields ==
  ASSUME NEW st, Sound(st), NEW F
  PROVE  Yields(st, Swept(st)) /\ Yields(st, Recompute(Swept(st), F))
<1> DEFINE mid == Expire(st, Overdue(st))
<1>1. Overdue(st) \in SUBSET st.leases
  BY DEF Overdue
<1>2. Sound(mid) /\ Yields(st, mid)
  BY <1>1, ExpireSound, ExpireYields
<1>3. Swept(st) = Recompute(mid, Workflow)
  BY DEF Swept
<1> HIDE DEF mid
<1>4. Yields(mid, Swept(st))
  BY <1>2, <1>3, RecomputeYields DEF Sound
<1>5. Yields(st, Swept(st))
  BY <1>2, <1>4, YieldsCompose
<1>6. Yields(Swept(st), Recompute(Swept(st), F))
  BY SweptSound, RecomputeYields DEF Sound
<1> QED
  BY <1>5, <1>6, YieldsCompose

LEMMA CancelYields ==
  ASSUME NEW st, Typed(st), NEW f \in Workflow
  PROVE  Yields(st, Cancel(st, f))
<1> DEFINE new == Cancel(st, f)
<1>1. new.rt = [t \in Task |-> IF WfOf[t] = f THEN CancelledTask(st, f, t)
                                              ELSE st.rt[t]]
  BY CancelFields
<1> HIDE DEF new
<1> SUFFICES ASSUME NEW t \in Task PROVE TaskYields(st.rt[t], new.rt[t])
  BY DEF Yields, new
<1> DEFINE r == st.rt[t]
<1>2. r \in Runtime
  BY DEF Typed, Store
<1>3. CASE WfOf[t] # f
  BY <1>1, <1>3, SameYields
<1>4. CASE WfOf[t] = f
  <2>1. new.rt[t] \in {CancelTask(r), ClearLease(CancelTask(r))}
    BY <1>1, <1>4 DEF CancelledTask
  <2>2. new.rt[t].state = CancelTask(r).state
    BY <1>2, <2>1, CancelTaskEnds DEF ClearLease, Runtime
  <2>3. CASE r.state \in Final
    <3>1. new.rt[t].state = r.state
      BY <1>2, <2>2, <2>3, CancelTaskEnds
    <3>2. PhaseOf(new.rt[t]) = PhaseOf(r) /\ PhaseOf(r) # "held"
      BY <2>3, <3>1 DEF PhaseOf, Held, Final
    <3> QED
      BY <3>2 DEF TaskYields
  <2>4. CASE r.state \notin Final
    <3>1. new.rt[t].state = "CANCELLED"
      BY <1>2, <2>2, <2>4, CancelTaskEnds
    <3>2. PhaseOf(new.rt[t]) = "dropped" /\ PhaseOf(r) \in {"idle", "held"}
      BY <2>4, <3>1 DEF PhaseOf, Held, Final
    <3> QED
      BY <3>2 DEF TaskYields
  <2> QED
    BY <2>3, <2>4
<1> QED
  BY <1>3, <1>4

(* A workflow is opened while all its tasks are still as NewWorkflow left
   them. *)
LEMMA OpenedYields ==
  ASSUME NEW st, Sound(st), NEW f \in Workflow, st.wf[f] = "ABSENT"
  PROVE  Yields(st, Opened(st, f))
<1> DEFINE new == Opened(st, f)
<1>1. new.rt = [t \in Task |-> IF WfOf[t] = f THEN NewRuntime ELSE st.rt[t]]
  BY OpenedFields DEF Sound
<1>2. \A t \in Task : WfOf[t] = f => st.rt[t].state = "PENDING"
  BY DEF Sound, Untouched
<1> HIDE DEF new
<1>3. ASSUME NEW t \in Task PROVE TaskYields(st.rt[t], new.rt[t])
  <2>1. CASE WfOf[t] = f
    <3>1. PhaseOf(st.rt[t]) = "idle" /\ PhaseOf(new.rt[t]) = "idle"
      BY <1>1, <1>2, <2>1 DEF PhaseOf, Held, NewRuntime
    <3> QED
      BY <3>1 DEF TaskYields
  <2>2. CASE WfOf[t] # f
    BY <1>1, <2>2, SameYields
  <2> QED
    BY <2>1, <2>2
<1> QED
  BY <1>3 DEF Yields, new

(* One task stays held under its token, whatever else changes in it. *)
LEMMA OneTaskYields ==
  ASSUME NEW st, Typed(st), NEW new, NEW t \in Task, NEW q,
         new.rt = [st.rt EXCEPT ![t] = q],
         st.rt[t].state \in Held, q.state \in Held, q.token = st.rt[t].token
  PROVE  Yields(st, new)
<1>1. PhaseOf(st.rt[t]) = "held" /\ PhaseOf(q) = "held"
  BY DEF PhaseOf, Held
<1>2. TaskYields(st.rt[t], q)
  BY <1>1 DEF TaskYields
<1>3. \A u \in Task : new.rt[u] = IF u = t THEN q ELSE st.rt[u]
  BY DEF Typed, Store
<1> QED
  BY <1>2, <1>3, SameYields DEF Yields

LEMMA LaterYields ==
  ASSUME NEW st, Typed(st)
  PROVE  Yields(st, Later(st))
<1>1. Later(st).rt = [t \in Task |-> AgedTask(st.rt[t])]
  BY LaterFields
<1>2. \A r \in Runtime : AgedTask(r).state = r.state /\ AgedTask(r).token = r.token
  BY DEF AgedTask, Runtime
<1>3. \A t \in Task : st.rt[t] \in Runtime
  BY DEF Typed, Store
<1> QED
  BY <1>1, <1>2, <1>3, SameYields DEF Yields

-----------------------------------------------------------------------------
(* From the store's terms to LeaseService's. *)

(* A held task is held under a token that was drawn; any other has none. *)
LEMMA TokensDrawn ==
  ASSUME Invariant, Accounts, NEW t \in Task
  PROVE  /\ PhaseOf(store.rt[t]) = "held" => store.rt[t].token \in 1..issued
         /\ PhaseOf(store.rt[t]) # "held" => store.rt[t].token = NoToken
<1>1. /\ Matches(store)
      /\ store.leases \in SUBSET Lease
      /\ issued \in Nat
  BY DEF Invariant, TypeOK, Sound, Typed, Store
<1>2. CASE store.rt[t].state \in Held
  <2>1. PICK l \in store.leases : l.task = t
    BY <1>1, <1>2 DEF Matches
  <2>2. store.rt[t].token = l.token
    BY <1>1, <2>1 DEF Matches, Describes
  <2>3. l.token \in Nat \ {0} /\ l.token <= issued
    BY <1>1 DEF Lease, Accounts
  <2>4. PhaseOf(store.rt[t]) = "held"
    BY <1>2, Phases
  <2> QED
    BY <1>1, <2>2, <2>3, <2>4
<1>3. CASE store.rt[t].state \notin Held
  <2>1. PhaseOf(store.rt[t]) # "held"
    BY <1>3, Phases
  <2>2. store.rt[t].token = NoToken
    BY <1>1, <1>3 DEF Matches, LeaseFree
  <2> QED
    BY <2>1, <2>2
<1> QED
  BY <1>2, <1>3

(* No step but a grant puts a task under a token that was not drawn before. *)
LEMMA YieldingTask ==
  ASSUME Invariant, Invariant', Accounts, Accounts', NEW t \in Task,
         TaskYields(store.rt[t], store'.rt[t])
  PROVE  /\ Promise!Keeps(t) \/ Promise!Releases(t) \/ Promise!Drops(t)
         /\ ~ Promise!Grants(t)
         /\ ~ Promise!Decides(t)
<1> DEFINE r == store.rt[t]
           q == store'.rt[t]
<1>1. /\ PhaseOf(r) = "held" => r.token \in 1..issued
      /\ PhaseOf(r) # "held" => r.token = NoToken
  BY TokensDrawn
<1>2. /\ PhaseOf(q) # "held" => q.token = NoToken
  <2>1. CASE q.state \in Held
    BY <2>1, Phases
  <2>2. CASE q.state \notin Held
    BY <2>2 DEF Invariant, Sound, Matches, LeaseFree
  <2> QED
    BY <2>1, <2>2
<1>3. TaskYields(r, q)
  OBVIOUS
<1>4. /\ [u \in Task |-> PhaseOf(store.rt[u])][t] = PhaseOf(r)
      /\ [u \in Task |-> PhaseOf(store'.rt[u])][t] = PhaseOf(q)
      /\ [u \in Task |-> store.rt[u].token][t] = r.token
      /\ [u \in Task |-> store'.rt[u].token][t] = q.token
  OBVIOUS
<1> HIDE DEF r, q
<1> QED
  BY <1>1, <1>2, <1>3, <1>4 DEF TaskYields, Promise!Keeps, Promise!Releases,
     Promise!Drops, Promise!Grants, Promise!Decides

(* A change of the store that only yields is a step of LeaseService. *)
LEMMA YieldingStep ==
  ASSUME Invariant, Invariant', Accounts, Accounts', Yields(store, store'),
         issued' = issued
  PROVE  Promise!Step
<1>1. ASSUME NEW t \in Task
      PROVE  /\ Promise!Keeps(t) \/ Promise!Releases(t) \/ Promise!Drops(t)
             /\ ~ Promise!Grants(t)
             /\ ~ Promise!Decides(t)
  BY YieldingTask DEF Yields
<1>2. Promise!Granted = {}
  BY <1>1 DEF Promise!Granted
<1> QED
  BY <1>1, <1>2 DEF Promise!Step

(* One result among tasks that yield is a step of LeaseService. *)
LEMMA DecidingStep ==
  ASSUME Invariant, Invariant', Accounts, Accounts', issued' = issued,
         NEW d \in Task, store.rt[d].state \in Held,
         store'.rt[d].state \in {"SUCCEEDED", "FAILED"},
         \A t \in Task \ {d} : TaskYields(store.rt[t], store'.rt[t])
  PROVE  Promise!Step
<1>1. ASSUME NEW t \in Task, t # d
      PROVE  /\ Promise!Keeps(t) \/ Promise!Releases(t) \/ Promise!Drops(t)
             /\ ~ Promise!Grants(t)
             /\ ~ Promise!Decides(t)
  BY <1>1, YieldingTask
<1>2. Promise!Decides(d) /\ ~ Promise!Grants(d)
  <2>1. PhaseOf(store.rt[d]) = "held" /\ PhaseOf(store'.rt[d]) = "decided"
    BY Phases
  <2>2. store'.rt[d].token = NoToken
    BY DEF Invariant, Sound, Matches, LeaseFree, Held
  <2> QED
    BY <2>1, <2>2 DEF Promise!Decides, Promise!Grants
<1>3. Promise!Granted = {}
  BY <1>1, <1>2 DEF Promise!Granted
<1> QED
  BY <1>1, <1>2, <1>3 DEF Promise!Step

(* One grant under the next token, after a chain that yields, is a step of
   LeaseService: it may take the task from its holder first. *)
LEMMA GrantingStep ==
  ASSUME Invariant, Invariant', Accounts, Accounts', issued' = issued + 1,
         NEW st, Yields(store, st),
         NEW g \in Task, st.rt[g].state = "READY",
         store'.rt[g].state \in Held, store'.rt[g].token = issued + 1,
         \A t \in Task \ {g} : store'.rt[t] = st.rt[t]
  PROVE  Promise!Step
<1>1. ASSUME NEW t \in Task, t # g
      PROVE  /\ Promise!Keeps(t) \/ Promise!Releases(t) \/ Promise!Drops(t)
             /\ ~ Promise!Grants(t)
             /\ ~ Promise!Decides(t)
  BY <1>1, YieldingTask DEF Yields
<1>2. issued \in Nat /\ issued + 1 \notin 1..issued /\ issued + 1 # NoToken
  BY DEF Invariant, TypeOK, NoToken
<1>3. Promise!Grants(g) /\ ~ Promise!Decides(g)
  <2>1. PhaseOf(st.rt[g]) = "idle" /\ PhaseOf(store'.rt[g]) = "held"
    BY Phases DEF Held
  <2>2. PhaseOf(store.rt[g]) \in {"idle", "held"}
    BY <2>1 DEF Yields, TaskYields
  <2> QED
    BY <1>2, <2>1, <2>2 DEF Promise!Decides, Promise!Grants
<1>4. Promise!Granted = {g}
  BY <1>1, <1>3 DEF Promise!Granted
<1>5. (1..issued)' = (1..issued)
        \cup {([u \in Task |-> store.rt[u].token])'[t] : t \in Promise!Granted}
  <2>1. 1..issued' = (1..issued) \cup {issued + 1}
    BY <1>2
  <2>2. {([u \in Task |-> store.rt[u].token])'[t] : t \in Promise!Granted}
          = {issued + 1}
    BY <1>4
  <2> QED
    BY <2>1, <2>2
<1> QED
  BY <1>1, <1>3, <1>4, <1>5 DEF Promise!Step

-----------------------------------------------------------------------------
(* The methods, as steps of LeaseService. *)

LEMMA CompletingStep ==
  ASSUME Invariant, Invariant', Accounts, Accounts', issued' = issued,
         NEW l \in store.leases, NEW ok \in BOOLEAN,
         store' = Recompute(Close(store, l, ok), {WfOf[l.task]})
  PROVE  Promise!Step
<1> DEFINE mid == Close(store, l, ok)
           d == l.task
           q == ClosedTask(d, store.rt[d], ok)
<1>1. /\ Sound(store)
      /\ Typed(store)
      /\ d \in Task
      /\ store.rt[d] \in Runtime
  BY DEF Invariant, Sound, Typed, Store, Lease
<1>2. store.rt[d].state \in Held /\ store.rt[d].attempt > 0
  BY <1>1 DEF Sound, Matches, Describes, Attempted
<1>3. Typed(mid) /\ mid.rt = [store.rt EXCEPT ![d] = q]
  BY <1>1, <1>2, CloseFields
<1>4. q.state \in {"SUCCEEDED", "FAILED", "RETRY_WAIT"}
  BY <1>1, <1>2, ClosedTaskEnds
<1>5. store' = Recompute(mid, {WfOf[d]})
  OBVIOUS
<1> HIDE DEF mid, d, q
<1>6. \A t \in Task : mid.rt[t] = IF t = d THEN q ELSE store.rt[t]
  BY <1>1, <1>3 DEF Typed, Store
<1>7. Yields(mid, store')
  BY <1>3, <1>5, RecomputeYields
<1>8. CASE q.state = "RETRY_WAIT"
  <2>1. PhaseOf(store.rt[d]) = "held" /\ PhaseOf(q) = "idle"
    BY <1>2, <1>8, Phases DEF Held
  <2>2. TaskYields(store.rt[d], q)
    BY <2>1 DEF TaskYields
  <2>3. Yields(store, mid)
    BY <1>6, <2>2, SameYields DEF Yields
  <2>4. Yields(store, store')
    BY <1>7, <2>3, YieldsCompose
  <2> QED
    BY <2>4, YieldingStep
<1>9. CASE q.state \in {"SUCCEEDED", "FAILED"}
  <2>1. PhaseOf(mid.rt[d]) = "decided"
    BY <1>1, <1>6, <1>9, Phases
  <2>2. TaskYields(mid.rt[d], store'.rt[d])
    BY <1>1, <1>7 DEF Yields
  <2>3. PhaseOf(store'.rt[d]) = "decided"
    BY <2>1, <2>2 DEF TaskYields
  <2>4. store'.rt[d].state \in {"SUCCEEDED", "FAILED"}
    BY <2>3, Phases
  <2>5. \A t \in Task \ {d} : TaskYields(store.rt[t], store'.rt[t])
    BY <1>6, <1>7 DEF Yields
  <2> QED
    BY <1>1, <1>2, <2>4, <2>5, DecidingStep
<1> QED
  BY <1>4, <1>8, <1>9

LEMMA LeaseCallsKeep ==
  ASSUME Invariant, Invariant', Accounts, Accounts', NEW l \in store.leases,
         \/ StartLease(l)
         \/ RenewLease(l)
         \/ \E size \in Chunk : AppendLog(l, size)
         \/ \E ok \in BOOLEAN : CompleteLease(l, ok)
  PROVE  Promise!Step
<1> DEFINE t == l.task
           r == store.rt[t]
<1>1. /\ Sound(store)
      /\ Typed(store)
      /\ t \in Task
      /\ r \in Runtime
      /\ r.state \in Held
  BY DEF Invariant, Sound, Typed, Store, Lease, Matches, Describes
<1>2. issued' = issued
  BY LeaseCallsTame
<1>3. CASE TouchOverdue(l)
  <2>1. {l} \in SUBSET store.leases /\ store' = Expire(store, {l})
    BY <1>3 DEF TouchOverdue
  <2>2. Yields(store, store')
    BY <1>1, <2>1, ExpireYields
  <2> QED
    BY <1>2, <2>2, YieldingStep
<1> HIDE DEF t, r
<1>4. ASSUME StartLease(l), ~ TouchOverdue(l) PROVE Promise!Step
  <2> DEFINE q == Begun(r)
  <2>1. r.state = "LEASED" /\ store' = [store EXCEPT !.rt[t] = q]
    BY <1>4 DEF StartLease, t, r
  <2>2. TransitionTask(r, "RUNNING") = [r EXCEPT !.state = "RUNNING"]
    BY <2>1 DEF TransitionTask, ValidTaskTransitions
  <2>3. q \in Runtime /\ q.state \in Held /\ q.token = r.token
    BY <1>1, <2>1, <2>2 DEF Begun, Runtime, TaskState, Held
  <2> HIDE DEF q
  <2>4. store'.rt = [store.rt EXCEPT ![t] = q]
    BY <1>1, <2>1, <2>3, UpdateFields
  <2>5. Yields(store, store')
    BY <1>1, <2>3, <2>4, OneTaskYields DEF r
  <2> QED
    BY <1>2, <2>5, YieldingStep
<1>5. ASSUME RenewLease(l), ~ TouchOverdue(l) PROVE Promise!Step
  <2> DEFINE q == [r EXCEPT !.until = LeaseDuration]
  <2>1. store' = Renew(store, l)
    BY <1>5 DEF RenewLease
  <2>2. store'.rt = [store.rt EXCEPT ![t] = q]
    BY <1>1, <2>1, RenewFields DEF t, r
  <2>3. q.state = r.state /\ q.token = r.token
    BY <1>1 DEF Runtime
  <2> HIDE DEF q
  <2>4. Yields(store, store')
    BY <1>1, <2>2, <2>3, OneTaskYields DEF r
  <2> QED
    BY <1>2, <2>4, YieldingStep
<1>6. ASSUME NEW size \in Chunk, AppendLog(l, size), ~ TouchOverdue(l)
      PROVE  Promise!Step
  <2> DEFINE m == r.output + size
             q == [r EXCEPT !.output = m]
  <2>1. store' = [store EXCEPT !.rt[t] = q]
    BY <1>6 DEF AppendLog, t, r
  <2>2. m \in Nat
    BY <1>1, PolicyAssumption DEF Runtime
  <2> HIDE DEF m
  <2>3. q \in Runtime /\ q.state = r.state /\ q.token = r.token
    BY <1>1, <2>2 DEF Runtime
  <2> HIDE DEF q
  <2>4. store'.rt = [store.rt EXCEPT ![t] = q]
    BY <1>1, <2>1, <2>3, UpdateFields
  <2>5. Yields(store, store')
    BY <1>1, <2>3, <2>4, OneTaskYields DEF r
  <2> QED
    BY <1>2, <2>5, YieldingStep
<1>7. ASSUME NEW ok \in BOOLEAN, CompleteLease(l, ok), ~ TouchOverdue(l)
      PROVE  Promise!Step
  <2>1. store' = Recompute(Close(store, l, ok), {WfOf[l.task]})
    BY <1>7 DEF CompleteLease
  <2> QED
    BY <1>2, <2>1, CompletingStep
<1> QED
  BY <1>3, <1>4, <1>5, <1>6, <1>7

LEMMA LeaseNextKeeps ==
  ASSUME Invariant, Invariant', Accounts, Accounts', NEW w \in Worker,
         LeaseNext(w)
  PROVE  Promise!Step
<1>1. Sound(store)
  BY DEF Invariant
<1>2. CASE LeaseNextEmpty(w)
  <2>1. Yields(store, store') /\ issued' = issued
    BY <1>1, <1>2, SweptYields DEF LeaseNextEmpty
  <2> QED
    BY <2>1, YieldingStep
<1>3. ASSUME NEW i \in DOMAIN arrivals, NEW n \in DOMAIN Order[arrivals[i]],
             LeaseNextGrants(w, i, n)
      PROVE  Promise!Step
  <2> DEFINE st == Recompute(Swept(store), Visited(i))
             f == arrivals[i]
             t == Order[f][n]
             q == GrantedTask(st.rt[t], w, FreshToken)
  <2>1. t \in Task
    <3>1. f \in Workflow
      BY DEF Invariant, TypeOK
    <3>2. Order[f] \in Seq(TasksOf(f)) /\ n \in DOMAIN Order[f]
      BY <3>1, GraphAssumption
    <3>3. t \in TasksOf(f)
      BY <3>2
    <3> QED
      BY <3>3 DEF TasksOf
  <2>2. Typed(st) /\ Yields(store, st)
    BY <1>1, SweptSound, SweptYields DEF Sound
  <2>3. /\ FreshToken \in Nat \ {0}
        /\ FreshToken = issued + 1
        /\ issued' = issued + 1
    BY <1>3 DEF Invariant, TypeOK, FreshToken, LeaseNextGrants
  <2>4. st.rt[t].state = "READY" /\ store' = Grant(st, w, t, FreshToken)
    BY <1>3 DEF LeaseNextGrants, Offer
  <2> HIDE DEF st, t, q
  <2>5. store'.rt = [st.rt EXCEPT ![t] = q]
    BY <2>1, <2>2, <2>3, <2>4, GrantFields DEF q
  <2>6. st.rt[t] \in Runtime
    BY <2>1, <2>2 DEF Typed, Store
  <2>7. q.state \in Held /\ q.token = issued + 1
    BY <2>3, <2>6 DEF q, GrantedTask, Runtime, Held
  <2>8. \A u \in Task : store'.rt[u] = IF u = t THEN q ELSE st.rt[u]
    BY <2>1, <2>2, <2>5 DEF Typed, Store
  <2> QED
    BY <2>1, <2>2, <2>3, <2>4, <2>7, <2>8, GrantingStep
<1> QED
  BY <1>2, <1>3 DEF LeaseNext

(* Every step of the store is a step of LeaseService, or changes nothing in
   its terms. *)
LEMMA NextKeeps ==
  ASSUME Invariant, Invariant', Accounts, Accounts', Next
  PROVE  Promise!Step
<1>1. Sound(store) /\ Typed(store)
  BY DEF Invariant, Sound
<1>2. ASSUME NEW f \in Workflow, NEW key \in Key \cup {NoKey},
             CreateWorkflow(f, key)
      PROVE  Promise!Step
  <2> DEFINE mid == Opened(store, f)
  <2>1. /\ store' = Recompute(mid, {f})
        /\ store.wf[f] = "ABSENT"
        /\ issued' = issued
    BY <1>2 DEF CreateWorkflow, Opened
  <2>2. Yields(store, mid) /\ Typed(mid)
    BY <1>1, <2>1, OpenedYields, OpenedFields
  <2> HIDE DEF mid
  <2>3. Yields(store, store')
    BY <2>1, <2>2, RecomputeYields, YieldsCompose
  <2> QED
    BY <2>1, <2>3, YieldingStep
<1>3. ASSUME NEW f \in Workflow, CancelWorkflow(f) PROVE Promise!Step
  <2>1. Yields(store, store') /\ issued' = issued
    BY <1>1, <1>3, CancelYields DEF CancelWorkflow
  <2> QED
    BY <2>1, YieldingStep
<1>4. ASSUME NEW w \in Worker, RegisterWorker(w) \/ HeartbeatWorker(w)
      PROVE  Promise!Step
  <2>1. store'.rt = store.rt /\ issued' = issued
    BY <1>1, <1>4 DEF RegisterWorker, HeartbeatWorker, Typed, Store
  <2>2. Yields(store, store')
    BY <2>1, SameYields DEF Yields
  <2> QED
    BY <2>1, <2>2, YieldingStep
<1>5. CASE Sweep
  <2>1. Yields(store, store') /\ issued' = issued
    BY <1>1, <1>5, SweptYields DEF Sweep
  <2> QED
    BY <2>1, YieldingStep
<1>6. CASE Tick
  <2>1. store' = Later(store) /\ issued' = issued
    BY <1>6 DEF Tick, Later, Aged, AgedTask
  <2>2. Yields(store, store')
    BY <1>1, <2>1, LaterYields
  <2> QED
    BY <2>1, <2>2, YieldingStep
<1>7. CASE ClientStep
  BY <1>2, <1>3, <1>7 DEF ClientStep
<1>8. CASE WorkerStep
  BY <1>4, <1>8, LeaseNextKeeps, LeaseCallsKeep DEF WorkerStep
<1> QED
  BY <1>5, <1>6, <1>7, <1>8 DEF Next

(* The coordinator implements LeaseService, for every graph, every number of
   workers and every schedule of its methods. *)
THEOREM CoordinatorKeepsThePromise == Spec => KeepsThePromise
<1>1. Init => Promise!Init
  <2> SUFFICES ASSUME Init PROVE Promise!Init
    OBVIOUS
  <2>1. store.rt = [t \in Task |-> NewRuntime] /\ issued = 0
    BY DEF Init
  <2>2. PhaseOf(NewRuntime) = "idle" /\ NewRuntime.token = NoToken
    BY DEF PhaseOf, NewRuntime, Held
  <2>3. 1..issued = {}
    BY <2>1
  <2> QED
    BY <2>1, <2>2, <2>3 DEF Promise!Init
<1>2. ASSUME Invariant, Invariant', Accounts, Accounts', [Next]_vars
      PROVE  [Promise!Step]_(Promise!vars)
  <2>1. CASE Next
    BY <1>2, <2>1, NextKeeps
  <2>2. CASE UNCHANGED vars
    <3>1. store' = store /\ issued' = issued
      BY <2>2 DEF vars
    <3> QED
      BY <3>1 DEF Promise!vars
  <2> QED
    BY <1>2, <2>1, <2>2
<1> QED
  BY <1>1, <1>2, InvariantHolds, AccountsHold, PTL
  DEF Spec, KeepsThePromise, Promise!Spec
=============================================================================
