------------------------- MODULE CoordinatorProofs --------------------------
(***************************************************************************)
(* Proofs about Coordinator for every value of its constants.  A method of *)
(* the store is a composition of helpers, so the proofs go helper by       *)
(* helper: lemmas say what a helper does to a store's fields, that it      *)
(* keeps the inductive invariant, and the theorems put them together       *)
(* action by action.  What a step may never do is a relation between a     *)
(* store and a later one that composes; the second part shows helper by    *)
(* helper that it holds.                                                   *)
(***************************************************************************)
EXTENDS CoordinatorProperties, FiniteSetTheorems, TLAPS

(* A store of the right type: the part of TypeOK about the store. *)
Typed(st) == st \in Store /\ IsFiniteSet(st.leases)

-----------------------------------------------------------------------------
(* What the helpers do to the fields of a store. *)

(* A transition keeps the type of a runtime. *)
LEMMA TransitionTyped ==
  ASSUME NEW r \in Runtime, NEW s \in TaskState
  PROVE  TransitionTask(r, s) \in Runtime
BY DEF TransitionTask, Runtime

(* The four things a pass can do to a task: q is what becomes of task t. *)
Passed(st, t, q) ==
  \/ q = st.rt[t]
  \/ /\ st.rt[t].state = "PENDING"
     /\ q = [st.rt[t] EXCEPT !.state = "CANCELLED"]
  \/ /\ st.rt[t].state = "PENDING"
     /\ DepsDone(st, t)
     /\ q = [st.rt[t] EXCEPT !.state = "READY"]
  \/ /\ st.rt[t].state = "RETRY_WAIT"
     /\ Due(st.rt[t])
     /\ q = [st.rt[t] EXCEPT !.retryAt = Nil, !.state = "READY"]

LEMMA RecomputeTaskCases ==
  ASSUME NEW st \in Store, NEW f, NEW t \in Task
  PROVE  Passed(st, t, RecomputeTask(st, f, t))
<1> DEFINE r == st.rt[t]
<1>1. r \in Runtime
  BY DEF Store
<1>2. CASE r.state = "PENDING"
  <2>1. /\ TransitionTask(r, "CANCELLED") = [r EXCEPT !.state = "CANCELLED"]
        /\ TransitionTask(r, "READY") = [r EXCEPT !.state = "READY"]
    BY <1>2 DEF TransitionTask, ValidTaskTransitions
  <2> QED
    BY <1>2, <2>1 DEF RecomputeTask, Passed
<1>3. CASE r.state = "RETRY_WAIT"
  <2> DEFINE woken == [r EXCEPT !.retryAt = Nil]
  <2>1. woken.state = "RETRY_WAIT"
    BY <1>1, <1>3 DEF Runtime
  <2>2. TransitionTask(woken, "READY") = [woken EXCEPT !.state = "READY"]
    BY <2>1 DEF TransitionTask, ValidTaskTransitions
  <2>3. [woken EXCEPT !.state = "READY"]
          = [r EXCEPT !.retryAt = Nil, !.state = "READY"]
    BY <1>1 DEF Runtime
  <2> QED
    BY <1>3, <2>2, <2>3 DEF RecomputeTask, Passed
<1>4. CASE r.state \notin {"PENDING", "RETRY_WAIT"}
  BY <1>4 DEF RecomputeTask, Passed
<1> QED
  BY <1>2, <1>3, <1>4

(* A pass over the workflows of F changes task states, verdicts and retry
   deadlines, and nothing else. *)
LEMMA RecomputeFields ==
  ASSUME NEW st \in Store, NEW F
  PROVE  LET new == Recompute(st, F) IN
         /\ new \in Store
         /\ new.leases = st.leases
         /\ new.active = st.active
         /\ \A t \in Task :
              new.rt[t] = IF WfOf[t] \in F /\ st.wf[WfOf[t]] \in Open
                          THEN RecomputeTask(st, WfOf[t], t) ELSE st.rt[t]
         /\ \A f \in Workflow :
              IF f \in F /\ st.wf[f] \in Open
              THEN new.wf[f] \in {"RUNNING", "SUCCEEDED", "FAILED"}
              ELSE new.wf[f] = st.wf[f]
<1> DEFINE Live(f) == f \in F /\ st.wf[f] \in Open
           rt == [t \in Task |-> IF Live(WfOf[t]) THEN RecomputeTask(st, WfOf[t], t)
                                                  ELSE st.rt[t]]
           wf == [f \in Workflow |-> IF Live(f) THEN Outcome(rt, f) ELSE st.wf[f]]
<1>1. Recompute(st, F) = [st EXCEPT !.rt = rt, !.wf = wf]
  BY DEF Recompute
<1>2. \A t \in Task : rt[t] \in Runtime
  <2> SUFFICES ASSUME NEW t \in Task PROVE rt[t] \in Runtime
    OBVIOUS
  <2>1. st.rt[t] \in Runtime
    BY DEF Store
  <2>2. /\ [st.rt[t] EXCEPT !.state = "CANCELLED"] \in Runtime
        /\ [st.rt[t] EXCEPT !.state = "READY"] \in Runtime
        /\ [st.rt[t] EXCEPT !.retryAt = Nil, !.state = "READY"] \in Runtime
    BY <2>1 DEF Runtime, TaskState, Timer
  <2>3. Passed(st, t, RecomputeTask(st, WfOf[t], t))
    BY RecomputeTaskCases
  <2>4. RecomputeTask(st, WfOf[t], t) \in Runtime
    BY <2>1, <2>2, <2>3 DEF Passed
  <2> QED
    BY <2>1, <2>4
<1>3. \A f \in Workflow : Outcome(rt, f) \in {"RUNNING", "SUCCEEDED", "FAILED"}
  BY DEF Outcome
<1>4. /\ rt \in [Task -> Runtime]
      /\ wf \in [Workflow -> WorkflowState]
  BY <1>2, <1>3 DEF Store, WorkflowState
<1>5. [st EXCEPT !.rt = rt, !.wf = wf] \in Store
  BY <1>4 DEF Store
<1>6. /\ Recompute(st, F).rt = rt
      /\ Recompute(st, F).wf = wf
      /\ Recompute(st, F).leases = st.leases
      /\ Recompute(st, F).active = st.active
  BY <1>1 DEF Store
<1> HIDE DEF rt, wf
<1>7. \A t \in Task :
        rt[t] = IF Live(WfOf[t]) THEN RecomputeTask(st, WfOf[t], t) ELSE st.rt[t]
  BY DEF rt
<1>8. \A f \in Workflow :
        wf[f] = IF Live(f) THEN Outcome(rt, f) ELSE st.wf[f]
  BY DEF wf
<1> QED
  BY <1>1, <1>3, <1>5, <1>6, <1>7, <1>8

(* What a pass leaves alone in a task: its lease, its attempt, whether it is
   held and whether it has ended; and what it takes to leave PENDING. *)
Kept(st, t, q) ==
  /\ q.token = st.rt[t].token
  /\ q.owner = st.rt[t].owner
  /\ q.until = st.rt[t].until
  /\ q.attempt = st.rt[t].attempt
  /\ st.rt[t].state \in Held \cup Final => q = st.rt[t]
  /\ q.state \in Held \cup {"SUCCEEDED", "FAILED", "RETRY_WAIT"} => q = st.rt[t]
  /\ q.state = "PENDING" => st.rt[t].state = "PENDING"
  /\ q.state = "READY" /\ st.rt[t].state = "PENDING" => DepsDone(st, t)

LEMMA PassedKeeps ==
  ASSUME NEW st \in Store, NEW t \in Task, NEW q, Passed(st, t, q)
  PROVE  Kept(st, t, q)
<1> DEFINE r == st.rt[t]
<1>1. r \in Runtime
  BY DEF Store
<1> HIDE DEF r
<1>2. /\ [r EXCEPT !.state = "CANCELLED"].state = "CANCELLED"
      /\ [r EXCEPT !.state = "READY"].state = "READY"
      /\ [r EXCEPT !.retryAt = Nil, !.state = "READY"].state = "READY"
  BY <1>1 DEF Runtime
<1>3. \A v \in {"CANCELLED", "READY"} :
        /\ [r EXCEPT !.state = v].token = r.token
        /\ [r EXCEPT !.state = v].owner = r.owner
        /\ [r EXCEPT !.state = v].until = r.until
        /\ [r EXCEPT !.state = v].attempt = r.attempt
  BY <1>1 DEF Runtime
<1>4. /\ [r EXCEPT !.retryAt = Nil, !.state = "READY"].token = r.token
      /\ [r EXCEPT !.retryAt = Nil, !.state = "READY"].owner = r.owner
      /\ [r EXCEPT !.retryAt = Nil, !.state = "READY"].until = r.until
      /\ [r EXCEPT !.retryAt = Nil, !.state = "READY"].attempt = r.attempt
  BY <1>1 DEF Runtime
<1>5. \/ q = r
      \/ r.state = "PENDING" /\ q = [r EXCEPT !.state = "CANCELLED"]
      \/ /\ r.state = "PENDING"
         /\ DepsDone(st, t)
         /\ q = [r EXCEPT !.state = "READY"]
      \/ r.state = "RETRY_WAIT" /\ q = [r EXCEPT !.retryAt = Nil, !.state = "READY"]
  BY DEF Passed, r
<1> QED
  <2>1. /\ q.token = r.token
        /\ q.owner = r.owner
        /\ q.until = r.until
        /\ q.attempt = r.attempt
        /\ r.state \in Held \cup Final => q = r
        /\ q.state \in Held \cup {"SUCCEEDED", "FAILED", "RETRY_WAIT"} => q = r
        /\ q.state = "PENDING" => r.state = "PENDING"
        /\ q.state = "READY" /\ r.state = "PENDING" => DepsDone(st, t)
    BY <1>2, <1>3, <1>4, <1>5 DEF Held, Final
  <2> QED
    BY <2>1 DEF Kept, r

(* A worker's count stays a natural number when leases go. *)
LEMMA ReleasedTyped ==
  ASSUME NEW st, Typed(st), NEW L \in SUBSET st.leases
  PROVE  Released(st, L) \in [Worker -> Nat]
<1> SUFFICES ASSUME NEW w \in Worker
             PROVE  LET gone == Cardinality({l \in L : l.worker = w})
                    IN (IF gone < st.active[w] THEN st.active[w] - gone ELSE 0) \in Nat
  BY DEF Released
<1>1. IsFiniteSet({l \in L : l.worker = w})
  BY FS_Subset DEF Typed
<1>2. Cardinality({l \in L : l.worker = w}) \in Nat
  BY <1>1, FS_CardinalityType
<1>3. st.active[w] \in Nat
  BY DEF Typed, Store
<1> QED
  BY <1>2, <1>3

(* Expiring leases removes them, and clears and re-queues their tasks. *)
LEMMA ExpireFields ==
  ASSUME NEW st, Typed(st), NEW L \in SUBSET st.leases
  PROVE  /\ Typed(Expire(st, L))
         /\ Expire(st, L).wf = st.wf
         /\ Expire(st, L).leases = st.leases \ L
         /\ Expire(st, L).active = Released(st, L)
         /\ \A t \in Task :
              Expire(st, L).rt[t] =
                IF \E l \in L : l.task = t /\ l.token = st.rt[t].token
                THEN ExpireTask(st.rt[t]) ELSE st.rt[t]
<1> DEFINE rt == [t \in Task |->
                    IF \E l \in L : l.task = t /\ l.token = st.rt[t].token
                    THEN ExpireTask(st.rt[t]) ELSE st.rt[t]]
<1>1. st \in Store /\ IsFiniteSet(st.leases)
  BY DEF Typed
<1>2. \A r \in Runtime : ExpireTask(r) \in Runtime
  BY DEF ExpireTask, ClearLease, Runtime, TaskState, Timer, NoToken
<1>3. rt \in [Task -> Runtime]
  BY <1>1, <1>2 DEF Store
<1>4. Released(st, L) \in [Worker -> Nat]
  BY ReleasedTyped
<1>5. IsFiniteSet(st.leases \ L)
  BY <1>1, FS_Subset
<1>6. Expire(st, L) = [st EXCEPT !.leases = st.leases \ L,
                                 !.active = Released(st, L), !.rt = rt]
  BY <1>1 DEF Expire, Store
<1> HIDE DEF rt
<1>7. /\ Expire(st, L) \in Store
      /\ Expire(st, L).wf = st.wf
      /\ Expire(st, L).leases = st.leases \ L
      /\ Expire(st, L).active = Released(st, L)
      /\ Expire(st, L).rt = rt
  BY <1>1, <1>3, <1>4, <1>6 DEF Store
<1> QED
  BY <1>5, <1>7 DEF Typed, rt

(* Granting a lease. *)
GrantedTask(r, w, k) == [r EXCEPT !.state = "LEASED", !.attempt = r.attempt + 1,
                                  !.token = k, !.owner = w,
                                  !.until = LeaseDuration]
GrantedLease(st, w, t, k) == [token |-> k, task |-> t, worker |-> w,
                              attempt |-> st.rt[t].attempt + 1,
                              ttl |-> LeaseDuration]

LEMMA GrantedTaskTyped ==
  ASSUME NEW r \in Runtime, NEW w \in Worker, NEW k \in Nat
  PROVE  GrantedTask(r, w, k) \in Runtime
<1>1. LeaseDuration \in Timer /\ r.attempt + 1 \in Nat
  BY PolicyAssumption DEF Timer, Runtime
<1>2. [r EXCEPT !.state = "LEASED", !.attempt = r.attempt + 1] \in Runtime
  BY <1>1 DEF Runtime, TaskState
<1> QED
  BY <1>1, <1>2 DEF GrantedTask, Runtime, TaskState

LEMMA GrantFields ==
  ASSUME NEW st, Typed(st), NEW w \in Worker, NEW t \in Task,
         NEW k \in Nat \ {0}, st.rt[t].state = "READY"
  PROVE  LET new == Grant(st, w, t, k) IN
         /\ Typed(new)
         /\ new.wf = st.wf
         /\ new.leases = st.leases \cup {GrantedLease(st, w, t, k)}
         /\ new.rt = [st.rt EXCEPT ![t] = GrantedTask(st.rt[t], w, k)]
<1> DEFINE r == st.rt[t]
           q == GrantedTask(r, w, k)
           l == GrantedLease(st, w, t, k)
           active == [st.active EXCEPT ![w] = st.active[w] + 1]
           rt == [st.rt EXCEPT ![t] = q]
<1>1. st \in Store /\ IsFiniteSet(st.leases) /\ LeaseDuration \in Nat
  BY PolicyAssumption DEF Typed
<1>2. r \in Runtime
  BY <1>1 DEF Store
<1>3. TransitionTask(r, "LEASED") = [r EXCEPT !.state = "LEASED"]
  BY DEF TransitionTask, ValidTaskTransitions
<1>4. q = [TransitionTask(r, "LEASED") EXCEPT
             !.attempt = r.attempt + 1, !.token = k, !.owner = w,
             !.until = LeaseDuration]
  BY <1>2, <1>3 DEF GrantedTask, Runtime
<1>5. q \in Runtime
  BY <1>2, GrantedTaskTyped
<1>6. l \in Lease
  BY <1>1, <1>2 DEF GrantedLease, Lease, Runtime
<1>7. active \in [Worker -> Nat]
  BY <1>1 DEF Store
<1>8. rt \in [Task -> Runtime]
  BY <1>1, <1>5 DEF Store
<1>9. Grant(st, w, t, k) = [st EXCEPT !.rt = rt, !.active = active,
                                      !.leases = st.leases \cup {l}]
  BY <1>1, <1>4 DEF Grant, Store, GrantedLease
<1>10. IsFiniteSet(st.leases \cup {l}) /\ st.leases \cup {l} \in SUBSET Lease
  BY <1>1, <1>6, FS_AddElement DEF Store
<1> HIDE DEF q, l, active, rt
<1>11. LET new == Grant(st, w, t, k) IN
       /\ new \in Store
       /\ new.wf = st.wf
       /\ new.leases = st.leases \cup {l}
       /\ new.rt = rt
  BY <1>1, <1>7, <1>8, <1>9, <1>10 DEF Store
<1> QED
  BY <1>10, <1>11 DEF Typed, q, l, rt

(* Renewing a lease. *)
Extended(l) == [l EXCEPT !.ttl = LeaseDuration]

LEMMA RenewFields ==
  ASSUME NEW st, Typed(st), NEW l \in st.leases
  PROVE  LET new == Renew(st, l) IN
         /\ Typed(new)
         /\ new.wf = st.wf
         /\ new.leases = (st.leases \ {l}) \cup {Extended(l)}
         /\ new.active = st.active
         /\ new.rt = [st.rt EXCEPT
              ![l.task] = [st.rt[l.task] EXCEPT !.until = LeaseDuration]]
<1> DEFINE rt == [st.rt EXCEPT
                   ![l.task] = [st.rt[l.task] EXCEPT !.until = LeaseDuration]]
           L == (st.leases \ {l}) \cup {Extended(l)}
<1>1. st \in Store /\ IsFiniteSet(st.leases) /\ LeaseDuration \in Nat
  BY PolicyAssumption DEF Typed
<1>2. l \in Lease
  BY <1>1 DEF Store
<1>3. Extended(l) \in Lease /\ l.task \in Task
  BY <1>1, <1>2 DEF Extended, Lease
<1>4. [st.rt[l.task] EXCEPT !.until = LeaseDuration] \in Runtime
  BY <1>1, <1>3 DEF Store, Runtime, Timer
<1>5. rt \in [Task -> Runtime]
  BY <1>1, <1>3, <1>4 DEF Store
<1>6. Renew(st, l) = [st EXCEPT !.leases = L, !.rt = rt]
  BY <1>1 DEF Renew, Extended, Store
<1>7. IsFiniteSet(L)
  BY <1>1, FS_Subset, FS_AddElement
<1>8. L \in SUBSET Lease
  BY <1>1, <1>3 DEF Store
<1> HIDE DEF rt, L
<1>9. LET new == Renew(st, l) IN
      /\ new \in Store
      /\ new.wf = st.wf
      /\ new.leases = L
      /\ new.active = st.active
      /\ new.rt = rt
  BY <1>1, <1>5, <1>6, <1>8 DEF Store
<1> QED
  BY <1>7, <1>9 DEF Typed, rt, L

(* The runtime of a task that no lease is recorded in. *)
LeaseFree(r) == r.token = NoToken /\ r.owner = NoWorker /\ r.until = Nil

(* What closing a lease makes of its task. *)
ClosedTask(t, r, ok) ==
  Finish(t, [ClearLease(Begun(r)) EXCEPT !.finished = TRUE], ok)

LEMMA ClosedTaskEnds ==
  ASSUME NEW t \in Task, NEW r \in Runtime, NEW ok \in BOOLEAN,
         r.state \in Held, r.attempt > 0
  PROVE  LET q == ClosedTask(t, r, ok) IN
         /\ q \in Runtime
         /\ LeaseFree(q)
         /\ q.attempt = r.attempt
         /\ q.state \in {"SUCCEEDED", "FAILED", "RETRY_WAIT"}
         /\ q.state = "FAILED" => q.attempt >= MaxAttempts[t]
         /\ q.state = "RETRY_WAIT" => q.attempt < MaxAttempts[t]
<1> DEFINE c == [ClearLease(Begun(r)) EXCEPT !.finished = TRUE]
<1>1. /\ Begun(r) \in Runtime
      /\ Begun(r).state = "RUNNING"
      /\ Begun(r).attempt = r.attempt
  <2>1. CASE r.state = "RUNNING"
    BY <2>1 DEF Begun
  <2>2. CASE r.state = "LEASED"
    <3>1. TransitionTask(r, "RUNNING") = [r EXCEPT !.state = "RUNNING"]
      BY <2>2 DEF TransitionTask, ValidTaskTransitions
    <3> QED
      BY <2>2, <3>1 DEF Begun, Runtime, TaskState
  <2> QED
    BY <2>1, <2>2 DEF Held
<1>2. \A b \in Runtime :
        LET d == [ClearLease(b) EXCEPT !.finished = TRUE] IN
        /\ d \in Runtime
        /\ LeaseFree(d)
        /\ d.state = b.state
        /\ d.attempt = b.attempt
  BY DEF ClearLease, LeaseFree, Runtime, Timer, NoToken
<1>3. /\ c \in Runtime
      /\ LeaseFree(c)
      /\ c.state = "RUNNING"
      /\ c.attempt = r.attempt
  BY <1>1, <1>2
<1> HIDE DEF c
<1>4. \A v \in {"SUCCEEDED", "FAILED", "RETRY_WAIT"} :
        TransitionTask(c, v) = [c EXCEPT !.state = v]
  BY <1>3 DEF TransitionTask, ValidTaskTransitions
<1>5. \A v \in {"SUCCEEDED", "FAILED", "RETRY_WAIT"} :
        /\ [c EXCEPT !.state = v] \in Runtime
        /\ LeaseFree([c EXCEPT !.state = v])
        /\ [c EXCEPT !.state = v].state = v
        /\ [c EXCEPT !.state = v].attempt = r.attempt
  BY <1>3 DEF LeaseFree, Runtime, TaskState
<1>6. /\ MaxAttempts[t] \in Nat
      /\ r.attempt \in Nat
  BY PolicyAssumption DEF Runtime
<1>7. ClosedTask(t, r, ok) = Finish(t, c, ok)
  BY DEF ClosedTask, c
<1>8. CASE ok
  BY <1>4, <1>5, <1>7, <1>8 DEF Finish
<1>9. CASE ~ ok /\ r.attempt < MaxAttempts[t]
  <2> DEFINE n == Delay[t][r.attempt]
             w == [c EXCEPT !.state = "RETRY_WAIT"]
  <2>1. n \in Nat
    BY <1>6, <1>9, PolicyAssumption
  <2>2. ClosedTask(t, r, ok) = [w EXCEPT !.retryAt = n]
    BY <1>3, <1>4, <1>7, <1>9 DEF Finish
  <2> HIDE DEF n
  <2>3. /\ [w EXCEPT !.retryAt = n] \in Runtime
        /\ LeaseFree([w EXCEPT !.retryAt = n])
        /\ [w EXCEPT !.retryAt = n].state = "RETRY_WAIT"
        /\ [w EXCEPT !.retryAt = n].attempt = r.attempt
    BY <1>5, <2>1 DEF LeaseFree, Runtime, Timer
  <2> QED
    BY <1>9, <2>2, <2>3
<1>10. CASE ~ ok /\ ~ (r.attempt < MaxAttempts[t])
  <2>1. ClosedTask(t, r, ok) = [c EXCEPT !.state = "FAILED"]
    BY <1>3, <1>4, <1>7, <1>10 DEF Finish
  <2>2. r.attempt >= MaxAttempts[t]
    BY <1>6, <1>10
  <2> QED
    BY <1>5, <2>1, <2>2
<1> QED
  BY <1>8, <1>9, <1>10

LEMMA CloseFields ==
  ASSUME NEW st, Typed(st), NEW l \in st.leases, NEW ok \in BOOLEAN,
         st.rt[l.task].state \in Held, st.rt[l.task].attempt > 0
  PROVE  LET new == Close(st, l, ok) IN
         /\ Typed(new)
         /\ new.wf = st.wf
         /\ new.leases = st.leases \ {l}
         /\ new.rt = [st.rt EXCEPT
                        ![l.task] = ClosedTask(l.task, st.rt[l.task], ok)]
<1> DEFINE rt == [st.rt EXCEPT ![l.task] = ClosedTask(l.task, st.rt[l.task], ok)]
           L == st.leases \ {l}
<1>1. st \in Store /\ IsFiniteSet(st.leases) /\ l.task \in Task
  BY DEF Typed, Store, Lease
<1>2. rt \in [Task -> Runtime]
  BY <1>1, ClosedTaskEnds DEF Store
<1>3. Released(st, {l}) \in [Worker -> Nat]
  BY ReleasedTyped
<1>4. Close(st, l, ok) = [st EXCEPT !.leases = L, !.active = Released(st, {l}),
                                    !.rt = rt]
  BY <1>1 DEF Close, ClosedTask, Store
<1>5. IsFiniteSet(L) /\ L \in SUBSET Lease
  BY <1>1, FS_Subset DEF Store
<1> HIDE DEF rt, L
<1>6. LET new == Close(st, l, ok) IN
      /\ new \in Store
      /\ new.wf = st.wf
      /\ new.leases = L
      /\ new.rt = rt
  BY <1>1, <1>2, <1>3, <1>4, <1>5 DEF Store
<1> QED
  BY <1>5, <1>6 DEF Typed, rt, L

(* Cancelling a task ends it unless it has ended. *)
LEMMA CancelTaskEnds ==
  ASSUME NEW r \in Runtime
  PROVE  /\ CancelTask(r) \in Runtime
         /\ r.state \in Final => CancelTask(r) = r
         /\ r.state \notin Final => CancelTask(r).state = "CANCELLED"
<1>1. CASE r.state \in Final
  BY <1>1 DEF CancelTask
<1>2. CASE r.state \notin Final
  <2>1. CancelTask(r) = [r EXCEPT !.state = "CANCELLED", !.finished = TRUE]
    BY <1>2 DEF CancelTask
  <2> QED
    BY <1>2, <2>1 DEF Runtime, TaskState
<1> QED
  BY <1>1, <1>2

(* Cancelling a workflow: q is what becomes of its task t. *)
CancelledTask(st, f, t) ==
  IF \E l \in LeasesOf(st, f) : l.task = t /\ l.token = CancelTask(st.rt[t]).token
  THEN ClearLease(CancelTask(st.rt[t])) ELSE CancelTask(st.rt[t])

LEMMA CancelFields ==
  ASSUME NEW st, Typed(st), NEW f \in Workflow
  PROVE  LET new == Cancel(st, f) IN
         /\ Typed(new)
         /\ new.wf = [st.wf EXCEPT ![f] = "CANCELLED"]
         /\ new.leases = st.leases \ LeasesOf(st, f)
         /\ new.active = Released(st, LeasesOf(st, f))
         /\ new.rt = [t \in Task |-> IF WfOf[t] = f THEN CancelledTask(st, f, t)
                                                    ELSE st.rt[t]]
<1> DEFINE rt == [t \in Task |-> IF WfOf[t] = f THEN CancelledTask(st, f, t)
                                                ELSE st.rt[t]]
           L == st.leases \ LeasesOf(st, f)
           wf == [st.wf EXCEPT ![f] = "CANCELLED"]
<1>1. st \in Store /\ IsFiniteSet(st.leases)
  BY DEF Typed
<1>2. \A r \in Runtime : /\ ClearLease(r) \in Runtime
                         /\ CancelTask(r) \in Runtime
  <2>1. \A r \in Runtime : ClearLease(r) \in Runtime
    BY DEF ClearLease, Runtime, Timer, NoToken
  <2> QED
    BY <2>1, CancelTaskEnds
<1>3. rt \in [Task -> Runtime]
  BY <1>1, <1>2 DEF CancelledTask, Store
<1>4. LeasesOf(st, f) \in SUBSET st.leases
  BY DEF LeasesOf
<1>5. Released(st, LeasesOf(st, f)) \in [Worker -> Nat]
  BY <1>4, ReleasedTyped
<1>6. IsFiniteSet(L) /\ L \in SUBSET Lease
  BY <1>1, FS_Subset DEF Store
<1>7. wf \in [Workflow -> WorkflowState]
  BY <1>1 DEF Store, WorkflowState
<1>8. Cancel(st, f) = [st EXCEPT !.wf = wf, !.leases = L,
                                 !.active = Released(st, LeasesOf(st, f)),
                                 !.rt = rt]
  BY <1>1 DEF Cancel, CancelledTask, Store
<1> HIDE DEF rt, L, wf
<1>9. LET new == Cancel(st, f) IN
      /\ new \in Store
      /\ new.wf = wf
      /\ new.leases = L
      /\ new.active = Released(st, LeasesOf(st, f))
      /\ new.rt = rt
  BY <1>1, <1>3, <1>5, <1>6, <1>7, <1>8 DEF Store
<1> QED
  BY <1>6, <1>9 DEF Typed, rt, L, wf

(* Changing the runtime of one task, as starting a lease and logging do. *)
LEMMA UpdateFields ==
  ASSUME NEW st, Typed(st), NEW t \in Task, NEW q \in Runtime
  PROVE  LET new == [st EXCEPT !.rt[t] = q] IN
         /\ Typed(new)
         /\ new.wf = st.wf
         /\ new.leases = st.leases
         /\ new.rt = [st.rt EXCEPT ![t] = q]
BY DEF Typed, Store

(* A new workflow: its tasks start afresh. *)
Opened(st, f) ==
  [st EXCEPT !.wf[f] = "PENDING",
             !.rt = [t \in Task |-> IF WfOf[t] = f THEN NewRuntime ELSE st.rt[t]]]

LEMMA OpenedFields ==
  ASSUME NEW st, Typed(st), NEW f \in Workflow
  PROVE  LET new == Opened(st, f) IN
         /\ Typed(new)
         /\ new.wf = [st.wf EXCEPT ![f] = "PENDING"]
         /\ new.leases = st.leases
         /\ new.rt = [t \in Task |-> IF WfOf[t] = f THEN NewRuntime ELSE st.rt[t]]
<1>1. st \in Store /\ IsFiniteSet(st.leases)
  BY DEF Typed
<1>2. NewRuntime \in Runtime
  BY DEF NewRuntime, Runtime, TaskState, Timer, NoToken
<1>3. [t \in Task |-> IF WfOf[t] = f THEN NewRuntime ELSE st.rt[t]]
        \in [Task -> Runtime]
  BY <1>1, <1>2 DEF Store
<1>4. [st.wf EXCEPT ![f] = "PENDING"] \in [Workflow -> WorkflowState]
  BY <1>1 DEF Store, WorkflowState
<1> QED
  BY <1>1, <1>3, <1>4 DEF Opened, Typed, Store

(* Time passing: every deadline comes nearer. *)
Aged(l) == [l EXCEPT !.ttl = Less(l.ttl)]
AgedTask(r) == [r EXCEPT !.until = Less(r.until), !.retryAt = Less(r.retryAt)]
Later(st) ==
  [st EXCEPT !.leases = {Aged(l) : l \in st.leases},
             !.rt = [t \in Task |-> AgedTask(st.rt[t])]]

LEMMA LaterFields ==
  ASSUME NEW st, Typed(st)
  PROVE  /\ Typed(Later(st))
         /\ Later(st).wf = st.wf
         /\ Later(st).leases = {Aged(l) : l \in st.leases}
         /\ Later(st).active = st.active
         /\ Later(st).rt = [t \in Task |-> AgedTask(st.rt[t])]
<1> DEFINE L == {Aged(l) : l \in st.leases}
           rt == [t \in Task |-> AgedTask(st.rt[t])]
           image == [l \in st.leases |-> Aged(l)]
<1>1. st \in Store /\ IsFiniteSet(st.leases)
  BY DEF Typed
<1>2. /\ \A n \in Nat : Less(n) \in Nat
      /\ \A n \in Timer : Less(n) \in Timer
  BY DEF Less, Timer, Nil
<1>3. \A l \in Lease : Aged(l) \in Lease
  BY <1>2 DEF Aged, Lease
<1>4. \A r \in Runtime : AgedTask(r) \in Runtime
  BY <1>2 DEF AgedTask, Runtime
<1>5. L \in SUBSET Lease /\ rt \in [Task -> Runtime]
  BY <1>1, <1>3, <1>4 DEF Store
<1>6. IsFiniteSet(L)
  <2>1. image \in Surjection(st.leases, L)
    BY DEF Surjection
  <2> QED
    BY <1>1, <2>1, FS_Surjection
<1>7. Later(st) = [st EXCEPT !.leases = L, !.rt = rt]
  BY DEF Later
<1> HIDE DEF L, rt
<1>8. /\ Later(st) \in Store
      /\ Later(st).wf = st.wf
      /\ Later(st).leases = L
      /\ Later(st).active = st.active
      /\ Later(st).rt = rt
  BY <1>1, <1>5, <1>7 DEF Store
<1> QED
  BY <1>6, <1>8 DEF Typed, L, rt

-----------------------------------------------------------------------------
(* The inductive invariant, part by part, of any store.  LeaseMatchesTask and
   DependenciesDone are parts as they stand; TypeOK is not inductive alone,
   since the retry delay is defined only from the first attempt on; and a
   workflow may be opened only because nothing has touched its tasks yet. *)

Describes(r, l) == /\ r.state \in Held
                   /\ r.token = l.token
                   /\ r.owner = l.worker
                   /\ r.until = l.ttl
                   /\ r.attempt = l.attempt

Matches(st) ==
  /\ \A l \in st.leases : Describes(st.rt[l.task], l)
  /\ \A t \in Task : IF st.rt[t].state \in Held
                     THEN \E l \in st.leases : l.task = t
                     ELSE LeaseFree(st.rt[t])

Untouched(st) ==
  \A t \in Task : st.wf[WfOf[t]] = "ABSENT" => st.rt[t].state = "PENDING"

Attempted(st) == \A t \in Task : st.rt[t].state \in Held => st.rt[t].attempt > 0

Ordered(st) ==
  \A t \in Task : st.rt[t].state \notin {"PENDING", "CANCELLED"} => DepsDone(st, t)

WithinBudget(st) ==
  \A t \in Task :
    /\ st.rt[t].state = "FAILED" => st.rt[t].attempt >= MaxAttempts[t]
    /\ st.rt[t].state = "RETRY_WAIT" => st.rt[t].attempt < MaxAttempts[t]

Sound(st) == /\ Typed(st)
             /\ Matches(st)
             /\ Untouched(st)
             /\ Attempted(st)
             /\ Ordered(st)
             /\ WithinBudget(st)

(* A task has one lease at most. *)
LEMMA OneLease ==
  ASSUME NEW st, Typed(st), Matches(st),
         NEW l \in st.leases, NEW m \in st.leases, l.task = m.task
  PROVE  l = m
<1>1. /\ l.token = m.token
      /\ l.worker = m.worker
      /\ l.attempt = m.attempt
      /\ l.ttl = m.ttl
  BY DEF Matches, Describes
<1>2. l \in Lease /\ m \in Lease
  BY DEF Typed, Store
<1> QED
  BY <1>1, <1>2 DEF Lease

LEMMA RecomputeSound ==
  ASSUME NEW st, Sound(st), NEW F
  PROVE  Sound(Recompute(st, F))
<1> DEFINE new == Recompute(st, F)
<1>1. st \in Store /\ Typed(st)
  BY DEF Sound, Typed
<1>2. /\ new \in Store
      /\ new.leases = st.leases
      /\ \A t \in Task :
           new.rt[t] = IF WfOf[t] \in F /\ st.wf[WfOf[t]] \in Open
                       THEN RecomputeTask(st, WfOf[t], t) ELSE st.rt[t]
      /\ \A f \in Workflow :
           IF f \in F /\ st.wf[f] \in Open
           THEN new.wf[f] \in {"RUNNING", "SUCCEEDED", "FAILED"}
           ELSE new.wf[f] = st.wf[f]
  BY <1>1, RecomputeFields
<1>3. ASSUME NEW t \in Task PROVE Kept(st, t, new.rt[t])
  <2>1. Passed(st, t, RecomputeTask(st, WfOf[t], t))
    BY <1>1, RecomputeTaskCases
  <2>2. Passed(st, t, st.rt[t])
    BY DEF Passed
  <2>3. Passed(st, t, new.rt[t])
    BY <1>2, <2>1, <2>2
  <2> QED
    BY <1>1, <2>3, PassedKeeps
<1>4. \A t \in Task : WfOf[t] \in Workflow /\ Deps[t] \in SUBSET Task
  BY GraphAssumption
<1>5. \A t \in Task : /\ st.rt[t].state \in TaskState
                      /\ new.rt[t].state \in TaskState
  BY <1>1, <1>2 DEF Store, Runtime
<1> HIDE DEF new
<1>6. Typed(new)
  BY <1>1, <1>2 DEF Typed
<1>7. Matches(new)
  <2>1. ASSUME NEW l \in new.leases PROVE Describes(new.rt[l.task], l)
    BY <1>1, <1>2, <1>3, <2>1 DEF Sound, Matches, Describes, Kept, Store, Lease
  <2>2. ASSUME NEW t \in Task
        PROVE  IF new.rt[t].state \in Held
               THEN \E l \in new.leases : l.task = t ELSE LeaseFree(new.rt[t])
    BY <1>2, <1>3, <2>2 DEF Sound, Matches, Kept, LeaseFree
  <2> QED
    BY <2>1, <2>2 DEF Matches
<1>8. Untouched(new)
  BY <1>2, <1>4 DEF Sound, Untouched, Open
<1>9. Attempted(new)
  BY <1>3 DEF Sound, Attempted, Kept
<1>10. Ordered(new)
  <2> SUFFICES ASSUME NEW t \in Task, new.rt[t].state \notin {"PENDING", "CANCELLED"},
                      NEW d \in Deps[t]
               PROVE  new.rt[d].state = "SUCCEEDED"
    BY DEF Ordered, DepsDone
  <2>1. DepsDone(st, t)
    BY <1>3, <1>5 DEF Sound, Ordered, Kept, Held, Final, TaskState
  <2>2. st.rt[d].state = "SUCCEEDED" /\ d \in Task
    BY <1>4, <2>1 DEF DepsDone
  <2> QED
    BY <1>3, <2>2 DEF Kept, Final
<1>11. WithinBudget(new)
  BY <1>3 DEF Sound, WithinBudget, Kept
<1> QED
  BY <1>6, <1>7, <1>8, <1>9, <1>10, <1>11 DEF Sound, new

LEMMA ExpireSound ==
  ASSUME NEW st, Sound(st), NEW L \in SUBSET st.leases
  PROVE  Sound(Expire(st, L))
<1> DEFINE new == Expire(st, L)
           Hit(t) == \E l \in L : l.task = t /\ l.token = st.rt[t].token
<1>1. st \in Store /\ Typed(st) /\ Matches(st)
  BY DEF Sound, Typed
<1>2. /\ Typed(new)
      /\ new.wf = st.wf
      /\ new.leases = st.leases \ L
      /\ \A t \in Task :
           new.rt[t] = IF Hit(t) THEN ExpireTask(st.rt[t]) ELSE st.rt[t]
  BY <1>1, ExpireFields
<1>3. ASSUME NEW t \in Task, Hit(t)
      PROVE  /\ st.rt[t].state \in Held
             /\ new.rt[t].state = "READY"
             /\ LeaseFree(new.rt[t])
             /\ new.rt[t].attempt = st.rt[t].attempt
  <2>1. st.rt[t].state \in Held
    BY <1>1, <1>3 DEF Matches, Describes
  <2>2. \A r \in Runtime : r.state \in Held =>
          /\ ExpireTask(r).state = "READY"
          /\ LeaseFree(ExpireTask(r))
          /\ ExpireTask(r).attempt = r.attempt
    BY DEF ExpireTask, ClearLease, LeaseFree, Runtime
  <2>3. st.rt[t] \in Runtime
    BY <1>1 DEF Store
  <2>4. new.rt[t] = ExpireTask(st.rt[t])
    BY <1>2, <1>3
  <2> QED
    BY <2>1, <2>2, <2>3, <2>4
<1>4. ASSUME NEW t \in Task, ~ Hit(t) PROVE new.rt[t] = st.rt[t]
  BY <1>2, <1>4
<1>5. ASSUME NEW l \in L PROVE Hit(l.task) /\ l.task \in Task
  BY <1>1 DEF Matches, Describes, Store, Lease
<1> HIDE DEF new, Hit
<1>6. Matches(new)
  <2>1. ASSUME NEW l \in new.leases PROVE Describes(new.rt[l.task], l)
    <3>1. l \in st.leases /\ l \notin L /\ l.task \in Task
      BY <1>1, <1>2 DEF Store, Lease
    <3>2. \A m \in L : m.task # l.task
      BY <1>1, <3>1, OneLease
    <3>3. ~ Hit(l.task)
      BY <3>2 DEF Hit
    <3> QED
      BY <1>1, <1>4, <3>1, <3>3 DEF Matches
  <2>2. ASSUME NEW t \in Task
        PROVE  IF new.rt[t].state \in Held
               THEN \E l \in new.leases : l.task = t ELSE LeaseFree(new.rt[t])
    <3>1. CASE Hit(t)
      BY <1>3, <3>1 DEF Held
    <3>2. CASE ~ Hit(t)
      BY <1>1, <1>2, <1>4, <1>5, <3>2 DEF Matches
    <3> QED
      BY <3>1, <3>2
  <2> QED
    BY <2>1, <2>2 DEF Matches
<1>7. Untouched(new)
  <2> SUFFICES ASSUME NEW t \in Task, st.wf[WfOf[t]] = "ABSENT"
               PROVE  new.rt[t].state = "PENDING"
    BY <1>2 DEF Untouched
  <2>1. st.rt[t].state = "PENDING"
    BY DEF Sound, Untouched
  <2> QED
    BY <1>3, <1>4, <2>1 DEF Held
<1>8. Attempted(new)
  BY <1>3, <1>4 DEF Sound, Attempted, Held
<1>9. Ordered(new)
  <2> SUFFICES ASSUME NEW t \in Task, new.rt[t].state \notin {"PENDING", "CANCELLED"},
                      NEW d \in Deps[t]
               PROVE  new.rt[d].state = "SUCCEEDED"
    BY DEF Ordered, DepsDone
  <2>1. DepsDone(st, t)
    BY <1>3, <1>4 DEF Sound, Ordered, Held
  <2>2. st.rt[d].state = "SUCCEEDED" /\ d \in Task
    BY <2>1, GraphAssumption DEF DepsDone
  <2> QED
    BY <1>3, <1>4, <2>2 DEF Held
<1>10. WithinBudget(new)
  BY <1>3, <1>4 DEF Sound, WithinBudget
<1> QED
  BY <1>2, <1>6, <1>7, <1>8, <1>9, <1>10 DEF Sound, new

LEMMA SweptSound ==
  ASSUME NEW st, Sound(st), NEW F
  PROVE  Sound(Swept(st)) /\ Sound(Recompute(Swept(st), F))
<1>1. Overdue(st) \in SUBSET st.leases
  BY DEF Overdue
<1>2. Sound(Expire(st, Overdue(st)))
  BY <1>1, ExpireSound
<1>3. Sound(Swept(st))
  BY <1>2, RecomputeSound DEF Swept
<1> QED
  BY <1>3, RecomputeSound

(* The methods that act on one task which is ready or held keep the parts of
   the invariant that do not speak of leases. *)
LEMMA OneTaskSound ==
  ASSUME NEW st, Sound(st), NEW new, Typed(new), new.wf = st.wf,
         NEW t \in Task, NEW q \in Runtime, new.rt = [st.rt EXCEPT ![t] = q],
         st.rt[t].state \in {"READY", "LEASED", "RUNNING"},
         q.state \in Held \cup {"SUCCEEDED", "FAILED", "RETRY_WAIT"},
         q.state \in Held => q.attempt > 0,
         q.state = "FAILED" => q.attempt >= MaxAttempts[t],
         q.state = "RETRY_WAIT" => q.attempt < MaxAttempts[t]
  PROVE  /\ Untouched(new)
         /\ Attempted(new)
         /\ Ordered(new)
         /\ WithinBudget(new)
<1>1. /\ new.rt[t] = q
      /\ \A u \in Task : u # t => new.rt[u] = st.rt[u]
  BY DEF Sound, Typed, Store
<1>2. Untouched(new)
  BY <1>1 DEF Sound, Untouched
<1>3. Attempted(new)
  BY <1>1 DEF Sound, Attempted
<1>4. Ordered(new)
  <2> SUFFICES ASSUME NEW u \in Task, new.rt[u].state \notin {"PENDING", "CANCELLED"},
                      NEW d \in Deps[u]
               PROVE  new.rt[d].state = "SUCCEEDED"
    BY DEF Ordered, DepsDone
  <2>1. DepsDone(st, u)
    BY <1>1 DEF Sound, Ordered
  <2>2. st.rt[d].state = "SUCCEEDED" /\ d \in Task
    BY <2>1, GraphAssumption DEF DepsDone
  <2> QED
    BY <1>1, <2>2
<1>5. WithinBudget(new)
  BY <1>1 DEF Sound, WithinBudget
<1> QED
  BY <1>2, <1>3, <1>4, <1>5

LEMMA GrantSound ==
  ASSUME NEW st, Sound(st), NEW w \in Worker, NEW t \in Task,
         NEW k \in Nat \ {0}, st.rt[t].state = "READY"
  PROVE  Sound(Grant(st, w, t, k))
<1> DEFINE new == Grant(st, w, t, k)
           q == GrantedTask(st.rt[t], w, k)
           g == GrantedLease(st, w, t, k)
<1>1. st \in Store /\ Typed(st) /\ Matches(st) /\ st.rt[t] \in Runtime
  BY DEF Sound, Typed, Store
<1>2. /\ Typed(new)
      /\ new.wf = st.wf
      /\ new.leases = st.leases \cup {g}
      /\ new.rt = [st.rt EXCEPT ![t] = q]
  BY <1>1, GrantFields
<1>3. q \in Runtime /\ q.state = "LEASED" /\ q.attempt > 0 /\ Describes(q, g)
  <2>1. q \in Runtime
    BY <1>1, GrantedTaskTyped
  <2>2. \A r \in Runtime :
          /\ GrantedTask(r, w, k).state = "LEASED"
          /\ GrantedTask(r, w, k).attempt = r.attempt + 1
          /\ GrantedTask(r, w, k).token = k
          /\ GrantedTask(r, w, k).owner = w
          /\ GrantedTask(r, w, k).until = LeaseDuration
          /\ r.attempt + 1 > 0
    BY DEF GrantedTask, Runtime
  <2>3. /\ g.token = k
        /\ g.worker = w
        /\ g.ttl = LeaseDuration
        /\ g.attempt = st.rt[t].attempt + 1
    BY DEF GrantedLease
  <2> QED
    BY <1>1, <2>1, <2>2, <2>3 DEF Describes, Held
<1>4. g.task = t
  BY DEF GrantedLease
<1> HIDE DEF new, q, g
<1>5. /\ new.rt[t] = q
      /\ \A u \in Task : u # t => new.rt[u] = st.rt[u]
  BY <1>1, <1>2 DEF Store
<1>6. \A l \in st.leases : l.task \in Task /\ l.task # t
  BY <1>1 DEF Matches, Describes, Held, Store, Lease
<1>7. Matches(new)
  BY <1>1, <1>2, <1>3, <1>4, <1>5, <1>6 DEF Matches, Held
<1>8. Untouched(new) /\ Attempted(new) /\ Ordered(new) /\ WithinBudget(new)
  BY <1>2, <1>3, OneTaskSound DEF Held
<1> QED
  BY <1>2, <1>7, <1>8 DEF Sound, new

LEMMA RenewSound ==
  ASSUME NEW st, Sound(st), NEW l \in st.leases
  PROVE  Sound(Renew(st, l))
<1> DEFINE new == Renew(st, l)
           t == l.task
           q == [st.rt[t] EXCEPT !.until = LeaseDuration]
           x == Extended(l)
<1>1. st \in Store /\ Typed(st) /\ Matches(st) /\ l \in Lease
  BY DEF Sound, Typed, Store
<1>2. /\ Typed(new)
      /\ new.wf = st.wf
      /\ new.leases = (st.leases \ {l}) \cup {x}
      /\ new.rt = [st.rt EXCEPT ![t] = q]
  BY <1>1, RenewFields
<1>3. t \in Task /\ st.rt[t] \in Runtime /\ Describes(st.rt[t], l)
  BY <1>1 DEF Store, Lease, Matches
<1>4. /\ q \in Runtime
      /\ q.state = st.rt[t].state
      /\ q.attempt = st.rt[t].attempt
      /\ Describes(q, x)
      /\ x.task = t
  <2>1. LeaseDuration \in Timer
    BY PolicyAssumption DEF Timer
  <2>2. \A r \in Runtime : [r EXCEPT !.until = LeaseDuration] \in Runtime
    BY <2>1 DEF Runtime
  <2>3. \A r \in Runtime, m \in Lease :
          Describes(r, m) => Describes([r EXCEPT !.until = LeaseDuration], Extended(m))
    BY DEF Describes, Extended, Runtime, Lease
  <2>4. \A r \in Runtime : /\ [r EXCEPT !.until = LeaseDuration].state = r.state
                           /\ [r EXCEPT !.until = LeaseDuration].attempt = r.attempt
    BY DEF Runtime
  <2>5. Extended(l).task = l.task
    BY <1>1 DEF Extended, Lease
  <2> QED
    BY <1>1, <1>3, <2>2, <2>3, <2>4, <2>5
<1>5. st.rt[t].state \in Held /\ st.rt[t].attempt > 0
  BY <1>3 DEF Sound, Attempted, Describes
<1>6. \A m \in st.leases : m.task = t => m = l
  BY <1>1, OneLease
<1> HIDE DEF new, t, q, x
<1>7. /\ new.rt[t] = q
      /\ \A u \in Task : u # t => new.rt[u] = st.rt[u]
  BY <1>1, <1>2, <1>3 DEF Store
<1>8. Matches(new)
  <2>1. ASSUME NEW m \in new.leases PROVE Describes(new.rt[m.task], m)
    <3>1. CASE m = x
      BY <1>4, <1>7, <3>1
    <3>2. CASE m # x
      <4>1. m \in st.leases /\ m.task # t /\ m.task \in Task
        BY <1>1, <1>2, <1>6, <3>2 DEF Store, Lease
      <4> QED
        BY <1>1, <1>7, <4>1 DEF Matches
    <3> QED
      BY <3>1, <3>2
  <2>2. ASSUME NEW u \in Task
        PROVE  IF new.rt[u].state \in Held
               THEN \E m \in new.leases : m.task = u ELSE LeaseFree(new.rt[u])
    <3>1. CASE u = t
      BY <1>2, <1>4, <1>5, <1>7, <3>1
    <3>2. CASE u # t
      <4>1. l.task = t
        BY DEF t
      <4> QED
        BY <1>1, <1>2, <1>7, <3>2, <4>1 DEF Matches
    <3> QED
      BY <3>1, <3>2
  <2> QED
    BY <2>1, <2>2 DEF Matches
<1>9. Untouched(new) /\ Attempted(new) /\ Ordered(new) /\ WithinBudget(new)
  BY <1>2, <1>3, <1>4, <1>5, OneTaskSound DEF Held
<1> QED
  BY <1>2, <1>8, <1>9 DEF Sound, new

LEMMA CloseSound ==
  ASSUME NEW st, Sound(st), NEW l \in st.leases, NEW ok \in BOOLEAN
  PROVE  Sound(Close(st, l, ok))
<1> DEFINE new == Close(st, l, ok)
           t == l.task
           q == ClosedTask(t, st.rt[t], ok)
<1>1. st \in Store /\ Typed(st) /\ Matches(st)
  BY DEF Sound, Typed
<1>2. t \in Task /\ st.rt[t] \in Runtime
  BY <1>1 DEF Store, Lease
<1>3. st.rt[t].state \in Held /\ st.rt[t].attempt > 0
  BY <1>1, <1>2 DEF Sound, Attempted, Matches, Describes
<1>4. /\ Typed(new)
      /\ new.wf = st.wf
      /\ new.leases = st.leases \ {l}
      /\ new.rt = [st.rt EXCEPT ![t] = q]
  BY <1>1, <1>3, CloseFields
<1>5. /\ q \in Runtime
      /\ LeaseFree(q)
      /\ q.state \in {"SUCCEEDED", "FAILED", "RETRY_WAIT"}
      /\ q.state = "FAILED" => q.attempt >= MaxAttempts[t]
      /\ q.state = "RETRY_WAIT" => q.attempt < MaxAttempts[t]
  BY <1>2, <1>3, ClosedTaskEnds
<1>6. \A m \in st.leases : m.task = t => m = l
  BY <1>1, OneLease
<1>7. l.task = t /\ \A m \in st.leases : m.task \in Task
  BY <1>1 DEF Store, Lease
<1> HIDE DEF new, t, q
<1>8. /\ new.rt[t] = q
      /\ \A u \in Task : u # t => new.rt[u] = st.rt[u]
  BY <1>1, <1>2, <1>4 DEF Store
<1>9. Matches(new)
  <2>1. ASSUME NEW m \in new.leases PROVE Describes(new.rt[m.task], m)
    BY <1>1, <1>4, <1>6, <1>7, <1>8 DEF Matches
  <2>2. ASSUME NEW u \in Task
        PROVE  IF new.rt[u].state \in Held
               THEN \E m \in new.leases : m.task = u ELSE LeaseFree(new.rt[u])
    <3>1. CASE u = t
      BY <1>5, <1>8, <3>1 DEF Held
    <3>2. CASE u # t
      BY <1>1, <1>4, <1>7, <1>8, <3>2 DEF Matches
    <3> QED
      BY <3>1, <3>2
  <2> QED
    BY <2>1, <2>2 DEF Matches
<1>10. Untouched(new) /\ Attempted(new) /\ Ordered(new) /\ WithinBudget(new)
  BY <1>2, <1>3, <1>4, <1>5, OneTaskSound DEF Held
<1> QED
  BY <1>4, <1>9, <1>10 DEF Sound, new

(* Starting a lease and logging leave the lease fields of the task alone. *)
LEMMA UpdateSound ==
  ASSUME NEW st, Sound(st), NEW l \in st.leases, NEW q \in Runtime,
         q.state \in Held,
         q.token = st.rt[l.task].token, q.owner = st.rt[l.task].owner,
         q.until = st.rt[l.task].until, q.attempt = st.rt[l.task].attempt
  PROVE  Sound([st EXCEPT !.rt[l.task] = q])
<1> DEFINE new == [st EXCEPT !.rt[l.task] = q]
           t == l.task
<1>1. st \in Store /\ Typed(st) /\ Matches(st)
  BY DEF Sound, Typed
<1>2. t \in Task /\ Describes(st.rt[t], l)
  BY <1>1 DEF Store, Lease, Matches
<1>3. /\ Typed(new)
      /\ new.wf = st.wf
      /\ new.leases = st.leases
      /\ new.rt = [st.rt EXCEPT ![t] = q]
  BY <1>1, <1>2, UpdateFields
<1>4. st.rt[t].state \in Held /\ q.attempt > 0 /\ Describes(q, l)
  BY <1>2 DEF Sound, Attempted, Describes
<1>5. \A m \in st.leases : m.task \in Task /\ (m.task = t => m = l)
  BY <1>1, OneLease DEF Store, Lease
<1>6. l.task = t
  OBVIOUS
<1> HIDE DEF new, t
<1>7. /\ new.rt[t] = q
      /\ \A u \in Task : u # t => new.rt[u] = st.rt[u]
  BY <1>1, <1>2, <1>3 DEF Store
<1>8. Matches(new)
  <2>1. ASSUME NEW m \in new.leases PROVE Describes(new.rt[m.task], m)
    BY <1>1, <1>3, <1>4, <1>5, <1>7 DEF Matches
  <2>2. ASSUME NEW u \in Task
        PROVE  IF new.rt[u].state \in Held
               THEN \E m \in new.leases : m.task = u ELSE LeaseFree(new.rt[u])
    BY <1>1, <1>3, <1>6, <1>7 DEF Matches
  <2> QED
    BY <2>1, <2>2 DEF Matches
<1>9. Untouched(new) /\ Attempted(new) /\ Ordered(new) /\ WithinBudget(new)
  BY <1>2, <1>3, <1>4, OneTaskSound DEF Held
<1> QED
  BY <1>3, <1>8, <1>9 DEF Sound, new

LEMMA CancelSound ==
  ASSUME NEW st, Sound(st), NEW f \in Workflow
  PROVE  Sound(Cancel(st, f))
<1> DEFINE new == Cancel(st, f)
           L == LeasesOf(st, f)
<1>1. st \in Store /\ Typed(st) /\ Matches(st)
  BY DEF Sound, Typed
<1>2. /\ Typed(new)
      /\ new.wf = [st.wf EXCEPT ![f] = "CANCELLED"]
      /\ new.leases = st.leases \ L
      /\ new.rt = [t \in Task |-> IF WfOf[t] = f THEN CancelledTask(st, f, t)
                                                 ELSE st.rt[t]]
  BY <1>1, CancelFields
<1>3. L = {l \in st.leases : WfOf[l.task] = f}
  BY DEF LeasesOf
<1>4. \A l \in st.leases : l.task \in Task /\ l.token # NoToken
  BY <1>1 DEF Store, Lease, NoToken
<1> HIDE DEF new, L
<1>5. ASSUME NEW t \in Task, WfOf[t] = f
      PROVE  /\ LeaseFree(new.rt[t])
             /\ new.rt[t].state \notin Held
             /\ IF st.rt[t].state \in Final THEN new.rt[t] = st.rt[t]
                                            ELSE new.rt[t].state = "CANCELLED"
  <2> DEFINE r == st.rt[t]
             c == CancelTask(r)
             Freed == \E l \in L : l.task = t /\ l.token = c.token
  <2>1. r \in Runtime /\ new.rt[t] = IF Freed THEN ClearLease(c) ELSE c
    BY <1>1, <1>2, <1>5 DEF CancelledTask, Store, L
  <2>2. /\ c \in Runtime
        /\ c.token = r.token
        /\ c.owner = r.owner
        /\ c.until = r.until
        /\ r.state \in Final => c = r
        /\ r.state \notin Final => c.state = "CANCELLED"
    BY <2>1 DEF CancelTask, Runtime, TaskState
  <2> HIDE DEF c, r
  <2>3. /\ LeaseFree(ClearLease(c))
        /\ ClearLease(c).state = c.state
    BY <2>2 DEF ClearLease, LeaseFree, Runtime
  <2>4. CASE r.state \in Held
    <3>1. Freed
      BY <1>1, <1>3, <1>5, <2>2, <2>4 DEF Matches, Describes, r
    <3> QED
      BY <2>1, <2>2, <2>3, <2>4, <3>1 DEF Held, Final, r
  <2>5. CASE r.state \notin Held
    <3>1. LeaseFree(r)
      BY <1>1, <2>5 DEF Matches, r
    <3>2. ~ Freed
      BY <1>3, <1>4, <2>2, <3>1 DEF LeaseFree
    <3> QED
      BY <2>1, <2>2, <2>5, <3>1, <3>2 DEF Held, Final, LeaseFree, r
  <2> QED
    BY <2>4, <2>5
<1>6. ASSUME NEW t \in Task, WfOf[t] # f PROVE new.rt[t] = st.rt[t]
  BY <1>2, <1>6
<1>7. Matches(new)
  <2>1. ASSUME NEW l \in new.leases PROVE Describes(new.rt[l.task], l)
    BY <1>1, <1>2, <1>3, <1>4, <1>6 DEF Matches
  <2>2. ASSUME NEW t \in Task
        PROVE  IF new.rt[t].state \in Held
               THEN \E l \in new.leases : l.task = t ELSE LeaseFree(new.rt[t])
    <3>1. CASE WfOf[t] = f
      BY <1>5, <3>1
    <3>2. CASE WfOf[t] # f
      BY <1>1, <1>2, <1>3, <1>6, <3>2 DEF Matches
    <3> QED
      BY <3>1, <3>2
  <2> QED
    BY <2>1, <2>2 DEF Matches
<1>8. Untouched(new)
  <2> SUFFICES ASSUME NEW t \in Task, new.wf[WfOf[t]] = "ABSENT"
               PROVE  new.rt[t].state = "PENDING"
    BY DEF Untouched
  <2>1. WfOf[t] # f /\ st.wf[WfOf[t]] = "ABSENT"
    BY <1>1, <1>2, GraphAssumption DEF Store
  <2> QED
    BY <1>6, <2>1 DEF Sound, Untouched
<1>9. Attempted(new)
  BY <1>5, <1>6 DEF Sound, Attempted
<1>10. Ordered(new)
  <2> SUFFICES ASSUME NEW t \in Task, new.rt[t].state \notin {"PENDING", "CANCELLED"},
                      NEW d \in Deps[t]
               PROVE  new.rt[d].state = "SUCCEEDED"
    BY DEF Ordered, DepsDone
  <2>1. new.rt[t] = st.rt[t]
    BY <1>5, <1>6
  <2>2. st.rt[d].state = "SUCCEEDED" /\ d \in Task
    BY <2>1, GraphAssumption DEF Sound, Ordered, DepsDone
  <2> QED
    BY <1>5, <1>6, <2>2 DEF Final
<1>11. WithinBudget(new)
  BY <1>5, <1>6 DEF Sound, WithinBudget
<1> QED
  BY <1>2, <1>7, <1>8, <1>9, <1>10, <1>11 DEF Sound, new

LEMMA OpenedSound ==
  ASSUME NEW st, Sound(st), NEW f \in Workflow, st.wf[f] = "ABSENT"
  PROVE  Sound(Opened(st, f))
<1> DEFINE new == Opened(st, f)
<1>1. st \in Store /\ Typed(st) /\ Matches(st)
  BY DEF Sound, Typed
<1>2. /\ Typed(new)
      /\ new.wf = [st.wf EXCEPT ![f] = "PENDING"]
      /\ new.leases = st.leases
      /\ new.rt = [t \in Task |-> IF WfOf[t] = f THEN NewRuntime ELSE st.rt[t]]
  BY <1>1, OpenedFields
<1> HIDE DEF new
<1>3. \A t \in Task : WfOf[t] = f => /\ st.rt[t].state = "PENDING"
                                     /\ new.rt[t] = NewRuntime
  BY <1>2 DEF Sound, Untouched
<1>4. \A t \in Task : WfOf[t] # f => new.rt[t] = st.rt[t]
  BY <1>2
<1>5. NewRuntime.state = "PENDING" /\ LeaseFree(NewRuntime)
  BY DEF NewRuntime, LeaseFree
<1>6. Matches(new)
  <2>1. ASSUME NEW l \in new.leases PROVE Describes(new.rt[l.task], l)
    <3>1. l.task \in Task /\ Describes(st.rt[l.task], l)
      BY <1>1, <1>2 DEF Store, Lease, Matches
    <3> QED
      BY <1>3, <1>4, <3>1 DEF Describes, Held
  <2>2. ASSUME NEW t \in Task
        PROVE  IF new.rt[t].state \in Held
               THEN \E l \in new.leases : l.task = t ELSE LeaseFree(new.rt[t])
    BY <1>1, <1>2, <1>3, <1>4, <1>5 DEF Matches, Held
  <2> QED
    BY <2>1, <2>2 DEF Matches
<1>7. Untouched(new)
  <2> SUFFICES ASSUME NEW t \in Task, new.wf[WfOf[t]] = "ABSENT"
               PROVE  new.rt[t].state = "PENDING"
    BY DEF Untouched
  <2>1. WfOf[t] # f /\ st.wf[WfOf[t]] = "ABSENT"
    BY <1>1, <1>2, GraphAssumption DEF Store
  <2> QED
    BY <1>4, <2>1 DEF Sound, Untouched
<1>8. Attempted(new)
  BY <1>3, <1>4, <1>5 DEF Sound, Attempted, Held
<1>9. Ordered(new)
  <2> SUFFICES ASSUME NEW t \in Task, new.rt[t].state \notin {"PENDING", "CANCELLED"},
                      NEW d \in Deps[t]
               PROVE  new.rt[d].state = "SUCCEEDED"
    BY DEF Ordered, DepsDone
  <2>1. WfOf[t] # f /\ new.rt[t] = st.rt[t]
    BY <1>3, <1>4, <1>5
  <2>2. st.rt[d].state = "SUCCEEDED" /\ d \in Task /\ WfOf[d] = WfOf[t]
    BY <2>1, GraphAssumption DEF Sound, Ordered, DepsDone
  <2> QED
    BY <1>4, <2>1, <2>2
<1>10. WithinBudget(new)
  BY <1>3, <1>4, <1>5 DEF Sound, WithinBudget
<1> QED
  BY <1>2, <1>6, <1>7, <1>8, <1>9, <1>10 DEF Sound, new

LEMMA LaterSound ==
  ASSUME NEW st, Sound(st)
  PROVE  Sound(Later(st))
<1> DEFINE new == Later(st)
<1>1. st \in Store /\ Typed(st) /\ Matches(st)
  BY DEF Sound, Typed
<1>2. /\ Typed(new)
      /\ new.wf = st.wf
      /\ new.leases = {Aged(l) : l \in st.leases}
      /\ new.rt = [t \in Task |-> AgedTask(st.rt[t])]
  BY <1>1, LaterFields
<1> HIDE DEF new
<1>3. \A r \in Runtime : /\ AgedTask(r).state = r.state
                         /\ AgedTask(r).attempt = r.attempt
                         /\ LeaseFree(r) => LeaseFree(AgedTask(r))
  BY DEF AgedTask, LeaseFree, Runtime, Less, Nil
<1>4. ASSUME NEW r \in Runtime, NEW l \in Lease, Describes(r, l)
      PROVE  Describes(AgedTask(r), Aged(l)) /\ Aged(l).task = l.task
  <2>1. /\ AgedTask(r).state = r.state
        /\ AgedTask(r).token = r.token
        /\ AgedTask(r).owner = r.owner
        /\ AgedTask(r).attempt = r.attempt
        /\ AgedTask(r).until = Less(r.until)
    BY DEF AgedTask, Runtime
  <2>2. /\ Aged(l).token = l.token
        /\ Aged(l).task = l.task
        /\ Aged(l).worker = l.worker
        /\ Aged(l).attempt = l.attempt
        /\ Aged(l).ttl = Less(l.ttl)
    BY DEF Aged, Lease
  <2> QED
    BY <1>4, <2>1, <2>2 DEF Describes
<1>5. \A t \in Task : /\ st.rt[t] \in Runtime
                      /\ new.rt[t] = AgedTask(st.rt[t])
                      /\ new.rt[t].state = st.rt[t].state
                      /\ new.rt[t].attempt = st.rt[t].attempt
  BY <1>1, <1>2, <1>3 DEF Store
<1>6. \A l \in st.leases : /\ l \in Lease
                           /\ l.task \in Task
                           /\ Describes(st.rt[l.task], l)
  BY <1>1 DEF Store, Lease, Matches
<1>7. Matches(new)
  <2>1. ASSUME NEW m \in new.leases PROVE Describes(new.rt[m.task], m)
    <3>1. PICK l \in st.leases : m = Aged(l)
      BY <1>2
    <3> QED
      BY <1>4, <1>5, <1>6, <3>1
  <2>2. ASSUME NEW t \in Task
        PROVE  IF new.rt[t].state \in Held
               THEN \E m \in new.leases : m.task = t ELSE LeaseFree(new.rt[t])
    <3>1. CASE st.rt[t].state \in Held
      <4>1. PICK l \in st.leases : l.task = t
        BY <1>1, <3>1 DEF Matches
      <4>2. Aged(l) \in new.leases /\ Aged(l).task = t
        BY <1>2, <1>4, <1>5, <1>6, <4>1
      <4> QED
        BY <1>5, <3>1, <4>2
    <3>2. CASE st.rt[t].state \notin Held
      BY <1>1, <1>3, <1>5, <3>2 DEF Matches
    <3> QED
      BY <3>1, <3>2
  <2> QED
    BY <2>1, <2>2 DEF Matches
<1>8. Untouched(new) /\ Attempted(new) /\ WithinBudget(new)
  BY <1>2, <1>5 DEF Sound, Untouched, Attempted, WithinBudget
<1>9. Ordered(new)
  BY <1>5, GraphAssumption DEF Sound, Ordered, DepsDone
<1> QED
  BY <1>2, <1>7, <1>8, <1>9 DEF Sound, new

-----------------------------------------------------------------------------
(* The inductive invariant of the store's methods. *)
Invariant == TypeOK /\ Sound(store)

LEMMA InitInvariant == Init => Invariant
<1> SUFFICES ASSUME Init PROVE Invariant
  OBVIOUS
<1>1. NewRuntime \in Runtime /\ NewRuntime.state = "PENDING" /\ LeaseFree(NewRuntime)
  BY DEF NewRuntime, Runtime, TaskState, Timer, NoToken, LeaseFree
<1>2. /\ store.wf = [f \in Workflow |-> "ABSENT"]
      /\ store.rt = [t \in Task |-> NewRuntime]
      /\ store.leases = {}
  BY DEF Init
<1>3. Typed(store)
  BY <1>1, FS_EmptySet DEF Init, Typed, Store, WorkflowState
<1>4. TypeOK
  BY <1>3 DEF Init, Typed, TypeOK
<1>5. Matches(store) /\ Untouched(store) /\ Attempted(store) /\ WithinBudget(store)
  BY <1>1, <1>2 DEF Matches, Untouched, Attempted, WithinBudget, Held
<1>6. Ordered(store)
  BY <1>1, <1>2 DEF Ordered
<1> QED
  BY <1>3, <1>4, <1>5, <1>6 DEF Invariant, Sound

LEMMA TouchOverdueSound ==
  ASSUME Invariant, NEW l \in store.leases, TouchOverdue(l)
  PROVE  Sound(store') /\ UNCHANGED <<registered, age, arrivals, idempotency, issued>>
<1>1. {l} \in SUBSET store.leases /\ store' = Expire(store, {l})
  BY DEF TouchOverdue
<1> QED
  BY <1>1, ExpireSound DEF Invariant, TouchOverdue

(* Every method keeps the store sound. *)
LEMMA ClientStepSound ==
  ASSUME Invariant, ClientStep
  PROVE  Sound(store')
<1>1. ASSUME NEW f \in Workflow, NEW key \in Key \cup {NoKey},
             CreateWorkflow(f, key)
      PROVE  Sound(store')
  <2>1. store' = Recompute(Opened(store, f), {f}) /\ store.wf[f] = "ABSENT"
    BY <1>1 DEF CreateWorkflow, Opened
  <2>2. Sound(Opened(store, f))
    BY <2>1, OpenedSound DEF Invariant
  <2> QED
    BY <2>1, <2>2, RecomputeSound
<1>2. ASSUME NEW f \in Workflow, CancelWorkflow(f) PROVE Sound(store')
  BY <1>2, CancelSound DEF Invariant, CancelWorkflow
<1> QED
  BY <1>1, <1>2 DEF ClientStep

LEMMA LeaseNextSound ==
  ASSUME Invariant, NEW w \in Worker, LeaseNext(w)
  PROVE  Sound(store')
<1>1. CASE LeaseNextEmpty(w)
  BY <1>1, SweptSound DEF Invariant, LeaseNextEmpty
<1>2. ASSUME NEW i \in DOMAIN arrivals, NEW n \in DOMAIN Order[arrivals[i]],
             LeaseNextGrants(w, i, n)
      PROVE  Sound(store')
  <2> DEFINE st == Recompute(Swept(store), Visited(i))
             f == arrivals[i]
             t == Order[f][n]
  <2>1. f \in Workflow
    BY DEF Invariant, TypeOK
  <2>2. t \in Task
    <3>1. Order[f] \in Seq(TasksOf(f)) /\ n \in DOMAIN Order[f]
      BY <2>1, GraphAssumption
    <3>2. t \in TasksOf(f)
      BY <3>1
    <3> QED
      BY <3>2 DEF TasksOf
  <2>3. Sound(st)
    BY SweptSound DEF Invariant
  <2>4. FreshToken \in Nat \ {0}
    BY DEF Invariant, TypeOK, FreshToken
  <2>5. st.rt[t].state = "READY" /\ store' = Grant(st, w, t, FreshToken)
    BY <1>2 DEF LeaseNextGrants, Offer
  <2> HIDE DEF st, t
  <2> QED
    BY <2>2, <2>3, <2>4, <2>5, GrantSound
<1> QED
  BY <1>1, <1>2 DEF LeaseNext

LEMMA RegisterWorkerSound ==
  ASSUME Invariant, NEW w \in Worker, RegisterWorker(w)
  PROVE  Sound(store')
<1>1. store \in Store /\ IsFiniteSet(store.leases) /\ Sound(store)
  BY DEF Invariant, Sound, Typed
<1>2. store' = [store EXCEPT !.active[w] = 0]
  BY DEF RegisterWorker
<1>3. /\ store' \in Store
      /\ store'.wf = store.wf
      /\ store'.rt = store.rt
      /\ store'.leases = store.leases
  BY <1>1, <1>2 DEF Store
<1> QED
  BY <1>1, <1>3
     DEF Sound, Typed, Matches, Untouched, Attempted, Ordered, DepsDone, WithinBudget

LEMMA StartLeaseSound ==
  ASSUME Invariant, NEW l \in store.leases, StartLease(l)
  PROVE  Sound(store')
<1>1. CASE TouchOverdue(l)
  BY <1>1, TouchOverdueSound
<1>2. CASE ~ TouchOverdue(l)
  <2> DEFINE r == store.rt[l.task]
  <2>1. r.state = "LEASED" /\ store' = [store EXCEPT !.rt[l.task] = Begun(r)]
    BY <1>2 DEF StartLease
  <2>2. r \in Runtime
    BY DEF Invariant, Sound, Typed, Store, Lease
  <2> HIDE DEF r
  <2>3. TransitionTask(r, "RUNNING") = [r EXCEPT !.state = "RUNNING"]
    BY <2>1 DEF TransitionTask, ValidTaskTransitions
  <2>4. /\ Begun(r) \in Runtime
        /\ Begun(r).state \in Held
        /\ Begun(r).token = r.token
        /\ Begun(r).owner = r.owner
        /\ Begun(r).until = r.until
        /\ Begun(r).attempt = r.attempt
    BY <2>1, <2>2, <2>3 DEF Begun, Runtime, TaskState, Held
  <2>5. Sound(store)
    BY DEF Invariant
  <2> QED
    BY <2>1, <2>4, <2>5, UpdateSound DEF r
<1> QED
  BY <1>1, <1>2

LEMMA AppendLogSound ==
  ASSUME Invariant, NEW l \in store.leases, NEW size \in Chunk, AppendLog(l, size)
  PROVE  Sound(store')
<1>1. CASE TouchOverdue(l)
  BY <1>1, TouchOverdueSound
<1>2. CASE ~ TouchOverdue(l)
  <2> DEFINE r == store.rt[l.task]
             q == [r EXCEPT !.output = r.output + size]
  <2>1. store' = [store EXCEPT !.rt[l.task] = q]
    BY <1>2 DEF AppendLog
  <2>2. r \in Runtime /\ r.state \in Held /\ size \in Nat
    BY PolicyAssumption
       DEF Invariant, Sound, Typed, Store, Lease, Matches, Describes
  <2> HIDE DEF r
  <2>3. /\ q \in Runtime
        /\ q.state \in Held
        /\ q.token = r.token
        /\ q.owner = r.owner
        /\ q.until = r.until
        /\ q.attempt = r.attempt
    BY <2>2 DEF Runtime
  <2>4. Sound(store)
    BY DEF Invariant
  <2> HIDE DEF q
  <2> QED
    BY <2>1, <2>3, <2>4, UpdateSound DEF r
<1> QED
  BY <1>1, <1>2

LEMMA WorkerStepSound ==
  ASSUME Invariant, WorkerStep
  PROVE  Sound(store')
<1>1. ASSUME NEW w \in Worker,
             RegisterWorker(w) \/ HeartbeatWorker(w) \/ LeaseNext(w)
      PROVE  Sound(store')
  <2>1. CASE RegisterWorker(w)
    BY <2>1, RegisterWorkerSound
  <2>2. CASE HeartbeatWorker(w)
    BY <2>2 DEF HeartbeatWorker, Invariant
  <2>3. CASE LeaseNext(w)
    BY <2>3, LeaseNextSound
  <2> QED
    BY <1>1, <2>1, <2>2, <2>3
<1>2. ASSUME NEW l \in store.leases, RenewLease(l) PROVE Sound(store')
  <2>1. CASE TouchOverdue(l)
    BY <2>1, TouchOverdueSound
  <2>2. CASE store' = Renew(store, l)
    BY <2>2, RenewSound DEF Invariant
  <2> QED
    BY <1>2, <2>1, <2>2 DEF RenewLease
<1>3. ASSUME NEW l \in store.leases, NEW ok \in BOOLEAN, CompleteLease(l, ok)
      PROVE  Sound(store')
  <2>1. CASE TouchOverdue(l)
    BY <2>1, TouchOverdueSound
  <2>2. CASE store' = Recompute(Close(store, l, ok), {WfOf[l.task]})
    <3>1. Sound(Close(store, l, ok))
      BY CloseSound DEF Invariant
    <3> QED
      BY <2>2, <3>1, RecomputeSound
  <2> QED
    BY <1>3, <2>1, <2>2 DEF CompleteLease
<1> QED
  BY <1>1, <1>2, <1>3, StartLeaseSound, AppendLogSound DEF WorkerStep

(* The rest of TypeOK: what the methods keep beside the store proper. *)
LEMMA TypeStep ==
  ASSUME Invariant, [Next]_vars, Sound(store')
  PROVE  TypeOK'
<1>1. /\ registered \subseteq Worker
      /\ age \in [Worker -> Nat]
      /\ arrivals \in Seq(Workflow)
      /\ idempotency \subseteq Key \X Workflow
      /\ issued \in Nat
  BY DEF Invariant, TypeOK
<1>2. /\ registered' \subseteq Worker
      /\ age' \in [Worker -> Nat]
      /\ arrivals' \in Seq(Workflow)
      /\ idempotency' \subseteq Key \X Workflow
      /\ issued' \in Nat
  <2>1. CASE ClientStep
    <3>1. ASSUME NEW f \in Workflow, NEW key \in Key \cup {NoKey},
                 CreateWorkflow(f, key)
          PROVE  /\ arrivals' \in Seq(Workflow)
                 /\ idempotency' \subseteq Key \X Workflow
                 /\ UNCHANGED <<registered, age, issued>>
      <4>1. arrivals' = Append(arrivals, f)
        BY <3>1 DEF CreateWorkflow
      <4>2. idempotency' = idempotency \cup (IF key = NoKey THEN {} ELSE {<<key, f>>})
        BY <3>1 DEF CreateWorkflow
      <4>3. UNCHANGED <<registered, age, issued>>
        BY <3>1 DEF CreateWorkflow
      <4>4. arrivals' \in Seq(Workflow)
        BY <1>1, <4>1
      <4>5. idempotency' \subseteq Key \X Workflow
        BY <1>1, <4>2
      <4> QED
        BY <4>3, <4>4, <4>5
    <3>2. ASSUME NEW f \in Workflow, CancelWorkflow(f)
          PROVE  UNCHANGED <<registered, age, arrivals, idempotency, issued>>
      BY <3>2 DEF CancelWorkflow
    <3> QED
      BY <1>1, <2>1, <3>1, <3>2 DEF ClientStep
  <2>2. CASE WorkerStep
    <3>1. ASSUME NEW w \in Worker, RegisterWorker(w) \/ HeartbeatWorker(w)
          PROVE  /\ registered' \subseteq Worker
                 /\ age' \in [Worker -> Nat]
                 /\ UNCHANGED <<arrivals, idempotency, issued>>
      BY <1>1, <3>1 DEF RegisterWorker, HeartbeatWorker
    <3>2. ASSUME NEW w \in Worker, LeaseNext(w)
          PROVE  /\ issued' \in Nat
                 /\ UNCHANGED <<registered, age, arrivals, idempotency>>
      BY <1>1, <3>2 DEF LeaseNext, LeaseNextEmpty, LeaseNextGrants
    <3>3. ASSUME NEW l \in store.leases,
                 \/ StartLease(l)
                 \/ RenewLease(l)
                 \/ \E size \in Chunk : AppendLog(l, size)
                 \/ \E ok \in BOOLEAN : CompleteLease(l, ok)
          PROVE  UNCHANGED <<registered, age, arrivals, idempotency, issued>>
      BY <3>3 DEF StartLease, RenewLease, AppendLog, CompleteLease, TouchOverdue
    <3> QED
      BY <1>1, <2>2, <3>1, <3>2, <3>3 DEF WorkerStep
  <2>3. CASE Sweep
    BY <1>1, <2>3 DEF Sweep
  <2>4. CASE Tick
    BY <1>1, <2>4, PolicyAssumption DEF Tick
  <2>5. CASE UNCHANGED vars
    BY <1>1, <2>5 DEF vars
  <2> QED
    BY <2>1, <2>2, <2>3, <2>4, <2>5 DEF Next
<1> QED
  BY <1>2 DEF TypeOK, Sound, Typed

LEMMA NextInvariant == Invariant /\ [Next]_vars => Invariant'
<1> SUFFICES ASSUME Invariant, [Next]_vars PROVE Invariant'
  OBVIOUS
<1>1. Sound(store')
  <2>1. CASE Sweep
    BY <2>1, SweptSound DEF Sweep, Invariant
  <2>2. CASE Tick
    <3>1. store' = Later(store)
      BY <2>2 DEF Tick, Later, Aged, AgedTask
    <3> QED
      BY <3>1, LaterSound DEF Invariant
  <2>3. CASE UNCHANGED vars
    BY <2>3 DEF vars, Invariant
  <2> QED
    BY <2>1, <2>2, <2>3, ClientStepSound, WorkerStepSound DEF Next
<1>2. TypeOK'
  BY <1>1, TypeStep
<1> QED
  BY <1>1, <1>2 DEF Invariant

(* Whatever the clients and the workers do, in whatever order, the store is
   sound between any two of its methods. *)
THEOREM InvariantHolds == Spec => []Invariant
BY InitInvariant, NextInvariant, PTL DEF Spec

(* The store holds what its Go types allow. *)
THEOREM TypeCorrect == Spec => []TypeOK
<1>1. Invariant => TypeOK
  BY DEF Invariant
<1> QED
  BY <1>1, InvariantHolds, PTL

(* The two copies of a lease, in Store.leases and in the task's runtime, never
   disagree, however many workflows, workers and leases there are. *)
THEOREM LeasesMatchTasks == Spec => []LeaseMatchesTask
<1>1. Invariant => LeaseMatchesTask
  BY DEF Invariant, Sound, Matches, Describes, LeaseFree, LeaseMatchesTask
<1> QED
  BY <1>1, InvariantHolds, PTL

(* On every graph ValidateSpec accepts, no task becomes runnable, runs or ends
   by its own result before everything it depends on has succeeded. *)
THEOREM DependenciesFirst == Spec => []DependenciesDone
<1>1. Invariant => DependenciesDone
  BY DEF Invariant, Sound, Ordered, DepsDone, DependenciesDone
<1> QED
  BY <1>1, InvariantHolds, PTL

(* A task is given up only when its attempts are spent, and waits for a retry
   only while some are left. *)
THEOREM BudgetKept == Spec => []BudgetDecides
<1>1. Invariant => BudgetDecides
  BY DEF Invariant, Sound, WithinBudget, BudgetDecides
<1> QED
  BY <1>1, InvariantHolds, PTL

-----------------------------------------------------------------------------
(* What a step may never do. *)

(* What has ended stays as it ended, and a retry that is not due stays put. *)
Steady(st, new) ==
  /\ \A t \in Task : st.rt[t].state \in Final => new.rt[t].state = st.rt[t].state
  /\ \A f \in Workflow : st.wf[f] \in Final => new.wf[f] = st.wf[f]
  /\ \A t \in Task : st.rt[t].state = "RETRY_WAIT" /\ st.rt[t].retryAt > 0
                       => new.rt[t] = st.rt[t]

(* No attempt gets its result. *)
Result == {"SUCCEEDED", "FAILED", "RETRY_WAIT"}
Undecided(st, new) ==
  \A t \in Task : new.rt[t].state \in Result => new.rt[t].state = st.rt[t].state

(* Both relations compose, so a method may be followed helper by helper. *)
LEMMA Compose ==
  ASSUME NEW a, NEW b, NEW c
  PROVE  /\ Steady(a, b) /\ Steady(b, c) => Steady(a, c)
         /\ Undecided(a, b) /\ Undecided(b, c) => Undecided(a, c)
BY DEF Steady, Undecided

(* A pass is steady and decides no attempt: it only cancels and offers tasks. *)
LEMMA RecomputeSteady ==
  ASSUME NEW st, Typed(st), NEW F
  PROVE  /\ Steady(st, Recompute(st, F))
         /\ Undecided(st, Recompute(st, F))
         /\ \A t \in Task : Recompute(st, F).rt[t].attempt = st.rt[t].attempt
         /\ Recompute(st, F).leases = st.leases
<1> DEFINE new == Recompute(st, F)
<1>1. /\ st \in Store
      /\ new.leases = st.leases
      /\ \A t \in Task :
           new.rt[t] = IF WfOf[t] \in F /\ st.wf[WfOf[t]] \in Open
                       THEN RecomputeTask(st, WfOf[t], t) ELSE st.rt[t]
      /\ \A f \in Workflow : st.wf[f] \notin Open => new.wf[f] = st.wf[f]
  BY RecomputeFields DEF Typed
<1> HIDE DEF new
<1>2. ASSUME NEW t \in Task PROVE Passed(st, t, new.rt[t]) /\ Kept(st, t, new.rt[t])
  <2>1. Passed(st, t, RecomputeTask(st, WfOf[t], t))
    BY <1>1, RecomputeTaskCases
  <2>2. Passed(st, t, st.rt[t])
    BY DEF Passed
  <2>3. new.rt[t] = RecomputeTask(st, WfOf[t], t) \/ new.rt[t] = st.rt[t]
    BY <1>1
  <2>4. Passed(st, t, new.rt[t])
    <3>1. CASE new.rt[t] = RecomputeTask(st, WfOf[t], t)
      BY <2>1, <3>1, Zenon
    <3>2. CASE new.rt[t] = st.rt[t]
      BY <2>2, <3>2, Zenon
    <3> QED
      BY <2>3, <3>1, <3>2, Zenon
  <2> QED
    BY <1>1, <2>4, PassedKeeps
<1>3. ASSUME NEW t \in Task, st.rt[t].state = "RETRY_WAIT", st.rt[t].retryAt > 0
      PROVE  new.rt[t] = st.rt[t]
  <2>1. ~ Due(st.rt[t])
    BY <1>1, <1>3 DEF Due, Nil, Store, Runtime, Timer
  <2> QED
    BY <1>2, <1>3, <2>1 DEF Passed
<1>4. \A t \in Task : st.rt[t].state \in Final => new.rt[t].state = st.rt[t].state
  BY <1>2 DEF Kept
<1>5. Steady(st, new)
  BY <1>1, <1>3, <1>4 DEF Steady, Final, Open
<1>6. Undecided(st, new)
  BY <1>2 DEF Undecided, Result, Kept
<1> QED
  BY <1>1, <1>2, <1>5, <1>6 DEF new, Kept

(* Expiry only re-queues tasks that are held. *)
LEMMA ExpireSteady ==
  ASSUME NEW st, Sound(st), NEW L \in SUBSET st.leases
  PROVE  /\ Steady(st, Expire(st, L))
         /\ Undecided(st, Expire(st, L))
         /\ Expire(st, L).leases \in SUBSET st.leases
<1> DEFINE new == Expire(st, L)
           Hit(t) == \E l \in L : l.task = t /\ l.token = st.rt[t].token
<1>1. st \in Store /\ Typed(st) /\ Matches(st)
  BY DEF Sound, Typed
<1>2. /\ new.wf = st.wf
      /\ new.leases = st.leases \ L
      /\ \A t \in Task :
           new.rt[t] = IF Hit(t) THEN ExpireTask(st.rt[t]) ELSE st.rt[t]
  BY <1>1, ExpireFields
<1>3. ASSUME NEW t \in Task, Hit(t)
      PROVE  st.rt[t].state \in Held /\ new.rt[t].state = "READY"
  <2>1. st.rt[t].state \in Held
    BY <1>1, <1>3 DEF Matches, Describes
  <2>2. \A r \in Runtime : r.state \in Held => ExpireTask(r).state = "READY"
    BY DEF ExpireTask, ClearLease, Runtime
  <2>3. st.rt[t] \in Runtime
    BY <1>1 DEF Store
  <2> QED
    BY <1>2, <1>3, <2>1, <2>2, <2>3
<1>4. ASSUME NEW t \in Task, ~ Hit(t) PROVE new.rt[t] = st.rt[t]
  BY <1>2, <1>4
<1> HIDE DEF new, Hit
<1> QED
  BY <1>2, <1>3, <1>4 DEF Steady, Undecided, Result, Held, Final, new

(* So does a sweep, also when LeaseNext recomputes after it. *)
LEMMA SweptSteady ==
  ASSUME NEW st, Sound(st), NEW F
  PROVE  LET new == Recompute(Swept(st), F) IN
         /\ Steady(st, Swept(st)) /\ Undecided(st, Swept(st))
         /\ Steady(st, new) /\ Undecided(st, new)
         /\ Swept(st).leases \in SUBSET st.leases
         /\ new.leases \in SUBSET st.leases
<1> DEFINE mid == Expire(st, Overdue(st))
<1>1. Overdue(st) \in SUBSET st.leases
  BY DEF Overdue
<1>2. /\ Sound(mid)
      /\ Steady(st, mid)
      /\ Undecided(st, mid)
      /\ mid.leases \in SUBSET st.leases
  BY <1>1, ExpireSound, ExpireSteady
<1>3. Swept(st) = Recompute(mid, Workflow)
  BY DEF Swept
<1> HIDE DEF mid
<1>4. /\ Steady(mid, Swept(st))
      /\ Undecided(mid, Swept(st))
      /\ Swept(st).leases = mid.leases
  BY <1>2, <1>3, RecomputeSteady DEF Sound
<1>5. Sound(Swept(st))
  BY SweptSound
<1>6. /\ Steady(Swept(st), Recompute(Swept(st), F))
      /\ Undecided(Swept(st), Recompute(Swept(st), F))
      /\ Recompute(Swept(st), F).leases = Swept(st).leases
  BY <1>5, RecomputeSteady DEF Sound
<1>7. Steady(st, Swept(st)) /\ Undecided(st, Swept(st))
  BY <1>2, <1>4, Compose
<1>8. /\ Steady(st, Recompute(Swept(st), F))
      /\ Undecided(st, Recompute(Swept(st), F))
  BY <1>6, <1>7, Compose
<1> QED
  BY <1>2, <1>4, <1>6, <1>7, <1>8

(* A method that acts on one ready or held task leaves the others alone. *)
LEMMA OneTaskSteady ==
  ASSUME NEW st, Typed(st), NEW new, new.wf = st.wf,
         NEW t \in Task, NEW q, new.rt = [st.rt EXCEPT ![t] = q],
         st.rt[t].state \in {"READY", "LEASED", "RUNNING"}
  PROVE  /\ Steady(st, new)
         /\ q.state \notin Result => Undecided(st, new)
<1>1. /\ new.rt[t] = q
      /\ \A u \in Task : u # t => new.rt[u] = st.rt[u]
  BY DEF Typed, Store
<1>2. Steady(st, new)
  BY <1>1 DEF Steady, Final
<1> QED
  BY <1>1, <1>2 DEF Undecided

-----------------------------------------------------------------------------
(* The four promises about a step from store st to store new, n tokens having
   been drawn before it: the bodies of the action properties. *)

StaysFinal(st, new) ==
  /\ \A t \in Task : st.rt[t].state \in Final => new.rt[t].state = st.rt[t].state
  /\ \A f \in Workflow : st.wf[f] \in Final => new.wf[f] = st.wf[f]

HoldsBack(st, new) ==
  \A t \in Task : st.rt[t].state = "RETRY_WAIT" /\ st.rt[t].retryAt > 0
                    => new.rt[t].state \in {"RETRY_WAIT", "CANCELLED"}

DecidedByHolder(st, new) ==
  \A t \in Task :
    /\ new.rt[t].state # st.rt[t].state
    /\ new.rt[t].state \in Result
    => \E l \in st.leases \ new.leases : /\ l.task = t
                                         /\ l.ttl > 0
                                         /\ l.token = st.rt[t].token
                                         /\ l.attempt = new.rt[t].attempt

Fenced(st, new, n) ==
  \A l \in new.leases : (\A m \in st.leases : m.token # l.token) => l.token > n

Permitted(st, new, n) == /\ StaysFinal(st, new)
                         /\ HoldsBack(st, new)
                         /\ DecidedByHolder(st, new)
                         /\ Fenced(st, new, n)

(* A steady step that decides no attempt keeps all four promises. *)
LEMMA SteadyPermitted ==
  ASSUME NEW st, NEW new, NEW n, Steady(st, new), Undecided(st, new), Fenced(st, new, n)
  PROVE  Permitted(st, new, n)
BY DEF Permitted, StaysFinal, HoldsBack, DecidedByHolder, Steady, Undecided

(* Taking leases away brings no token back. *)
LEMMA FewerLeasesFenced ==
  ASSUME NEW st, NEW new, NEW n, new.leases \in SUBSET st.leases
  PROVE  Fenced(st, new, n)
BY DEF Fenced

(* A call with an overdue lease expires it. *)
LEMMA TouchOverduePermitted ==
  ASSUME Invariant, NEW l \in store.leases, TouchOverdue(l)
  PROVE  Permitted(store, store', issued)
<1>1. {l} \in SUBSET store.leases /\ store' = Expire(store, {l}) /\ Sound(store)
  BY DEF TouchOverdue, Invariant
<1>2. /\ Steady(store, store')
      /\ Undecided(store, store')
      /\ store'.leases \in SUBSET store.leases
  BY <1>1, ExpireSteady
<1> QED
  BY <1>2, SteadyPermitted, FewerLeasesFenced

(* CreateWorkflow opens a workflow none of whose tasks was touched before. *)
LEMMA CreateWorkflowPermitted ==
  ASSUME Invariant, NEW f \in Workflow, NEW key \in Key \cup {NoKey},
         CreateWorkflow(f, key)
  PROVE  Permitted(store, store', issued)
<1> DEFINE mid == Opened(store, f)
<1>1. /\ store' = Recompute(mid, {f})
      /\ store.wf[f] = "ABSENT"
      /\ Sound(store)
      /\ Typed(store)
      /\ store \in Store
  BY DEF CreateWorkflow, Opened, Invariant, Sound, Typed
<1>2. /\ Typed(mid)
      /\ mid.wf = [store.wf EXCEPT ![f] = "PENDING"]
      /\ mid.leases = store.leases
      /\ mid.rt = [t \in Task |-> IF WfOf[t] = f THEN NewRuntime ELSE store.rt[t]]
  BY <1>1, OpenedFields
<1> HIDE DEF mid
<1>3. NewRuntime.state = "PENDING"
  BY DEF NewRuntime
<1>4. \A t \in Task : WfOf[t] = f => store.rt[t].state = "PENDING"
  BY <1>1 DEF Sound, Untouched
<1>5. Steady(store, mid)
  BY <1>1, <1>2, <1>4 DEF Steady, Final, Store
<1>6. Undecided(store, mid)
  BY <1>2, <1>3 DEF Undecided, Result
<1>7. /\ Steady(mid, store')
      /\ Undecided(mid, store')
      /\ store'.leases = mid.leases
  BY <1>1, <1>2, RecomputeSteady
<1>8. Steady(store, store') /\ Undecided(store, store')
  BY <1>5, <1>6, <1>7, Compose
<1>9. store'.leases \in SUBSET store.leases
  BY <1>2, <1>7
<1> QED
  BY <1>8, <1>9, SteadyPermitted, FewerLeasesFenced

(* CancelWorkflow ends what has not ended and decides nothing else. *)
LEMMA CancelWorkflowPermitted ==
  ASSUME Invariant, NEW f \in Workflow, CancelWorkflow(f)
  PROVE  Permitted(store, store', issued)
<1>1. /\ store' = Cancel(store, f)
      /\ store.wf[f] \in Open
      /\ Typed(store)
      /\ Matches(store)
      /\ store \in Store
  BY DEF CancelWorkflow, Invariant, Sound, Typed
<1>2. /\ store'.wf = [store.wf EXCEPT ![f] = "CANCELLED"]
      /\ store'.leases \in SUBSET store.leases
      /\ store'.rt = [t \in Task |-> IF WfOf[t] = f THEN CancelledTask(store, f, t)
                                                    ELSE store.rt[t]]
  BY <1>1, CancelFields
<1>3. ASSUME NEW t \in Task
      PROVE  \/ store'.rt[t].state = store.rt[t].state
             \/ /\ store'.rt[t].state = "CANCELLED"
                /\ store.rt[t].state \notin Final
  <2>1. \A r \in Runtime :
          /\ CancelTask(r) \in Runtime
          /\ r.state \in Final => CancelTask(r) = r
          /\ r.state \notin Final => CancelTask(r).state = "CANCELLED"
    BY CancelTaskEnds
  <2>2. \A r \in Runtime : ClearLease(r).state = r.state
    BY DEF ClearLease, Runtime
  <2>3. store.rt[t] \in Runtime
    BY <1>1 DEF Store
  <2>4. \/ store'.rt[t] = store.rt[t]
        \/ store'.rt[t] = CancelTask(store.rt[t])
        \/ store'.rt[t] = ClearLease(CancelTask(store.rt[t]))
    BY <1>2 DEF CancelledTask
  <2> QED
    BY <2>1, <2>2, <2>3, <2>4
<1>4. StaysFinal(store, store')
  BY <1>1, <1>2, <1>3 DEF StaysFinal, Open, Final, Store
<1>5. HoldsBack(store, store')
  BY <1>3 DEF HoldsBack
<1>6. DecidedByHolder(store, store')
  BY <1>3 DEF DecidedByHolder, Result
<1>7. Fenced(store, store', issued)
  BY <1>2, FewerLeasesFenced
<1> QED
  BY <1>4, <1>5, <1>6, <1>7 DEF Permitted

(* LeaseNext sweeps, and grants a ready task under a token drawn just now. *)
LEMMA LeaseNextPermitted ==
  ASSUME Invariant, NEW w \in Worker, LeaseNext(w)
  PROVE  Permitted(store, store', issued)
<1>1. Sound(store)
  BY DEF Invariant
<1>2. CASE LeaseNextEmpty(w)
  <2>1. /\ Steady(store, store')
        /\ Undecided(store, store')
        /\ store'.leases \in SUBSET store.leases
    BY <1>1, <1>2, SweptSteady DEF LeaseNextEmpty
  <2> QED
    BY <2>1, SteadyPermitted, FewerLeasesFenced
<1>3. ASSUME NEW i \in DOMAIN arrivals, NEW n \in DOMAIN Order[arrivals[i]],
             LeaseNextGrants(w, i, n)
      PROVE  Permitted(store, store', issued)
  <2> DEFINE st == Recompute(Swept(store), Visited(i))
             f == arrivals[i]
             t == Order[f][n]
             q == GrantedTask(st.rt[t], w, FreshToken)
             g == GrantedLease(st, w, t, FreshToken)
  <2>1. t \in Task
    <3>1. f \in Workflow
      BY DEF Invariant, TypeOK
    <3>2. Order[f] \in Seq(TasksOf(f)) /\ n \in DOMAIN Order[f]
      BY <3>1, GraphAssumption
    <3>3. t \in TasksOf(f)
      BY <3>2
    <3> QED
      BY <3>3 DEF TasksOf
  <2>2. /\ Steady(store, st)
        /\ Undecided(store, st)
        /\ st.leases \in SUBSET store.leases
        /\ Typed(st)
    BY <1>1, SweptSteady, SweptSound DEF Sound
  <2>3. FreshToken \in Nat \ {0} /\ FreshToken > issued
    BY DEF Invariant, TypeOK, FreshToken
  <2>4. st.rt[t].state = "READY" /\ store' = Grant(st, w, t, FreshToken)
    BY <1>3 DEF LeaseNextGrants, Offer
  <2>5. g.token = FreshToken
    BY DEF GrantedLease
  <2> HIDE DEF st, t, q, g
  <2>6. /\ store'.wf = st.wf
        /\ store'.leases = st.leases \cup {g}
        /\ store'.rt = [st.rt EXCEPT ![t] = q]
    BY <2>1, <2>2, <2>3, <2>4, GrantFields DEF q, g
  <2>7. q.state = "LEASED"
    <3>1. st.rt[t] \in Runtime
      BY <2>1, <2>2 DEF Typed, Store
    <3> QED
      BY <3>1 DEF q, GrantedTask, Runtime
  <2>8. Steady(st, store') /\ Undecided(st, store')
    BY <2>1, <2>2, <2>4, <2>6, <2>7, OneTaskSteady DEF Result
  <2>9. Steady(store, store') /\ Undecided(store, store')
    BY <2>2, <2>8, Compose
  <2>10. Fenced(store, store', issued)
    BY <2>2, <2>3, <2>5, <2>6 DEF Fenced
  <2> QED
    BY <2>9, <2>10, SteadyPermitted
<1> QED
  BY <1>2, <1>3 DEF LeaseNext

(* StartLease and AppendLog rewrite the runtime of one held task. *)
LEMMA UpdatePermitted ==
  ASSUME Invariant, NEW l \in store.leases, NEW q \in Runtime,
         q.state \in Held, store' = [store EXCEPT !.rt[l.task] = q]
  PROVE  Permitted(store, store', issued)
<1>1. Typed(store) /\ l.task \in Task
  BY DEF Invariant, Sound, Typed, Store, Lease
<1>2. /\ store'.wf = store.wf
      /\ store'.leases = store.leases
      /\ store'.rt = [store.rt EXCEPT ![l.task] = q]
  BY <1>1, UpdateFields
<1>3. store.rt[l.task].state \in Held
  BY DEF Invariant, Sound, Matches, Describes
<1>4. Steady(store, store') /\ Undecided(store, store')
  BY <1>1, <1>2, <1>3, OneTaskSteady DEF Held, Result
<1> QED
  BY <1>2, <1>4, SteadyPermitted, FewerLeasesFenced

(* StartLease, on an overdue lease or a live one. *)
LEMMA StartLeasePermitted ==
  ASSUME Invariant, NEW l \in store.leases, StartLease(l)
  PROVE  Permitted(store, store', issued)
<1>1. CASE TouchOverdue(l)
  BY <1>1, TouchOverduePermitted
<1>2. CASE ~ TouchOverdue(l)
  <2> DEFINE r == store.rt[l.task]
  <2>1. r.state = "LEASED" /\ store' = [store EXCEPT !.rt[l.task] = Begun(r)]
    BY <1>2 DEF StartLease
  <2>2. r \in Runtime
    BY DEF Invariant, Sound, Typed, Store, Lease
  <2> HIDE DEF r
  <2>3. TransitionTask(r, "RUNNING") = [r EXCEPT !.state = "RUNNING"]
    BY <2>1 DEF TransitionTask, ValidTaskTransitions
  <2>4. Begun(r) \in Runtime /\ Begun(r).state \in Held
    BY <2>1, <2>2, <2>3 DEF Begun, Runtime, TaskState, Held
  <2> QED
    BY <2>1, <2>4, UpdatePermitted DEF r
<1> QED
  BY <1>1, <1>2

(* AppendLog, likewise. *)
LEMMA AppendLogPermitted ==
  ASSUME Invariant, NEW l \in store.leases, NEW size \in Chunk, AppendLog(l, size)
  PROVE  Permitted(store, store', issued)
<1>1. CASE TouchOverdue(l)
  BY <1>1, TouchOverduePermitted
<1>2. CASE ~ TouchOverdue(l)
  <2> DEFINE r == store.rt[l.task]
             q == [r EXCEPT !.output = r.output + size]
  <2>1. store' = [store EXCEPT !.rt[l.task] = q]
    BY <1>2 DEF AppendLog
  <2>2. r \in Runtime /\ r.state \in Held /\ size \in Nat
    BY PolicyAssumption
       DEF Invariant, Sound, Typed, Store, Lease, Matches, Describes
  <2> HIDE DEF r
  <2>3. q \in Runtime /\ q.state \in Held
    BY <2>2 DEF Runtime
  <2> HIDE DEF q
  <2> QED
    BY <2>1, <2>3, UpdatePermitted
<1> QED
  BY <1>1, <1>2

(* RenewLease replaces a lease by one with the same token. *)
LEMMA RenewLeasePermitted ==
  ASSUME Invariant, NEW l \in store.leases, RenewLease(l)
  PROVE  Permitted(store, store', issued)
<1>1. CASE TouchOverdue(l)
  BY <1>1, TouchOverduePermitted
<1>2. CASE store' = Renew(store, l)
  <2> DEFINE q == [store.rt[l.task] EXCEPT !.until = LeaseDuration]
  <2>1. Typed(store) /\ l.task \in Task /\ l \in Lease
    BY DEF Invariant, Sound, Typed, Store, Lease
  <2>2. /\ store'.wf = store.wf
        /\ store'.leases = (store.leases \ {l}) \cup {Extended(l)}
        /\ store'.rt = [store.rt EXCEPT ![l.task] = q]
    BY <1>2, <2>1, RenewFields
  <2>3. store.rt[l.task].state \in Held /\ store.rt[l.task] \in Runtime
    BY <2>1 DEF Invariant, Sound, Matches, Describes, Typed, Store
  <2>4. q.state \in Held
    BY <2>3 DEF Runtime
  <2> HIDE DEF q
  <2>5. Steady(store, store') /\ Undecided(store, store')
    BY <2>1, <2>2, <2>3, <2>4, OneTaskSteady DEF Held, Result
  <2>6. Extended(l).token = l.token
    BY <2>1 DEF Extended, Lease
  <2>7. Fenced(store, store', issued)
    BY <2>2, <2>6 DEF Fenced
  <2> QED
    BY <2>5, <2>7, SteadyPermitted
<1> QED
  BY <1>1, <1>2 DEF RenewLease

(* CompleteLease decides its own task only, and closes the lease it was called with. *)
LEMMA CompleteLeasePermitted ==
  ASSUME Invariant, NEW l \in store.leases, NEW ok \in BOOLEAN, CompleteLease(l, ok)
  PROVE  Permitted(store, store', issued)
<1>1. CASE TouchOverdue(l)
  BY <1>1, TouchOverduePermitted
<1>2. CASE ~ TouchOverdue(l)
  <2> DEFINE mid == Close(store, l, ok)
             t == l.task
             q == ClosedTask(t, store.rt[t], ok)
  <2>1. store' = Recompute(mid, {WfOf[t]}) /\ Current(l)
    BY <1>2 DEF CompleteLease
  <2>2. /\ Sound(store) /\ Typed(store) /\ Sound(mid) /\ Typed(mid)
    BY CloseSound DEF Invariant, Sound
  <2>3. /\ t \in Task
        /\ store.rt[t] \in Runtime
        /\ Describes(store.rt[t], l)
        /\ store.rt[t].state \in Held
        /\ store.rt[t].attempt > 0
    BY <2>2 DEF Sound, Typed, Store, Lease, Matches, Describes, Attempted
  <2>4. /\ mid.wf = store.wf
        /\ mid.leases = store.leases \ {l}
        /\ mid.rt = [store.rt EXCEPT ![t] = q]
    BY <2>2, <2>3, CloseFields
  <2>5. q.attempt = store.rt[t].attempt
    BY <2>3, ClosedTaskEnds
  <2> HIDE DEF mid, q, t
  <2>6. /\ Steady(mid, store')
        /\ Undecided(mid, store')
        /\ \A u \in Task : store'.rt[u].attempt = mid.rt[u].attempt
        /\ store'.leases = mid.leases
    BY <2>1, <2>2, RecomputeSteady
  <2>7. Steady(store, mid)
    BY <2>2, <2>3, <2>4, OneTaskSteady DEF Held
  <2>8. Steady(store, store')
    BY <2>6, <2>7, Compose
  <2>9. /\ mid.rt[t] = q
        /\ \A u \in Task : u # t => mid.rt[u] = store.rt[u]
    BY <2>2, <2>3, <2>4 DEF Typed, Store
  <2>10. DecidedByHolder(store, store')
    <3> SUFFICES ASSUME NEW u \in Task,
                        store'.rt[u].state # store.rt[u].state,
                        store'.rt[u].state \in Result
                 PROVE  \E m \in store.leases \ store'.leases :
                          /\ m.task = u
                          /\ m.ttl > 0
                          /\ m.token = store.rt[u].token
                          /\ m.attempt = store'.rt[u].attempt
      BY DEF DecidedByHolder
    <3>1. u = t
      BY <2>6, <2>9 DEF Undecided
    <3>2. l \in store.leases \ store'.leases
      BY <2>4, <2>6
    <3>3. l.task = t /\ l.ttl > 0 /\ l.token = store.rt[t].token
      BY <2>1 DEF Current, t
    <3>4. store'.rt[t].attempt = l.attempt
      BY <2>3, <2>5, <2>6, <2>9 DEF Describes
    <3> QED
      BY <3>1, <3>2, <3>3, <3>4
  <2>11. Fenced(store, store', issued)
    BY <2>4, <2>6, FewerLeasesFenced
  <2> QED
    BY <2>8, <2>10, <2>11 DEF Permitted, Steady, StaysFinal, HoldsBack
<1> QED
  BY <1>1, <1>2

(* Time changes deadlines, not states or tokens. *)
LEMMA TickPermitted ==
  ASSUME Invariant, Tick
  PROVE  Permitted(store, store', issued)
<1>1. store' = Later(store) /\ Typed(store)
  BY DEF Tick, Later, Aged, AgedTask, Invariant, Sound
<1>2. /\ store'.wf = store.wf
      /\ store'.leases = {Aged(l) : l \in store.leases}
      /\ store'.rt = [t \in Task |-> AgedTask(store.rt[t])]
  BY <1>1, LaterFields
<1>3. \A t \in Task : store'.rt[t].state = store.rt[t].state
  <2>1. \A r \in Runtime : AgedTask(r).state = r.state
    BY DEF AgedTask, Runtime
  <2> QED
    BY <1>1, <1>2, <2>1 DEF Typed, Store
<1>4. \A l \in store.leases : Aged(l).token = l.token
  BY <1>1 DEF Aged, Lease, Typed, Store
<1>5. Fenced(store, store', issued)
  BY <1>2, <1>4 DEF Fenced
<1> QED
  BY <1>2, <1>3, <1>5 DEF Permitted, StaysFinal, HoldsBack, DecidedByHolder

(* Steps that leave workflows, tasks and leases alone. *)
LEMMA SameTasksPermitted ==
  ASSUME store'.wf = store.wf, store'.rt = store.rt, store'.leases = store.leases
  PROVE  Permitted(store, store', issued)
BY DEF Permitted, StaysFinal, HoldsBack, DecidedByHolder, Fenced

(* Every step keeps the four promises. *)
LEMMA NextPermitted ==
  ASSUME Invariant, [Next]_vars
  PROVE  Permitted(store, store', issued)
<1>1. CASE ClientStep
  BY <1>1, CreateWorkflowPermitted, CancelWorkflowPermitted DEF ClientStep
<1>2. CASE WorkerStep
  <2>1. ASSUME NEW w \in Worker, RegisterWorker(w)
        PROVE  Permitted(store, store', issued)
    <3>1. store \in Store /\ store' = [store EXCEPT !.active[w] = 0]
      BY <2>1 DEF RegisterWorker, Invariant, Sound, Typed
    <3>2. /\ store'.wf = store.wf
          /\ store'.rt = store.rt
          /\ store'.leases = store.leases
      BY <3>1 DEF Store
    <3> QED
      BY <3>2, SameTasksPermitted
  <2>2. ASSUME NEW w \in Worker, HeartbeatWorker(w)
        PROVE  Permitted(store, store', issued)
    BY <2>2, SameTasksPermitted DEF HeartbeatWorker
  <2> QED
    BY <1>2, <2>1, <2>2, LeaseNextPermitted, StartLeasePermitted,
       RenewLeasePermitted, AppendLogPermitted, CompleteLeasePermitted
       DEF WorkerStep
<1>3. CASE Sweep
  <2>1. /\ Steady(store, store')
        /\ Undecided(store, store')
        /\ store'.leases \in SUBSET store.leases
    BY <1>3, SweptSteady DEF Sweep, Invariant
  <2> QED
    BY <2>1, SteadyPermitted, FewerLeasesFenced
<1>4. CASE UNCHANGED vars
  BY <1>4, SameTasksPermitted DEF vars
<1> QED
  BY <1>1, <1>2, <1>3, <1>4, TickPermitted DEF Next

-----------------------------------------------------------------------------
(* Fencing: an expired, completed or cancelled token never comes back, for any
   number of workers and leases. *)
THEOREM TokensStayClosed == Spec => ClosedTokensStayClosed
<1>1. Invariant /\ [Next]_vars =>
        [\A l \in store'.leases :
           (\A m \in store.leases : m.token # l.token) => l.token > issued]_vars
  BY NextPermitted DEF Permitted, Fenced
<1> QED
  BY <1>1, InvariantHolds, PTL DEF Spec, ClosedTokensStayClosed

(* Only the holder of a task's unexpired lease decides it, for the attempt the
   lease was granted for, and the lease is closed by that. *)
THEOREM ResultsFromHolders == Spec => ResultsNeedALiveLease
<1>1. Invariant /\ [Next]_vars =>
        [\A t \in Task :
           /\ store'.rt[t].state # store.rt[t].state
           /\ store'.rt[t].state \in {"SUCCEEDED", "FAILED", "RETRY_WAIT"}
           => \E l \in store.leases \ store'.leases :
                /\ l.task = t
                /\ l.ttl > 0
                /\ l.token = store.rt[t].token
                /\ l.attempt = store'.rt[t].attempt]_vars
  BY NextPermitted DEF Permitted, DecidedByHolder, Result
<1> QED
  BY <1>1, InvariantHolds, PTL DEF Spec, ResultsNeedALiveLease

(* Ended tasks and workflows never change state. *)
THEOREM FinalStaysFinal == Spec => FinalIsForever
<1>1. Invariant /\ [Next]_vars =>
        [/\ \A t \in Task : store.rt[t].state \in Final
                            => store'.rt[t].state = store.rt[t].state
         /\ \A f \in Workflow : store.wf[f] \in Final
                            => store'.wf[f] = store.wf[f]]_vars
  BY NextPermitted DEF Permitted, StaysFinal
<1> QED
  BY <1>1, InvariantHolds, PTL DEF Spec, FinalIsForever

(* No retry is offered before its back-off has elapsed. *)
THEOREM BackoffKept == Spec => BackoffRespected
<1>1. Invariant /\ [Next]_vars =>
        [\A t \in Task :
           store.rt[t].state = "RETRY_WAIT" /\ store.rt[t].retryAt > 0
             => store'.rt[t].state \in {"RETRY_WAIT", "CANCELLED"}]_vars
  BY NextPermitted DEF Permitted, HoldsBack
<1> QED
  BY <1>1, InvariantHolds, PTL DEF Spec, BackoffRespected
=============================================================================
