----------------------------- MODULE Coordinator -----------------------------
(***************************************************************************)
(* The coordinator's in-memory store (coordinator/internal/core/store.go   *)
(* and model.go): workflows whose tasks form a DAG, workers, and the       *)
(* leases that hand tasks to workers.                                      *)
(*                                                                         *)
(* Every store method holds Store.mu from its first line to its last, so   *)
(* each is one atomic action.  The code composes a method from helpers     *)
(* that change the store in place (sweepLocked, expireLeaseLocked,         *)
(* Recompute); here a helper is an operator from a store to a store and a  *)
(* method is their composition.                                            *)
(*                                                                         *)
(* TIME.  The code only ever asks whether a deadline has passed.  A        *)
(* deadline is kept as the time left until it, 0 once it has passed        *)
(* ("!now.Before(deadline)"), and Tick lets one unit of time go by.  A     *)
(* timestamp nothing compares is kept as a Boolean: it is set, or it is    *)
(* nil.                                                                    *)
(***************************************************************************)
EXTENDS Integers, FiniteSets, SequencesExt

CONSTANTS
  Workflow,       \* the workflows clients submit
  Task,           \* all their tasks
  Worker,         \* the worker IDs newID("worker") draws, one per registration
  Key,            \* idempotency keys
  NoKey, NoWorker,
  WfOf,           \* WfOf[t]: the workflow task t belongs to
  Deps,           \* Deps[t]: TaskSpec.DependsOn
  Order,          \* Order[f]: the topological order ValidateSpec returned
  MaxAttempts,    \* MaxAttempts[t]: normalised RetryPolicy.MaxAttempts
  Delay,          \* Delay[t][n]: RetryDelay after attempt n
  Fits,           \* Fits[w]: the tasks whose labels worker w's labels match
  Requested,      \* Requested[w]: the capacity w asks for when it registers
  LeaseDuration,  \* Store.leaseDuration
  WorkerTTL,      \* Store.workerTTL
  MaxOutput,      \* the output a task may produce, in chunks
  Chunk,          \* the sizes of the log chunks workers send
  MaxLeases,      \* BOUND: how many lease tokens are ever drawn
  InitBus,        \* the event bus before the first event
  Deliver(_, _)   \* Deliver(b, es): the bus b after publishing the events es

TasksOf(f) == {t \in Task : WfOf[t] = f}

(* What ValidateSpec guarantees of every accepted specification: tasks
   depend on tasks of their own workflow, the graph has no cycle (every set
   of tasks has one that depends on none of the others) and Order lists each
   task once. *)
ASSUME GraphAssumption ==
  /\ WfOf \in [Task -> Workflow]
  /\ Deps \in [Task -> SUBSET Task]
  /\ \A t \in Task : \A d \in Deps[t] : WfOf[d] = WfOf[t]
  /\ \A S \in (SUBSET Task) \ {{}} : \E t \in S : Deps[t] \cap S = {}
  /\ \A f \in Workflow : /\ TasksOf(f) # {}
                         /\ Order[f] \in Seq(TasksOf(f))
                         /\ \A t \in TasksOf(f) :
                              \E i \in DOMAIN Order[f] : Order[f][i] = t

(* ValidateSpec takes a task into its order once, when everything the task
   depends on is in it. *)
ASSUME OrderAssumption ==
  \A f \in Workflow : \A i, j \in DOMAIN Order[f] :
    /\ Order[f][i] = Order[f][j] => i = j
    /\ Order[f][i] \in Deps[Order[f][j]] => i < j

(* What NormalizeRetry and the store's configuration guarantee. *)
ASSUME PolicyAssumption ==
  /\ MaxAttempts \in [Task -> Nat \ {0}]
  /\ \A t \in Task : Delay[t] \in [1..MaxAttempts[t] -> Nat]
  /\ Requested \in [Worker -> Int]
  /\ Fits \in [Worker -> SUBSET Task]
  /\ LeaseDuration \in Nat \ {0}
  /\ WorkerTTL \in Nat
  /\ MaxOutput \in Nat
  /\ Chunk \subseteq Nat
  /\ MaxLeases \in Nat
  /\ NoWorker \notin Worker
  /\ NoKey \notin Key

VARIABLES
  store,       \* workflows, task runtimes, leases and the workers' ActiveLeases
  registered,  \* the workers in Store.workers
  age,         \* age[w]: time since LastHeartbeat, counted up to WorkerTTL + 1
  arrivals,    \* the workflows in Store.workflows, by CreatedAt
  idempotency, \* Store.idempotency, as a set of pairs
  issued,      \* how many lease tokens newID("lease") has drawn
  bus          \* Store.events

vars == <<store, registered, age, arrivals, idempotency, issued, bus>>

-----------------------------------------------------------------------------
(* The states of model.go and the store's data. *)

WorkflowState == {"ABSENT", "PENDING", "RUNNING",
                  "SUCCEEDED", "FAILED", "CANCELLED"}
TaskState == {"PENDING", "READY", "LEASED", "RUNNING",
              "SUCCEEDED", "FAILED", "RETRY_WAIT", "CANCELLED"}

Open         == {"PENDING", "RUNNING"}
Final        == {"SUCCEEDED", "FAILED", "CANCELLED"}
Held         == {"LEASED", "RUNNING"}
Active       == {"READY", "LEASED", "RUNNING", "RETRY_WAIT"}
Unsuccessful == {"FAILED", "CANCELLED"}

Nil     == -1         \* a nil *time.Time
NoToken == 0          \* the empty LeaseToken; tokens are 1, 2, ...
Timer   == Nat \cup {Nil}

Runtime == [state   : TaskState,
            attempt : Nat,
            token   : Nat,
            owner   : Worker \cup {NoWorker},
            until   : Timer,
            retryAt : Timer,
            started : BOOLEAN,
            finished: BOOLEAN,
            output  : Nat]

Lease == [token: Nat \ {0}, task: Task, worker: Worker, attempt: Nat, ttl: Nat]

Store == [wf     : [Workflow -> WorkflowState],
          rt     : [Task -> Runtime],
          leases : SUBSET Lease,
          active : [Worker -> Nat]]

(* The runtime NewWorkflow gives a task. *)
NewRuntime == [state |-> "PENDING", attempt |-> 0, token |-> NoToken,
               owner |-> NoWorker, until |-> Nil, retryAt |-> Nil,
               started |-> FALSE, finished |-> FALSE, output |-> 0]

ValidTaskTransitions ==
  [PENDING    |-> {"READY", "CANCELLED"},
   READY      |-> {"LEASED", "CANCELLED"},
   LEASED     |-> {"RUNNING", "READY", "CANCELLED"},
   RUNNING    |-> {"SUCCEEDED", "FAILED", "RETRY_WAIT", "READY", "CANCELLED"},
   RETRY_WAIT |-> {"READY", "CANCELLED"},
   FAILED     |-> {},
   SUCCEEDED  |-> {},
   CANCELLED  |-> {}]

(* An invalid transition is an error every caller but LeaseNext drops. *)
TransitionTask(r, next) ==
  IF next \in ValidTaskTransitions[r.state] THEN [r EXCEPT !.state = next] ELSE r

(* RegisterWorker's clamp. *)
Capacity(w) == CASE Requested[w] <= 0  -> 1
                 [] Requested[w] > 256 -> 256
                 [] OTHER              -> Requested[w]

-----------------------------------------------------------------------------
(* Recompute: one pass over a workflow's tasks in topological order. *)

Waiting(st, f) == {t \in TasksOf(f) : st.rt[t].state = "PENDING"}

(* mutants: the pass cancels nothing; it cancels only what depends directly
   on an unsuccessful task. *)
Survivors_All(st, f) == Waiting(st, f)
Survivors_Shallow(st, f) ==
  {t \in Waiting(st, f) : \A d \in Deps[t] : st.rt[d].state \notin Unsuccessful}

(* The waiting tasks the pass does not cancel: the largest set of waiting
   tasks none of which depends on an unsuccessful task or on a waiting task
   outside the set.  The pass meets a task after its dependencies, so it
   cancels the rest, transitively. *)
Survivors(st, f) ==
  UNION {S \in SUBSET Waiting(st, f) :
           \A t \in S : \A d \in Deps[t] :
             /\ st.rt[d].state \notin Unsuccessful
             /\ st.rt[d].state = "PENDING" => d \in S}

(* mutant: one successful dependency is enough. *)
DepsDone_Any(st, t) ==
  Deps[t] = {} \/ \E d \in Deps[t] : st.rt[d].state = "SUCCEEDED"

DepsDone(st, t) == \A d \in Deps[t] : st.rt[d].state = "SUCCEEDED"

(* mutants: a retry is due one unit early; only one without a deadline is due. *)
Due_Early(r) == r.retryAt \in {Nil, 0, 1}
Due_NoDeadline(r) == r.retryAt = Nil

Due(r) == r.retryAt \in {Nil, 0}

RecomputeTask(st, f, t) ==
  LET r == st.rt[t] IN
  IF r.state = "PENDING" /\ t \notin Survivors(st, f)
  THEN TransitionTask(r, "CANCELLED")
  ELSE IF r.state = "PENDING" /\ DepsDone(st, t)
  THEN TransitionTask(r, "READY")
  ELSE IF r.state = "RETRY_WAIT" /\ Due(r)
  THEN TransitionTask([r EXCEPT !.retryAt = Nil], "READY")
  ELSE r

(* mutants: a failure ends the workflow at once; every task having ended is a
   success. *)
Outcome_Eager(rt, f) ==
  IF \A t \in TasksOf(f) : rt[t].state = "SUCCEEDED" THEN "SUCCEEDED"
  ELSE IF \E t \in TasksOf(f) : rt[t].state = "FAILED" THEN "FAILED"
  ELSE "RUNNING"
Outcome_Tolerant(rt, f) ==
  IF \A t \in TasksOf(f) : rt[t].state \in Final THEN "SUCCEEDED" ELSE "RUNNING"

(* The state of an open workflow after the pass has left its tasks in rt. *)
Outcome(rt, f) ==
  IF \A t \in TasksOf(f) : rt[t].state = "SUCCEEDED" THEN "SUCCEEDED"
  ELSE IF /\ \E t \in TasksOf(f) : rt[t].state = "FAILED"
          /\ ~ \E t \in TasksOf(f) : rt[t].state \in Active
  THEN "FAILED"
  ELSE "RUNNING"

(* Recompute on every workflow of F; a terminal one returns at once. *)
Recompute(st, F) ==
  LET Live(f) == f \in F /\ st.wf[f] \in Open
      rt == [t \in Task |-> IF Live(WfOf[t]) THEN RecomputeTask(st, WfOf[t], t)
                                             ELSE st.rt[t]]
  IN [st EXCEPT !.rt = rt,
                !.wf = [f \in Workflow |-> IF Live(f) THEN Outcome(rt, f)
                                                      ELSE st.wf[f]]]

-----------------------------------------------------------------------------
(* Leases: granting, closing and expiring them. *)

ClearLease(r) == [r EXCEPT !.token = NoToken, !.owner = NoWorker, !.until = Nil]

(* mutants: the count is never lowered; it is lowered by one however many
   leases go; it is lowered for every worker; it starts over. *)
Released_Never(st, L) == st.active
Released_Once(st, L) ==
  [w \in Worker |-> IF \E l \in L : l.worker = w THEN st.active[w] - 1
                                                 ELSE st.active[w]]
Released_AllWorkers(st, L) ==
  [w \in Worker |-> st.active[w] - Cardinality(L)]
Released_ToZero(st, L) ==
  [w \in Worker |-> IF \E l \in L : l.worker = w THEN 0 ELSE st.active[w]]

(* ActiveLeases after the leases of L are gone; it never drops below 0. *)
Released(st, L) ==
  [w \in Worker |->
     LET gone == Cardinality({l \in L : l.worker = w})
     IN IF gone < st.active[w] THEN st.active[w] - gone ELSE 0]

(* expireLeaseLocked on each lease of L.  The task goes back to READY
   whatever its attempt count. *)
ExpireTask(r) ==
  IF r.state \in Held
  THEN [ClearLease(r) EXCEPT !.state = "READY", !.started = FALSE]
  ELSE ClearLease(r)

Expire(st, L) ==
  [st EXCEPT
     !.leases = @ \ L,
     !.active = Released(st, L),
     !.rt = [t \in Task |->
               IF \E l \in L : l.task = t /\ l.token = st.rt[t].token
               THEN ExpireTask(st.rt[t]) ELSE st.rt[t]]]

(* mutant: the sweep expires nothing. *)
Overdue_None(st) == {}

(* A lease expires at its deadline, not after it. *)
Overdue(st) == {l \in st.leases : l.ttl = 0}

(* sweepLocked. *)
Swept(st) == Recompute(Expire(st, Overdue(st)), Workflow)

(* mutant: the lowest token not in use is taken again. *)
FreshToken_Recycled == Cardinality(store.leases) + 1

(* newID("lease"): random, taken to be new. *)
FreshToken == issued + 1

(* LeaseNext's bookkeeping for the task it picked. *)
Grant(st, w, t, k) ==
  LET n == st.rt[t].attempt + 1 IN
  [st EXCEPT
     !.rt[t] = [TransitionTask(@, "LEASED") EXCEPT
                  !.attempt = n, !.token = k, !.owner = w,
                  !.until = LeaseDuration],
     !.active[w] = @ + 1,
     !.leases = @ \cup {[token |-> k, task |-> t, worker |-> w,
                         attempt |-> n, ttl |-> LeaseDuration]}]

(* mutant: only the stored lease is extended. *)
Renew_OneCopy(st, l) ==
  [st EXCEPT !.leases = (@ \ {l}) \cup {[l EXCEPT !.ttl = LeaseDuration]}]

(* RenewLease moves both copies of the deadline. *)
Renew(st, l) ==
  [st EXCEPT !.leases = (@ \ {l}) \cup {[l EXCEPT !.ttl = LeaseDuration]},
             !.rt[l.task].until = LeaseDuration]

(* CompleteLease on a task that is LEASED or RUNNING: an unstarted one is
   started first, the lease is closed, and a failure either waits for its
   retry or, its attempts spent, is final. *)
Begun(r) == IF r.state = "LEASED"
            THEN [TransitionTask(r, "RUNNING") EXCEPT !.started = TRUE] ELSE r

(* mutant: off by one. *)
Finish_OffByOne(t, r, ok) ==
  IF ok THEN TransitionTask(r, "SUCCEEDED")
  ELSE IF r.attempt <= MaxAttempts[t]
  THEN [TransitionTask(r, "RETRY_WAIT") EXCEPT !.retryAt = Delay[t][r.attempt]]
  ELSE TransitionTask(r, "FAILED")

Finish(t, r, ok) ==
  IF ok THEN TransitionTask(r, "SUCCEEDED")
  ELSE IF r.attempt < MaxAttempts[t]
  THEN [TransitionTask(r, "RETRY_WAIT") EXCEPT !.retryAt = Delay[t][r.attempt]]
  ELSE TransitionTask(r, "FAILED")

Close(st, l, ok) ==
  LET r == [ClearLease(Begun(st.rt[l.task])) EXCEPT !.finished = TRUE] IN
  [st EXCEPT !.leases = @ \ {l},
             !.active = Released(st, {l}),
             !.rt[l.task] = Finish(l.task, r, ok)]

(* mutant: the leases of the other workflows go too. *)
LeasesOf_Everyone(st, f) == st.leases

(* CancelWorkflow: Workflow.Cancel, then every lease of the workflow goes. *)
LeasesOf(st, f) == {l \in st.leases : WfOf[l.task] = f}

(* mutant: tasks that have succeeded are cancelled too. *)
CancelTask_Done(r) == [r EXCEPT !.state = "CANCELLED", !.finished = TRUE]

CancelTask(r) == IF r.state \in Final THEN r
                 ELSE [r EXCEPT !.state = "CANCELLED", !.finished = TRUE]

Cancel(st, f) ==
  LET L == LeasesOf(st, f)
      Freed(t, r) == IF \E l \in L : l.task = t /\ l.token = r.token
                     THEN ClearLease(r) ELSE r
  IN [st EXCEPT
        !.wf[f] = "CANCELLED",
        !.leases = @ \ L,
        !.active = Released(st, L),
        !.rt = [t \in Task |-> IF WfOf[t] = f THEN Freed(t, CancelTask(st.rt[t]))
                                              ELSE st.rt[t]]]

-----------------------------------------------------------------------------
(* The events each method publishes, in the order it publishes them. *)

Event(type, f, t, w) == [type |-> type, wf |-> f, task |-> t, worker |-> w]
None == "none"

TaskEvents(type, ts) ==
  [i \in 1..Len(ts) |-> Event(type, WfOf[ts[i]], ts[i], None)]

InState(st, f, S) == SelectSeq(Order[f], LAMBDA t : st.rt[t].state \in S)

ReadyEvents(st, f) == TaskEvents("task.ready", InState(st, f, {"READY"}))

(* emitWorkflowTerminalLocked for the workflows of F. *)
TerminalEvents(before, after, F) ==
  {Event(CASE after.wf[f] = "SUCCEEDED" -> "workflow.succeeded"
           [] after.wf[f] = "FAILED"    -> "workflow.failed"
           [] OTHER                     -> "workflow.cancelled", f, None, None)
     : f \in {g \in F : /\ after.wf[g] # before.wf[g]
                        /\ after.wf[g] \in Final}}

(* expireLeaseLocked publishes only for a task it took the lease away from. *)
ExpiryEvents(st, L) ==
  {Event("lease.expired", WfOf[l.task], l.task, l.worker)
     : l \in {k \in L : /\ st.rt[k.task].token = k.token
                        /\ st.rt[k.task].state \in Held}}

(* Both loops of sweepLocked range over Go maps: in any order. *)
SweepEvents(st) ==
  {a \o b : a \in SetToSeqs(ExpiryEvents(st, Overdue(st))),
            b \in SetToSeqs(TerminalEvents(st, Swept(st), Workflow))}

-----------------------------------------------------------------------------
(* The store's methods. *)

CreateWorkflow(f, key) ==
  /\ store.wf[f] = "ABSENT"
  /\ \A p \in idempotency : p[1] # key
  /\ store' = Recompute(
       [store EXCEPT !.wf[f] = "PENDING",
                     !.rt = [t \in Task |-> IF WfOf[t] = f THEN NewRuntime
                                                           ELSE store.rt[t]]],
       {f})
  /\ arrivals' = Append(arrivals, f)
  /\ idempotency' = idempotency \cup (IF key = NoKey THEN {} ELSE {<<key, f>>})
  /\ bus' = Deliver(bus, <<Event("workflow.created", f, None, None)>>
                         \o (IF store'.wf[f] = "RUNNING"
                             THEN <<Event("workflow.started", f, None, None)>>
                             ELSE <<>>)
                         \o ReadyEvents(store', f))
  /\ UNCHANGED <<registered, age, issued>>

CancelWorkflow(f) ==
  /\ store.wf[f] \in Open
  /\ store' = Cancel(store, f)
  /\ bus' = Deliver(bus,
       TaskEvents("task.cancelled", InState(store, f, TaskState \ Final))
         \o <<Event("workflow.cancelled", f, None, None)>>)
  /\ UNCHANGED <<registered, age, arrivals, idempotency, issued>>

RegisterWorker(w) ==
  /\ w \notin registered
  /\ registered' = registered \cup {w}
  /\ age' = [age EXCEPT ![w] = 0]
  /\ store' = [store EXCEPT !.active[w] = 0]
  /\ bus' = Deliver(bus, <<Event("worker.registered", None, None, w)>>)
  /\ UNCHANGED <<arrivals, idempotency, issued>>

HeartbeatWorker(w) ==
  /\ w \in registered
  /\ age' = [age EXCEPT ![w] = 0]
  /\ bus' = Deliver(bus, <<Event("worker.heartbeat", None, None, w)>>)
  /\ UNCHANGED <<store, registered, arrivals, idempotency, issued>>

(* Sweep; helixd calls it once a second. *)
Sweep ==
  /\ store' = Swept(store)
  /\ \E es \in SweepEvents(store) : bus' = Deliver(bus, es)
  /\ UNCHANGED <<registered, age, arrivals, idempotency, issued>>

(* LeaseNext sweeps, then looks for work: the workflows open after the sweep
   in the order they arrived, recomputing each as it goes, and in each the
   tasks in topological order. *)
Serves(w) == /\ w \in registered
             /\ age[w] <= WorkerTTL
             /\ Swept(store).active[w] < Capacity(w)

Visited(i) == {arrivals[j] : j \in 1..i}

Offer(st, w, f) == {n \in DOMAIN Order[f] : /\ st.rt[Order[f][n]].state = "READY"
                                            /\ Order[f][n] \in Fits[w]}

LeaseNextGrants(w, i, n) ==
  LET st == Recompute(Swept(store), Visited(i))
      f  == arrivals[i]
      t  == Order[f][n]
  IN /\ Serves(w)
     /\ Swept(store).wf[f] \in Open
     /\ n \in Offer(st, w, f)
     /\ \A m \in Offer(st, w, f) : n <= m
     /\ \A j \in 1..(i - 1) : Swept(store).wf[arrivals[j]] \in Open
                                => Offer(st, w, arrivals[j]) = {}
     /\ issued < MaxLeases
     /\ issued' = issued + 1
     /\ store' = Grant(st, w, t, FreshToken)
     /\ \E es \in SweepEvents(store) :
          bus' = Deliver(bus, Append(es, Event("task.leased", f, t, w)))
     /\ UNCHANGED <<registered, age, arrivals, idempotency>>

LeaseNextEmpty(w) ==
  /\ \/ ~ Serves(w) /\ store' = Swept(store)
     \/ /\ Serves(w)
        /\ store' = Recompute(Swept(store), Workflow)
        /\ \A f \in Workflow : store'.wf[f] \in Open => Offer(store', w, f) = {}
  /\ \E es \in SweepEvents(store) : bus' = Deliver(bus, es)
  /\ UNCHANGED <<registered, age, arrivals, idempotency, issued>>

LeaseNext(w) ==
  \/ LeaseNextEmpty(w)
  \/ \E i \in DOMAIN arrivals : \E n \in DOMAIN Order[arrivals[i]] :
       LeaseNextGrants(w, i, n)

(* Every method that takes a token first expires the lease if it is overdue. *)
TouchOverdue(l) ==
  /\ l.ttl = 0
  /\ store' = Expire(store, {l})
  /\ \E es \in SetToSeqs(ExpiryEvents(store, {l})) : bus' = Deliver(bus, es)
  /\ UNCHANGED <<registered, age, arrivals, idempotency, issued>>

(* mutant: the deadline is not checked. *)
Current_Late(l) == store.rt[l.task].token = l.token

Current(l) == l.ttl > 0 /\ store.rt[l.task].token = l.token

StartLease(l) ==
  \/ TouchOverdue(l)
  \/ /\ Current(l)
     /\ store.rt[l.task].state = "LEASED"
     /\ store' = [store EXCEPT !.rt[l.task] = Begun(@)]
     /\ bus' = Deliver(bus,
                 <<Event("task.started", WfOf[l.task], l.task, l.worker)>>)
     /\ UNCHANGED <<registered, age, arrivals, idempotency, issued>>

(* RenewLease does not compare the task's token with the lease's. *)
RenewLease(l) ==
  \/ TouchOverdue(l)
  \/ /\ l.ttl > 0
     /\ store' = Renew(store, l)
     /\ UNCHANGED <<registered, age, arrivals, idempotency, issued, bus>>

AppendLog(l, size) ==
  \/ TouchOverdue(l)
  \/ /\ Current(l)
     /\ store.rt[l.task].output <= MaxOutput - size
     /\ store' = [store EXCEPT !.rt[l.task].output = @ + size]
     /\ bus' = Deliver(bus,
                 <<Event("task.log", WfOf[l.task], l.task, l.worker)>>)
     /\ UNCHANGED <<registered, age, arrivals, idempotency, issued>>

CompleteLease(l, ok) ==
  \/ TouchOverdue(l)
  \/ LET f     == WfOf[l.task]
         after == Close(store, l, ok)
         done  == CASE after.rt[l.task].state = "SUCCEEDED"  -> "task.succeeded"
                    [] after.rt[l.task].state = "RETRY_WAIT" -> "task.retry"
                    [] OTHER                                 -> "task.failed"
     IN /\ Current(l)
        /\ store.rt[l.task].state \in Held
        /\ store' = Recompute(after, {f})
        /\ \E es \in SetToSeqs(TerminalEvents(after, store', {f})) :
             bus' = Deliver(bus, <<Event(done, f, l.task, l.worker)>>
                                 \o es \o ReadyEvents(store', f))
        /\ UNCHANGED <<registered, age, arrivals, idempotency, issued>>

(* One unit of time passes. *)
Less(n) == IF n > 0 THEN n - 1 ELSE n

Tick ==
  /\ store' = [store EXCEPT
       !.leases = {[l EXCEPT !.ttl = Less(@)] : l \in store.leases},
       !.rt = [t \in Task |-> [store.rt[t] EXCEPT !.until = Less(@),
                                                  !.retryAt = Less(@)]]]
  /\ age' = [w \in Worker |-> IF age[w] <= WorkerTTL THEN age[w] + 1 ELSE age[w]]
  /\ UNCHANGED <<registered, arrivals, idempotency, issued, bus>>

-----------------------------------------------------------------------------
Init ==
  /\ store = [wf     |-> [f \in Workflow |-> "ABSENT"],
              rt     |-> [t \in Task |-> NewRuntime],
              leases |-> {},
              active |-> [w \in Worker |-> 0]]
  /\ registered = {}
  /\ age = [w \in Worker |-> 0]
  /\ arrivals = <<>>
  /\ idempotency = {}
  /\ issued = 0
  /\ bus = InitBus

ClientStep == \E f \in Workflow :
                \/ \E key \in Key \cup {NoKey} : CreateWorkflow(f, key)
                \/ CancelWorkflow(f)

WorkerStep == \/ \E w \in Worker :
                   RegisterWorker(w) \/ HeartbeatWorker(w) \/ LeaseNext(w)
              \/ \E l \in store.leases :
                   \/ StartLease(l)
                   \/ RenewLease(l)
                   \/ \E size \in Chunk : AppendLog(l, size)
                   \/ \E ok \in BOOLEAN : CompleteLease(l, ok)

Next == ClientStep \/ WorkerStep \/ Sweep \/ Tick

Spec == Init /\ [][Next]_vars

(* helixd sweeps on a one-second ticker for as long as it runs, and time
   passes whatever the clients and the workers do. *)
ServerFairness == WF_vars(Sweep) /\ WF_vars(Tick)

(* Workers that do their part: each keeps registering, heartbeating and
   polling, and if time and again a task has a live lease its holder in the
   end reports a success.  Polling and completing need strong fairness: the
   heartbeat or the lease may run out between two of a worker's calls. *)
CompletesInTime(t) ==
  \E l \in store.leases : l.task = t /\ l.ttl > 0 /\ CompleteLease(l, TRUE)

WorkerFairness ==
  /\ \A w \in Worker : /\ WF_vars(RegisterWorker(w))
                       /\ WF_vars(HeartbeatWorker(w))
                       /\ SF_vars(LeaseNext(w))
  /\ \A t \in Task : SF_vars(CompletesInTime(t))

FairSpec == Spec /\ ServerFairness
=============================================================================
