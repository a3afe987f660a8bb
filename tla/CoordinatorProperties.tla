------------------------ MODULE CoordinatorProperties ------------------------
(***************************************************************************)
(* What the coordinator's store promises: invariants, what a step may      *)
(* never do, and what happens in the end; and, last, three statements the  *)
(* repository makes about tasks that the code does not keep.               *)
(***************************************************************************)
EXTENDS Coordinator

(* The store holds what its Go types allow. *)
TypeOK ==
  /\ store \in Store
  /\ IsFiniteSet(store.leases)
  /\ registered \subseteq Worker
  /\ age \in [Worker -> Nat]
  /\ arrivals \in Seq(Workflow)
  /\ idempotency \subseteq Key \X Workflow
  /\ issued \in Nat

(* A lease is recorded twice, in Store.leases and in its task's runtime, and
   expireLeaseLocked, CompleteLease, RenewLease and CancelWorkflow each update
   both by hand.  The two never disagree: every stored lease is the one its
   task is held under, with the same owner, attempt and deadline, every held
   task has its lease, and no other task keeps lease fields. *)
LeaseMatchesTask ==
  /\ \A l \in store.leases :
       LET r == store.rt[l.task] IN
       /\ r.state \in Held
       /\ r.token = l.token /\ r.owner = l.worker
       /\ r.until = l.ttl   /\ r.attempt = l.attempt
  /\ \A t \in Task :
       IF store.rt[t].state \in Held
       THEN \E l \in store.leases : l.task = t
       ELSE /\ store.rt[t].token = NoToken
            /\ store.rt[t].owner = NoWorker
            /\ store.rt[t].until = Nil

(* Worker.ActiveLeases, which five methods adjust by hand and guard with
   "> 0", is the number of leases the worker holds and never exceeds its
   capacity: a worker is neither overcommitted nor starved by a leaked count. *)
ActiveCountsLeases ==
  \A w \in Worker :
    /\ store.active[w] = Cardinality({l \in store.leases : l.worker = w})
    /\ store.active[w] <= Capacity(w)

(* No task becomes runnable, runs, waits for a retry or ends by its own
   result before everything it depends on has succeeded. *)
DependenciesDone ==
  \A t \in Task :
    store.rt[t].state \notin {"PENDING", "CANCELLED"}
      => \A d \in Deps[t] : store.rt[d].state = "SUCCEEDED"

(* A workflow that has ended has no unfinished task and no lease, whichever
   way it ended: no worker is still entitled to run any of it. *)
TerminalIsQuiet ==
  \A f \in Workflow : store.wf[f] \in Final =>
    /\ \A t \in TasksOf(f) : store.rt[t].state \in Final
    /\ LeasesOf(store, f) = {}

(* A workflow's verdict is its tasks': SUCCEEDED exactly when all of them
   succeeded, FAILED only if one did fail; and unless a client cancelled it,
   a task is CANCELLED only below an unsuccessful one. *)
OutcomeJustified ==
  /\ \A f \in Workflow :
       /\ store.wf[f] = "SUCCEEDED"
            <=> \A t \in TasksOf(f) : store.rt[t].state = "SUCCEEDED"
       /\ store.wf[f] = "FAILED"
            => \E t \in TasksOf(f) : store.rt[t].state = "FAILED"
  /\ \A t \in Task :
       store.rt[t].state = "CANCELLED" /\ store.wf[WfOf[t]] # "CANCELLED"
         => \E d \in Deps[t] : store.rt[d].state \in Unsuccessful

(* No method leaves a workflow half recomputed: while it is open some task is
   runnable, held or waiting for its retry, and every task still PENDING waits
   for a dependency that can yet succeed.  Otherwise the workflow would hang:
   only a change of task state makes the store recompute to any effect. *)
NeverStuck ==
  \A f \in Workflow : store.wf[f] \in Open =>
    /\ \E t \in TasksOf(f) : store.rt[t].state \in Active
    /\ \A t \in Waiting(store, f) :
         /\ \E d \in Deps[t] : store.rt[d].state # "SUCCEEDED"
         /\ \A d \in Deps[t] : store.rt[d].state \notin Unsuccessful

(* NormalizeRetry's attempt budget: a task is given up as FAILED only when its
   attempts are spent, and waits for a retry only while some are left. *)
BudgetDecides ==
  \A t \in Task :
    /\ store.rt[t].state = "FAILED" => store.rt[t].attempt >= MaxAttempts[t]
    /\ store.rt[t].state = "RETRY_WAIT" => store.rt[t].attempt < MaxAttempts[t]

(* Fencing: a token that is not live now is live later only if it has yet to
   be drawn.  An expired, completed or cancelled lease never comes back, so a
   worker that was given up on can never act on the task again. *)
ClosedTokensStayClosed ==
  [][\A l \in store'.leases :
       (\A m \in store.leases : m.token # l.token) => l.token > issued]_vars

(* A result is accepted only from the holder of the task's unexpired lease,
   for the attempt that lease was granted for, and closes it: no attempt
   produces two results and no late worker decides a task. *)
ResultsNeedALiveLease ==
  [][\A t \in Task :
       /\ store'.rt[t].state # store.rt[t].state
       /\ store'.rt[t].state \in {"SUCCEEDED", "FAILED", "RETRY_WAIT"}
       => \E l \in store.leases \ store'.leases :
            /\ l.task = t
            /\ l.ttl > 0
            /\ l.token = store.rt[t].token
            /\ l.attempt = store'.rt[t].attempt]_vars

(* The final states are final: a finished task never runs again and a verdict
   never changes, whatever cancel, expiry and completion race for it. *)
FinalIsForever ==
  [][/\ \A t \in Task : store.rt[t].state \in Final
                         => store'.rt[t].state = store.rt[t].state
     /\ \A f \in Workflow : store.wf[f] \in Final
                         => store'.wf[f] = store.wf[f]]_vars

(* A task that failed is not offered again before its back-off has elapsed;
   only a cancellation takes it out of RETRY_WAIT earlier. *)
BackoffRespected ==
  [][\A t \in Task :
       store.rt[t].state = "RETRY_WAIT" /\ store.rt[t].retryAt > 0
         => store'.rt[t].state \in {"RETRY_WAIT", "CANCELLED"}]_vars

(* Attempts count leases: the counter moves only by one, and exactly when a
   lease for that attempt is granted. *)
AttemptsCountLeases ==
  [][\A t \in Task :
       LET granted == {l \in store'.leases : l.task = t /\ l.token > issued}
       IN store'.rt[t].attempt
            = store.rt[t].attempt + Cardinality(granted)]_vars

(* The phase of LeaseService a task is in. *)
PhaseOf(r) ==
  CASE r.state \in Held                    -> "held"
    [] r.state \in {"SUCCEEDED", "FAILED"} -> "decided"
    [] r.state = "CANCELLED"               -> "dropped"
    [] OTHER                               -> "idle"

Promise == INSTANCE LeaseService WITH
  Token    <- Nat \ {NoToken},
  NoHolder <- NoToken,
  phase    <- [t \in Task |-> PhaseOf(store.rt[t])],
  holder   <- [t \in Task |-> store.rt[t].token],
  spent    <- 1..issued

(* The store keeps the promise of leases: whatever sweeps, cancellations and
   completions one method runs together, it decides at most one task, and only
   one that is held, grants at most one, under a token nobody ever had, and
   takes a task from its holder only to leave it idle, to drop it, or to grant
   it to the next. *)
KeepsThePromise == Promise!Spec

(* The sweeper recovers the work of a worker that has gone silent: a lease is
   gone in the end unless its holder keeps renewing it. *)
SilentLeasesEnd ==
  \A t \in Task :
    \/ []<><<\E l \in store.leases : /\ l.task = t
                                      /\ l.ttl > 0
                                      /\ RenewLease(l)>>_vars
    \/ (store.rt[t].state \in Held) ~> (store.rt[t].state \notin Held)

(* The sweeper wakes retries: no task waits for its retry for ever. *)
RetriesWake ==
  \A t \in Task : (store.rt[t].state = "RETRY_WAIT")
                     ~> (store.rt[t].state # "RETRY_WAIT")

(* With workers that do their part every workflow that is created ends, unless
   the run is out of lease tokens: no task, lease or slot of a worker is ever
   lost track of. *)
WorkflowsEnd ==
  WorkerFairness => \A f \in Workflow :
    (store.wf[f] \in Open) ~> (store.wf[f] \in Final \/ issued = MaxLeases)

(* chaos_lab's ATTEMPT_BUDGET check (tools/chaos_lab/model.py): no task is
   attempted more often than its retry policy allows. *)
AttemptBudget == \A t \in Task : store.rt[t].attempt <= MaxAttempts[t]

(* chaos_lab's STALE_RETRY_TIME check: only a task in RETRY_WAIT has a retry
   deadline. *)
NoStaleRetryTime ==
  \A t \in Task : store.rt[t].retryAt # Nil => store.rt[t].state = "RETRY_WAIT"

(* chaos_lab's TASK_TIME_ORDER check: a task never has a FinishedAt older
   than its StartedAt.  A task that is RUNNING has started and not finished,
   so any FinishedAt it carries is older. *)
NoStaleFinish ==
  \A t \in Task : ~ (store.rt[t].state = "RUNNING" /\ store.rt[t].finished)
=============================================================================
