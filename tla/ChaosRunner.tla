----------------------------- MODULE ChaosRunner -----------------------------
(***************************************************************************)
(* The chaos lab's runner (tools/chaos_lab/runner.py): a scenario is       *)
(* replayed against a fresh reference model, one action after the other,   *)
(* and the model's own check_invariants (model.py) is called after each.   *)
(* A scenario is a workflow, worker specs and a script of actions, and a   *)
(* replay is a function of it: the runner keeps no state of its own.       *)
(***************************************************************************)
EXTENDS ReferenceModel

CONSTANT FirstWorkflow   \* workflow-<seed>, the one workflow of a scenario

-----------------------------------------------------------------------------
(* check_invariants: the codes of the checks that fail. *)

Flag(code, bad) == IF bad THEN {code} ELSE {}

AllTasks(m) == {m.tasks[t] : t \in DOMAIN m.tasks}

CheckWorkerCapacity(m) ==
  UNION {LET v == m.workers[w] IN
         Flag("WORKER_CAPACITY", Cardinality(v.active) > v.capacity)
         \cup Flag("WORKER_GHOST_LEASE", ~ v.active \subseteq Tokens(m))
         \cup Flag("WORKER_LEASE_OWNER",
                   \E l \in m.leases : l.token \in v.active /\ l.worker # w)
         : w \in DOMAIN m.workers}

CheckLeaseBijection(m) ==
  Flag("OVERLAPPING_LEASE", \E k, l \in m.leases : k # l /\ k.task = l.task)
  \cup Flag("LEASE_DURATION", \E l \in m.leases : l.expires <= l.acquired)
  \cup Flag("LEASE_WORKER_INDEX",
            \E l \in m.leases : \/ l.worker \notin DOMAIN m.workers
                                \/ l.token \notin m.workers[l.worker].active)

(* A held task without a lease, or with one that says otherwise. *)
CheckTaskLeaseFields(m) ==
  UNION {LET r == m.tasks[t] IN
         IF r.state \notin Held
         THEN Flag("INACTIVE_TASK_HAS_LEASE", Unheld(r) # r)
         ELSE IF r.token = NoToken THEN {"ACTIVE_TASK_NO_LEASE"}
         ELSE IF r.token \notin Tokens(m) THEN {"ACTIVE_TASK_UNKNOWN_LEASE"}
         ELSE LET l == LeaseOf(m, r.token) IN
              Flag("TASK_LEASE_TARGET", l.task # t)
              \cup Flag("TASK_LEASE_OWNER", l.worker # r.owner)
              \cup Flag("TASK_LEASE_EXPIRY", l.expires # r.until)
         : t \in DOMAIN m.tasks}

CheckDependencySafety(m) ==
  Flag("DEPENDENCY_SAFETY",
       \E r \in AllTasks(m) :
         /\ r.state \in Active \cup {"SUCCEEDED"}
         /\ \E d \in r.needs : m.tasks[d].state # "SUCCEEDED")

(* A FAILED workflow is not looked at, but for its time. *)
CheckTerminalWorkflows(m) ==
  UNION {LET v == m.workflows[f] IN
         Flag("WORKFLOW_FALSE_SUCCESS",
              v.state = "SUCCEEDED" /\ StatesOf(m, f) # {"SUCCEEDED"})
         \cup Flag("WORKFLOW_CANCEL_ACTIVE",
                   v.state = "CANCELLED" /\ ~ StatesOf(m, f) \subseteq Final)
         \cup Flag("WORKFLOW_CANCEL_LEASE",
                   v.state = "CANCELLED" /\ \E l \in m.leases : l.wf = f)
         \cup Flag("WORKFLOW_TERMINAL_TIME",
                   v.state \in Final /\ v.finished = Nil)
         \cup Flag("WORKFLOW_ACTIVE_FINISHED",
                   v.state \notin Final /\ v.finished # Nil)
         : f \in DOMAIN m.workflows}

CheckAttempts(m) ==
  UNION {Flag("ATTEMPT_BUDGET", r.attempt > r.retry.attempts)
         \cup Flag("PENDING_ATTEMPT", r.state = "PENDING" /\ r.attempt # 0)
         \cup Flag("ACTIVE_ATTEMPT", r.state \in Held /\ r.attempt < 1)
         : r \in AllTasks(m)}

CheckRetryTimes(m) ==
  UNION {Flag("RETRY_TIME", r.state = "RETRY_WAIT" /\ r.retryAt = Nil)
         \cup Flag("STALE_RETRY_TIME", r.state # "RETRY_WAIT" /\ r.retryAt # Nil)
         : r \in AllTasks(m)}

CheckTimestamps(m) ==
  (UNION {Flag("WORKFLOW_FUTURE_CREATED", m.workflows[f].created > m.now)
          \cup Flag("WORKFLOW_TIME_ORDER",
                    m.workflows[f].finished \in 0..(m.workflows[f].created - 1))
          : f \in DOMAIN m.workflows})
  \cup
  (UNION {Flag("TASK_FUTURE_START", r.started > m.now)
          \cup Flag("TASK_FUTURE_FINISH", r.finished > m.now)
          \cup Flag("TASK_TIME_ORDER", r.finished \in 0..(r.started - 1))
          : r \in AllTasks(m)})

CheckOutputLimits(m) ==
  Flag("OUTPUT_LIMIT", \E r \in AllTasks(m) : r.output > OutputLimit)

(* In the order in which they are called; the first that fails raises. *)
Checks(m) == <<CheckWorkerCapacity(m), CheckLeaseBijection(m),
               CheckTaskLeaseFields(m), CheckDependencySafety(m),
               CheckTerminalWorkflows(m), CheckAttempts(m), CheckRetryTimes(m),
               CheckTimestamps(m), CheckOutputLimits(m)>>

Violations(m) == UNION ToSet(Checks(m))

-----------------------------------------------------------------------------
(* Model.apply.  An action has the fields kind, workflow, task, worker,
   token, amount and text: the last as its length, or TextX for the text "x", which
   the shrinker writes and compares with other texts of one letter. *)

NoText == 0
TextX  == -1

Size(text) == IF text = TextX THEN 1 ELSE text

Apply(m, a) ==
  CASE a.kind = "register_worker" ->
         RegisterWorker(m, a.worker, Max({1, a.amount}), {})
    [] a.kind = "heartbeat"          -> Heartbeat(m, a.worker)
    [] a.kind = "drop_worker"        -> DropWorker(m, a.worker)
    [] a.kind = "lease"              -> LeaseNext(m, a.worker)
    [] a.kind = "start"              -> Start(m, a.token)
    [] a.kind = "renew"              -> Renew(m, a.token)
    [] a.kind = "log" -> AppendLog(m, a.token, IF a.text = NoText THEN 4 ELSE Size(a.text))
    [] a.kind = "complete_success"   -> Complete(m, a.token, TRUE)
    [] a.kind = "complete_failure"   -> Complete(m, a.token, FALSE)
    [] a.kind = "advance_time"       -> Done(Advance(m, Max({0, a.amount})))
    [] a.kind = "sweep"              -> Done(Sweep(m))
    [] a.kind = "cancel_workflow"    -> CancelWorkflow(m, a.workflow)
    [] a.kind = "stale_complete"     -> StaleComplete(m, a.token)
    [] a.kind = "stale_renew"        -> StaleRenew(m, a.token)
    [] a.kind = "duplicate_complete" -> DuplicateComplete(m, a.token)

Terminal(m) == \A f \in DOMAIN m.workflows : m.workflows[f].state \in Final

-----------------------------------------------------------------------------
(* ScenarioRunner *)

(* bootstrap: the workflow, then the workers one by one, until one raises. *)
Registered(answer, spec) ==
  IF answer.error # "none" THEN answer
  ELSE RegisterWorker(answer.m, spec.id, spec.capacity, spec.labels)

Bootstrap(sc) ==
  FoldLeft(Registered, AddWorkflow(Empty, FirstWorkflow, sc.tasks), sc.workers)

NoFailure == [index |-> Nil, kind |-> "none", code |-> "none"]

(* What check_invariants raises: the first check that fails, and of that one
   any entity it fails for. *)
FirstOf(failed, index) ==
  IF failed = <<>> THEN NoFailure
  ELSE [index |-> index, kind |-> "InvariantViolation",
        code  |-> CHOOSE c \in failed[1] : TRUE]

InvariantFailure(m, index) ==
  FirstOf(SelectSeq(Checks(m), LAMBDA s : s # {}), index)

(* A rejection is a failure only if the runner is strict, and then no invariant
   is checked. *)
Recorded(run, answer, strict) ==
  [m |-> answer.m, steps |-> run.steps + 1,
   failure |-> IF strict /\ answer.error # "none"
               THEN [index |-> run.steps, kind |-> "ModelError", code |-> answer.error]
               ELSE InvariantFailure(answer.m, run.steps)]

(* One turn of replay's loop, which ends at the first failure. *)
Turn(run, a, strict) ==
  IF run.failure # NoFailure THEN run
  ELSE Recorded(run, Apply(run.m, a), strict)

Booted(answer) ==
  IF answer.error # "none"
  THEN [m |-> Empty, steps |-> 0,
        failure |-> [index |-> Nil, kind |-> "ModelError", code |-> answer.error]]
  ELSE [m |-> answer.m, steps |-> 0, failure |-> InvariantFailure(answer.m, Nil)]

(* replay, with stop_on_failure, as its callers leave it. *)
Replay(sc, strict) ==
  FoldLeft(LAMBDA run, a : Turn(run, a, strict), Booted(Bootstrap(sc)), sc.actions)
=============================================================================
