---------------------------- MODULE ReferenceModel ----------------------------
(***************************************************************************)
(* The chaos lab's reference model of HelixGrid, Model of                  *)
(* tools/chaos_lab/model.py: a sequential class, so each method is a       *)
(* function from a model to an Answer, the model it leaves and the code of *)
(* the ModelError it raises.  A method may raise after it has changed      *)
(* something, so the two are independent.                                  *)
(*                                                                         *)
(* Left out: the event log and the rejection counters, which no method     *)
(* reads back, and exit codes and error texts, which are only stored.      *)
(***************************************************************************)
EXTENDS Dag, Retry, Integers

CONSTANTS
  LeaseDuration,   \* lease_duration_ms
  WorkerTTL,       \* worker_ttl_ms
  OutputLimit,     \* output_limit_bytes
  ChunkLimit       \* log_chunk_limit_bytes

ASSUME LimitAssumption ==
  /\ LeaseDuration \in Nat \ {0}
  /\ WorkerTTL \in Nat \ {0}
  /\ OutputLimit \in Nat
  /\ ChunkLimit \in Nat

Nil == -1          \* None, in a field of type int | None
NoToken == <<>>    \* the empty lease_token; a token is <<counter, now>>
NoOwner == "none"

Final  == {"SUCCEEDED", "FAILED", "CANCELLED"}
Open   == {"PENDING", "RUNNING"}
Held   == {"LEASED", "RUNNING"}
Active == {"READY", "LEASED", "RUNNING", "RETRY_WAIT"}

-----------------------------------------------------------------------------
(* Building a model. *)

Empty == [now |-> 0, counter |-> 0, workflows |-> <<>>, tasks |-> <<>>,
          workers |-> <<>>, leases |-> {}, closed |-> {}]

NewTask(f, t) ==
  [wf |-> f, needs |-> ToSet(t.needs), labels |-> t.labels,
   retry |-> Normalized(t.retry), state |-> "PENDING", attempt |-> 0,
   token |-> NoToken, owner |-> NoOwner, until |-> Nil, retryAt |-> Nil,
   started |-> Nil, finished |-> Nil, output |-> 0]

AllowedTransitions ==
  [PENDING    |-> {"READY", "CANCELLED"},
   READY      |-> {"LEASED", "CANCELLED"},
   LEASED     |-> {"RUNNING", "READY", "CANCELLED"},
   RUNNING    |-> {"RETRY_WAIT", "SUCCEEDED", "FAILED", "READY", "CANCELLED"},
   RETRY_WAIT |-> {"READY", "CANCELLED"},
   SUCCEEDED  |-> {}, FAILED |-> {}, CANCELLED |-> {}]

(* transition_task.  A transition that is not allowed raises in the middle of
   its method; ILLEGAL marks that this happened. *)
Moved(r, next) ==
  [r EXCEPT !.state =
     IF next = @ \/ next \in AllowedTransitions[@] THEN next ELSE "ILLEGAL"]

TasksOf(m, f) == {t \in DOMAIN m.tasks : m.tasks[t].wf = f}

StatesOf(m, f) == {m.tasks[t].state : t \in TasksOf(m, f)}

-----------------------------------------------------------------------------
(* recompute *)

(* One turn of the loop over the order of the workflow. *)
Visit(m, t) ==
  LET r    == m.tasks[t]
      deps == {m.tasks[d].state : d \in r.needs} IN
  CASE r.state = "PENDING" /\ deps \cap {"FAILED", "CANCELLED"} # {} ->
         [m EXCEPT !.tasks[t] =
            Moved([r EXCEPT !.finished = m.now], "CANCELLED")]
    [] r.state = "PENDING" /\ deps \subseteq {"SUCCEEDED"} ->
         [m EXCEPT !.tasks[t] = Moved(r, "READY")]
    [] r.state = "RETRY_WAIT" /\ r.retryAt <= m.now ->
         [m EXCEPT !.tasks[t] =
            Moved([r EXCEPT !.retryAt = Nil, !.finished = Nil], "READY")]
    [] OTHER -> m

(* mutant: a failed task ends the workflow whatever else still runs. *)
Verdict_Eager(states) ==
  CASE states = {"SUCCEEDED"} -> "SUCCEEDED"
    [] "FAILED" \in states    -> "FAILED"
    [] OTHER                  -> "RUNNING"

Verdict(states) ==
  CASE states = {"SUCCEEDED"}                            -> "SUCCEEDED"
    [] "FAILED" \in states /\ states \cap Active = {} -> "FAILED"
    [] OTHER                                             -> "RUNNING"

Given(m, f, verdict) ==
  [m EXCEPT !.workflows[f].state = verdict,
            !.workflows[f].finished = IF verdict \in Final THEN m.now ELSE @]

Decided(m, f) == Given(m, f, Verdict(StatesOf(m, f)))

Recompute(m, f) ==
  IF m.workflows[f].state \in Final THEN m
  ELSE Decided(FoldLeft(Visit, m, m.workflows[f].order), f)

RecomputeAll(m) == FoldSet(LAMBDA f, n : Recompute(n, f), m, DOMAIN m.workflows)

-----------------------------------------------------------------------------
(* Answers. *)

Done(m) == [m |-> m, error |-> "none"]

Raises(m, code) == [m |-> m, error |-> code]

(* The table f with the entry v for key. *)
Entered(f, key, v) == [x \in DOMAIN f \cup {key} |-> IF x = key THEN v ELSE f[x]]

Holding(m, flows, tasks) == [m EXCEPT !.workflows = flows, !.tasks = tasks]

(* add_workflow: the tasks start over whatever the given records say. *)
AddWorkflow(m, f, tasks) ==
  IF f \in DOMAIN m.workflows THEN Raises(m, "workflow_exists")
  ELSE IF ~ ValidDag(tasks) THEN Raises(m, FirstRefusal(tasks))
  ELSE Done(Recompute(Holding(m,
    Entered(m.workflows, f, [order |-> KahnOrder(tasks), created |-> m.now,
                             state |-> "PENDING", finished |-> Nil]),
    [t \in DOMAIN m.tasks \cup Ids(tasks) |->
       IF t \in Ids(tasks) THEN NewTask(f, ById(tasks, t)) ELSE m.tasks[t]]), f))

(* register_worker.  A worker that was dropped may register again, and the
   new record replaces the old one, its heartbeat and its active_tokens. *)
RegisterWorker(m, w, capacity, labels) ==
  IF capacity \notin 1..256 THEN Raises(m, "capacity")
  ELSE IF w \in DOMAIN m.workers /\ ~ m.workers[w].dropped
  THEN Raises(m, "worker_exists")
  ELSE Done([m EXCEPT !.workers =
         Entered(@, w, [capacity |-> capacity, labels |-> labels, heartbeat |-> m.now,
                        active |-> {}, dropped |-> FALSE])])

Heartbeat(m, w) ==
  IF w \notin DOMAIN m.workers THEN Raises(m, "unknown_worker")
  ELSE IF m.workers[w].dropped THEN Raises(m, "worker_dropped")
  ELSE Done([m EXCEPT !.workers[w].heartbeat = m.now])

(* drop_worker: its leases stay until they expire. *)
DropWorker(m, w) ==
  IF w \notin DOMAIN m.workers THEN Raises(m, "unknown_worker")
  ELSE Done([m EXCEPT !.workers[w].dropped = TRUE])

-----------------------------------------------------------------------------
(* Leases. *)

Tokens(m) == {l.token : l \in m.leases}

LeaseOf(m, token) == CHOOSE l \in m.leases : l.token = token

Unheld(r) == [r EXCEPT !.token = NoToken, !.owner = NoOwner, !.until = Nil]

(* mutant: the worker keeps the token. *)
CloseLease_LeaksToken(m, l) ==
  [m EXCEPT !.leases = @ \ {l}, !.closed = @ \cup {l.token},
            !.tasks[l.task] = IF @.token = l.token THEN Unheld(@) ELSE @]

(* mutant: the token is forgotten instead of remembered as closed. *)
CloseLease_Forgets(m, l) ==
  [m EXCEPT !.leases = @ \ {l}, !.workers[l.worker].active = @ \ {l.token},
            !.tasks[l.task] = IF @.token = l.token THEN Unheld(@) ELSE @]

CloseLease(m, l) ==
  [m EXCEPT !.leases = @ \ {l}, !.closed = @ \cup {l.token},
            !.workers[l.worker].active = @ \ {l.token},
            !.tasks[l.task] = IF @.token = l.token THEN Unheld(@) ELSE @]

(* expire_lease: the task is offered again whatever its attempts. *)
Requeued(m, l) ==
  IF m.tasks[l.task].state \in Held /\ m.workflows[l.wf].state \notin Final
  THEN [m EXCEPT !.tasks[l.task] =
          Moved([@ EXCEPT !.started = Nil, !.finished = Nil], "READY")]
  ELSE m

ExpireLease(m, l) == Requeued(CloseLease(m, l), l)

Expired(m) == {l \in m.leases : l.expires <= m.now}

(* sweep: the leases it expires are of different tasks, so their order does
   not matter. *)
Sweep(m) == RecomputeAll(FoldSet(LAMBDA l, n : ExpireLease(n, l), m, Expired(m)))

(* mutant: nobody sweeps when time moves on. *)
Advance_NoSweep(m, milliseconds) == [m EXCEPT !.now = @ + milliseconds]

Advance(m, milliseconds) == Sweep([m EXCEPT !.now = @ + milliseconds])

(* require_active_lease and ensure_live_lease, which every method that takes a
   token begins with: an expired lease is expired at once, and the call refused. *)
Usable(m, token) == token \in Tokens(m) /\ LeaseOf(m, token).expires > m.now

Unusable(m, token) ==
  IF token \in Tokens(m)
  THEN Raises(ExpireLease(m, LeaseOf(m, token)), "lease_expired")
  ELSE Raises(m, IF token \in m.closed THEN "stale_lease" ELSE "unknown_lease")

(* What start, renew and complete ask besides: the task must still be held under
   the token. *)
Owned(m, token) ==
  Usable(m, token) /\ m.tasks[LeaseOf(m, token).task].token = token

NotOwned(m, token) ==
  IF Usable(m, token) THEN Raises(m, "stale_lease") ELSE Unusable(m, token)

-----------------------------------------------------------------------------
(* lease_next *)

LabelsMatch(workerLabels, taskLabels) == taskLabels \subseteq workerLabels

(* Earlier workflows first, then by workflow id, then in topological order. *)
Precedes(m, t, u) ==
  LET key(x) == LET f == m.tasks[x].wf IN
                <<m.workflows[f].created, f,
                  CHOOSE i \in DOMAIN m.workflows[f].order :
                    m.workflows[f].order[i] = x>>
      a == key(t)
      b == key(u) IN
  \/ a[1] < b[1]
  \/ a[1] = b[1] /\ a[2] < b[2]
  \/ a[1] = b[1] /\ a[2] = b[2] /\ a[3] <= b[3]

Candidates(m, w) ==
  {t \in DOMAIN m.tasks : /\ m.tasks[t].state = "READY"
                          /\ m.workflows[m.tasks[t].wf].state \in Open
                          /\ LabelsMatch(m.workers[w].labels, m.tasks[t].labels)}

(* mutant: the id counter does not move on. *)
FreshToken_Recycled(m) == <<1, 0>>

(* next_id("lease"), a digest of the counter and the time. *)
FreshToken(m) == <<m.counter + 1, m.now>>

(* The lease of a task's next attempt, and the task under it. *)
NewLease(m, w, t) ==
  [token |-> FreshToken(m), wf |-> m.tasks[t].wf, task |-> t, worker |-> w,
   attempt |-> m.tasks[t].attempt + 1, acquired |-> m.now,
   expires |-> m.now + LeaseDuration]

LeasedUnder(r, l) ==
  [Moved(r, "LEASED") EXCEPT !.attempt = l.attempt, !.token = l.token,
                             !.owner = l.worker, !.until = l.expires, !.retryAt = Nil]

Grant(m, w, t) ==
  LET l == NewLease(m, w, t) IN
  [m EXCEPT !.counter = @ + 1,
            !.tasks[t] = LeasedUnder(@, l),
            !.leases = @ \cup {l},
            !.workers[w].active = @ \cup {l.token}]

Full(worker) == Cardinality(worker.active) >= worker.capacity

(* The first task that fits, if any. *)
Serve(m, w) ==
  LET fit == Candidates(m, w) IN
  IF fit = {} THEN m
  ELSE Grant(m, w, CHOOSE t \in fit : \A u \in fit : Precedes(m, t, u))

(* lease_next after its sweep. *)
Ask(m, w) ==
  IF w \notin DOMAIN m.workers THEN Raises(m, "unknown_worker")
  ELSE IF m.workers[w].dropped THEN Raises(m, "worker_dropped")
  ELSE IF m.now - m.workers[w].heartbeat > WorkerTTL
  THEN Raises(m, "worker_expired")
  ELSE IF Full(m.workers[w]) THEN Done(m)
  ELSE Done(Serve(RecomputeAll(m), w))

LeaseNext(m, w) == Ask(Sweep(m), w)

-----------------------------------------------------------------------------
(* The methods of a lease. *)

Started(m, r) == [Moved(r, "RUNNING") EXCEPT !.started = m.now]

Start(m, token) ==
  IF ~ Owned(m, token) THEN NotOwned(m, token)
  ELSE LET t == LeaseOf(m, token).task IN
       CASE m.tasks[t].state = "LEASED"  -> Done([m EXCEPT !.tasks[t] = Started(m, @)])
         [] m.tasks[t].state = "RUNNING" -> Done(m)
         [] OTHER -> Raises(m, "invalid_start_state")

Renew(m, token) ==
  IF ~ Owned(m, token) THEN NotOwned(m, token)
  ELSE LET l     == LeaseOf(m, token)
           until == m.now + LeaseDuration IN
       Done([m EXCEPT !.leases = (@ \ {l}) \cup {[l EXCEPT !.expires = until]},
                      !.tasks[l.task].until = until])

(* mutant: the limit is compared with what is there, not with what will be. *)
AppendLog_LateLimit(m, token, size) ==
  IF ~ Usable(m, token) THEN Unusable(m, token)
  ELSE LET t == LeaseOf(m, token).task IN
       IF m.tasks[t].output > OutputLimit THEN Raises(m, "task_output_limit")
       ELSE Done([m EXCEPT !.tasks[t].output = @ + size])

AppendLog(m, token, size) ==
  IF ~ Usable(m, token) THEN Unusable(m, token)
  ELSE LET t == LeaseOf(m, token).task IN
       IF size > ChunkLimit THEN Raises(m, "log_chunk_too_large")
       ELSE IF m.tasks[t].output + size > OutputLimit
       THEN Raises(m, "task_output_limit")
       ELSE Done([m EXCEPT !.tasks[t].output = @ + size])

(* What becomes of a finished attempt. *)
Finished(m, r, succeeded) ==
  CASE succeeded -> Moved(r, "SUCCEEDED")
    [] ~ succeeded /\ r.attempt < r.retry.attempts ->
         [Moved(r, "RETRY_WAIT") EXCEPT !.retryAt = m.now + Delay(r.retry, r.attempt)]
    [] OTHER -> Moved(r, "FAILED")

(* A task without its lease, its attempt over. *)
Closed(m, l, succeeded) ==
  Recompute([m EXCEPT !.tasks[l.task] = Finished(m, @, succeeded)], l.wf)

(* complete; succeeded: exit code 0 and no error.  A lease that was never
   started is started first. *)
Complete(m, token, succeeded) ==
  IF ~ Owned(m, token) THEN NotOwned(m, token)
  ELSE LET l == LeaseOf(m, token)
           r == m.tasks[l.task] IN
       IF r.state \notin Held THEN Raises(m, "invalid_complete_state")
       ELSE LET begun == IF r.state = "LEASED" THEN Started(m, r) ELSE r IN
            Done(Closed(CloseLease([m EXCEPT !.tasks[l.task] =
                                      [begun EXCEPT !.finished = m.now]], l),
                        l, succeeded))

(* stale_complete, stale_renew and duplicate_complete raise whatever the
   token is and change nothing. *)
Refused(m, token, live, dead) ==
  Raises(m, IF token \in Tokens(m) THEN live
            ELSE IF token \in m.closed THEN dead ELSE "unknown_lease")

StaleComplete(m, token)     == Refused(m, token, "not_stale", "stale_lease")
StaleRenew(m, token)        == Refused(m, token, "not_stale", "stale_lease")
DuplicateComplete(m, token) == Refused(m, token, "not_completed",
                                       "duplicate_completion")

(* cancel_workflow *)
WithoutLease(m, t) ==
  IF m.tasks[t].token \in Tokens(m) THEN CloseLease(m, LeaseOf(m, m.tasks[t].token))
  ELSE m

CancelTask(m, t) ==
  IF m.tasks[t].state \in Final THEN m
  ELSE [WithoutLease(m, t) EXCEPT !.tasks[t] =
          Moved([Unheld(@) EXCEPT !.retryAt = Nil, !.finished = m.now], "CANCELLED")]

CancelWorkflow(m, f) ==
  IF f \notin DOMAIN m.workflows THEN Raises(m, "unknown_workflow")
  ELSE IF m.workflows[f].state \in Final THEN Done(m)
  ELSE Done(FoldLeft(CancelTask,
                     [m EXCEPT !.workflows[f].state = "CANCELLED",
                               !.workflows[f].finished = m.now],
                     m.workflows[f].order))
=============================================================================
