------------------------------- MODULE ChaosLab -------------------------------
(***************************************************************************)
(* The reference model at work, in the two ways the chaos lab drives it:   *)
(* the generator draws one action after the other from what the model      *)
(* offers (ScenarioGenerator.scenario), and a script, written by hand or   *)
(* what the shrinker left of one, is applied whatever it asks for          *)
(* (ScenarioRunner.replay).  After each action the model's invariants are  *)
(* checked, and a check that fails ends either loop.                       *)
(***************************************************************************)
EXTENDS ScenarioGenerator

CONSTANTS
  MaxTime,     \* bound: the model's clock
  MaxLeases,   \* bound: leases granted in one scenario
  MaxWriters   \* bound: tasks that have output at a time

ASSUME BoundsAssumption ==
  /\ MaxTime \in Nat /\ MaxLeases \in Nat /\ MaxWriters \in Nat

VARIABLES
  m,        \* the model
  driver,   \* "generator" or "script"
  status    \* "running", "stopped" by a failed check, or "over"

vars == <<m, driver, status>>

Init ==
  \E tasks \in GeneratedWorkflows :
    \E workers \in GeneratedWorkers(tasks) :
      /\ LET boot == Bootstrap([tasks |-> tasks, workers |-> workers])
         IN boot.error = "none" /\ m = boot.m
      /\ driver \in {"generator", "script"}
      /\ status = "running"

WithinBounds ==
  /\ m'.now <= MaxTime /\ m'.counter <= MaxLeases
  /\ Cardinality({t \in DOMAIN m.tasks : m'.tasks[t].output > 0}) <= MaxWriters

(* scenario: a rejection is noted, a failed check raises out of it, and the
   loop ends when there is nothing left to do. *)
Generate ==
  /\ status = "running" /\ driver = "generator"
  /\ \E a \in NextActions(m) : m' = Apply(m, a).m
  /\ status' = CASE Violations(m') # {}                -> "stopped"
                 [] Terminal(m') /\ m'.leases = {} -> "over"
                 [] OTHER                           -> "running"
  /\ WithinBounds
  /\ UNCHANGED driver

(* What the generator never asks for: a token nobody has, one that is closed,
   a worker that is dropped, a second registration. *)
OddActions ==
  {OfToken(kind, k) :
     kind \in {"start", "renew", "complete_success", "complete_failure",
               "stale_renew", "duplicate_complete"},
     k \in Tokens(m) \cup m.closed \cup {NoToken}}
  \cup {OfWorker(kind, w) :
          kind \in {"register_worker", "heartbeat", "lease", "drop_worker"},
          w \in {v \in DOMAIN m.workers : m.workers[v].dropped}}
  \cup {OfWorkflow(FirstWorkflow)}

(* replay, its rejections not strict. *)
Follow ==
  /\ status = "running" /\ driver = "script"
  /\ \E a \in NextActions(m) \cup OddActions : m' = Apply(m, a).m
  /\ status' = IF Violations(m') # {} THEN "stopped" ELSE "running"
  /\ WithinBounds
  /\ UNCHANGED driver

Next == Generate \/ Follow

Spec == Init /\ [][Next]_vars

-----------------------------------------------------------------------------
(* Every field of the model is in its range; in particular no task is ILLEGAL,
   that is, no method is cut short by transition_task raising in the middle of
   it (model.py, transition_task). *)
TypeOK ==
  /\ driver \in {"generator", "script"}
  /\ status \in {"running", "stopped", "over"}
  /\ m.now \in Nat /\ m.counter \in Nat
  /\ \A f \in DOMAIN m.workflows : m.workflows[f].state \in Final \cup Open
  /\ \A r \in AllTasks(m) :
       /\ r.state \in DOMAIN AllowedTransitions
       /\ r.output \in 0..OutputLimit
       /\ {r.until, r.retryAt, r.started, r.finished} \subseteq Nat \cup {Nil}
  /\ \A l \in m.leases : l.expires \in Nat /\ l.worker \in DOMAIN m.workers

(* A workflow that is over holds no lease and no unfinished task.
   check_terminal_workflows asks this of CANCELLED and SUCCEEDED workflows
   only; it has to hold of FAILED ones too, where a sibling of the failed task
   may have been running. *)
OverIsQuiet ==
  \A f \in DOMAIN m.workflows :
    m.workflows[f].state \in Final =>
      StatesOf(m, f) \subseteq Final /\ \A l \in m.leases : l.wf # f

(* What next_action chooses is refused for no other reason than that the
   worker has been silent for too long or that a log is full: the generator reads
   the model and never asks for a step out of order. *)
GeneratorAsksInOrder ==
  \A a \in NextActions(m) :
    Apply(m, a).error \in
      {"none", "worker_expired", "task_output_limit"}
      \cup (IF a.token \in m.closed
            THEN {"stale_lease", "duplicate_completion"} ELSE {})

(* No scenario is stuck because no worker can take one of its tasks: workers
   adds what the draw left out.  A script may register a worker again, with
   other labels. *)
EveryTaskHasAPlace ==
  driver = "generator" =>
    \A r \in AllTasks(m) :
      \E w \in DOMAIN m.workers : LabelsMatch(m.workers[w].labels, r.labels)

(* A worker that was dropped registers again while it holds leases. *)
ForgetsLeases ==
  \E l \in m.leases :
    m.workers[l.worker].dropped /\ ~ m'.workers[l.worker].dropped

(* Of the model's own checks two can fail, and only so: ATTEMPT_BUDGET when a
   task whose lease expired is leased again, LEASE_WORKER_INDEX when
   register_worker replaces a dropped worker whose leases have not expired. *)
OnlyTwoChecksCanFail ==
  [][Violations(m') \subseteq
       (IF \E t \in DOMAIN m.tasks : m'.tasks[t].attempt > m.tasks[t].attempt
        THEN {"ATTEMPT_BUDGET"} ELSE {})
       \cup (IF ForgetsLeases THEN {"LEASE_WORKER_INDEX"} ELSE {})]_vars

(* A token that was closed is refused for ever: it is never granted again and
   never forgotten, so a late answer is always told apart from an unknown
   one. *)
ClosedStaysClosed ==
  [][m.closed \subseteq m'.closed /\ Tokens(m') \cap m.closed = {}
     /\ Tokens(m) \subseteq Tokens(m') \cup m'.closed]_vars

-----------------------------------------------------------------------------
PhaseOf(t) ==
  IF t \notin DOMAIN m.tasks THEN "idle"
  ELSE CASE m.tasks[t].state \in Held                    -> "held"
         [] m.tasks[t].state \in {"SUCCEEDED", "FAILED"} -> "decided"
         [] m.tasks[t].state = "CANCELLED"               -> "dropped"
         [] OTHER                                        -> "idle"

Promise == INSTANCE LeaseService WITH
  Task     <- TaskId,
  Token    <- (1..MaxLeases) \X (0..MaxTime),
  NoHolder <- NoToken,
  phase    <- [t \in TaskId |-> PhaseOf(t)],
  holder   <- [t \in TaskId |-> IF t \in DOMAIN m.tasks THEN m.tasks[t].token
                                 ELSE NoToken],
  spent    <- Tokens(m) \cup m.closed

(* The reference model keeps the promise of leases: a result only from the
   holder, a new holder only under a token nobody ever had. *)
KeepsThePromise == Promise!Spec
=============================================================================
