-------------------------- MODULE ScenarioGenerator --------------------------
(***************************************************************************)
(* What the chaos lab's generator (tools/chaos_lab/generator.py) can       *)
(* produce.  Its random numbers are choices: the workflows, the worker     *)
(* specs and the actions it may pick, whatever the weights.                *)
(***************************************************************************)
EXTENDS ChaosRunner

CONSTANTS
  MinTasks, MaxTasks,   \* min_tasks and max_tasks
  MaxDependencies,      \* max_dependencies
  MaxWorkers,           \* max_workers
  MaxCapacity,          \* max_capacity
  LabelSets,            \* what _task_labels can return: sets of <<key, value>>
  Policies,             \* what _retry_policy can return
  TimeSteps,            \* what an ADVANCE_TIME may be drawn from
  TextSizes             \* the lengths of the log texts

ASSUME ConfigAssumption ==
  /\ MinTasks \in Nat \ {0} /\ MaxTasks \in Nat /\ MinTasks <= MaxTasks
  /\ MaxDependencies \in Nat
  /\ MaxTasks > 1 => MaxDependencies > 0   \* workflow draws from 1 to that many
  /\ MaxWorkers \in Nat \ {0} /\ MaxCapacity \in Nat \ {0}
  /\ {} \in LabelSets
  /\ Policies \subseteq [attempts : Int, base : Int, max : Int]
  /\ TimeSteps \subseteq Nat \ {0}
  /\ TextSizes \subseteq 1..ChunkLimit   \* _log_text writes one short line

TaskId == 0..(MaxTasks - 1)

Sorted(S) == SetToSortSeq(S, LAMBDA x, y : x < y)

(* The i-th task depends on tasks before it. *)
TaskSpecs(i) ==
  [id     : {i - 1},
   needs  : {Sorted(D) : D \in {E \in SUBSET (0..(i - 2)) :
                                  Cardinality(E) <= MaxDependencies}},
   labels : LabelSets,
   retry  : Policies]

(* workflow: if every draw left the tasks unconnected, the last one is made
   to depend on the first. *)
GeneratedWorkflows ==
  LET AllSpecs == UNION {TaskSpecs(i) : i \in 1..MaxTasks}
      drawn(n) == {ts \in [1..n -> AllSpecs] : \A i \in 1..n : ts[i] \in TaskSpecs(i)}
      linked(ts) == IF Len(ts) > 1 /\ \A i \in DOMAIN ts : ts[i].needs = <<>>
                    THEN [ts EXCEPT ![Len(ts)].needs = <<ts[1].id>>] ELSE ts
  IN UNION {{linked(ts) : ts \in drawn(n)} : n \in MinTasks..MaxTasks}

(* Labels with at most one value for a key, all of them required somewhere. *)
WorkerLabels(tasks) ==
  {L \in SUBSET UNION {tasks[i].labels : i \in DOMAIN tasks} :
     \A x, y \in L : x[1] = y[1] => x = y}

(* mutant: nothing makes up for a worker that was not drawn. *)
Placed_AsDrawn(specs, task) == specs

(* workers' second loop: a task no worker so far can take gets one of its
   own. *)
Placed(specs, task) ==
  IF \E i \in DOMAIN specs : LabelsMatch(specs[i].labels, task.labels)
  THEN specs
  ELSE Append(specs, [id |-> Len(specs), capacity |-> 1, labels |-> task.labels])

GeneratedWorkers(tasks) ==
  LET WorkerSpecs(i) == [id : {i - 1}, capacity : 1..MaxCapacity,
                         labels : WorkerLabels(tasks)]
      AllSpecs == UNION {WorkerSpecs(i) : i \in 1..MaxWorkers}
      drawn(n) == {ws \in [1..n -> AllSpecs] : \A i \in 1..n : ws[i] \in WorkerSpecs(i)}
  IN {FoldLeft(Placed, ws, tasks) : ws \in UNION {drawn(n) : n \in 1..MaxWorkers}}

-----------------------------------------------------------------------------
(* next_action *)

NoAction == [kind |-> "none", workflow |-> Nil, task |-> Nil, worker |-> Nil,
             token |-> NoToken, amount |-> 0, text |-> NoText]

OfWorker(kind, w) == [NoAction EXCEPT !.kind = kind, !.worker = w]
OfToken(kind, k)  == [NoAction EXCEPT !.kind = kind, !.token = k]
OfLog(k, size)    == [OfToken("log", k) EXCEPT !.text = size]
OfTime(k)         == [NoAction EXCEPT !.kind = "advance_time", !.amount = k]
OfWorkflow(f)     == [NoAction EXCEPT !.kind = "cancel_workflow", !.workflow = f]
OfNothing         == [NoAction EXCEPT !.kind = "sweep"]

LeaseChoices(m, l) ==
  IF m.tasks[l.task].state \notin Held THEN {}
  ELSE (IF m.tasks[l.task].state = "LEASED" THEN {OfToken("start", l.token)} ELSE {})
       \cup {OfToken(kind, l.token) :
               kind \in {"complete_success", "complete_failure", "renew"}}
       \cup {OfLog(l.token, size) : size \in TextSizes}

(* REGISTER_WORKER is never chosen, and time can always advance. *)
NextActions(m) ==
  {OfWorker(kind, w) : kind \in {"lease", "heartbeat", "drop_worker"},
                       w \in {v \in DOMAIN m.workers : ~ m.workers[v].dropped}}
  \cup (UNION {LeaseChoices(m, l) : l \in m.leases})
  \cup {OfToken(kind, k) : kind \in {"stale_complete", "stale_renew",
                                     "duplicate_complete"}, k \in m.closed}
  \cup {OfWorkflow(f) : f \in {g \in DOMAIN m.workflows : m.workflows[g].state \notin Final}}
  \cup {OfTime(k) : k \in TimeSteps}
  \cup {OfNothing}
=============================================================================
