--------------------------------- MODULE Dag ---------------------------------
(***************************************************************************)
(* The dependency graph of a workflow and its topological order, as four   *)
(* places of the repository compute it: Model.validate_dag of the chaos    *)
(* lab, WorkflowBuilder._topological_order of the Python client,           *)
(* topological_order of the DSL, and ValidateSpec of the coordinator.      *)
(*                                                                         *)
(* A workflow is a sequence of task records with the fields id, a number   *)
(* that stands for the name's place in sorted order, and needs, the        *)
(* sequence depends_on, in which a name may repeat, be the task's own, or  *)
(* name no task.                                                           *)
(***************************************************************************)
EXTENDS Naturals, SequencesExt

Ids(tasks) == {tasks[i].id : i \in DOMAIN tasks}

(* by_id: the task of a name. *)
ById(tasks, t) == tasks[CHOOSE i \in DOMAIN tasks : tasks[i].id = t]

Needs(tasks, t) == ToSet(ById(tasks, t).needs)

(* How many dependencies there are in all. *)
EdgeCount(tasks) == FoldLeft(LAMBDA n, t : n + Len(t.needs), 0, tasks)

(* mutant: indegrees are counted by the first dependency only. *)
Unblocked_FirstOnly(tasks, placed) ==
  {t \in Ids(tasks) \ placed :
     Needs(tasks, t) = {} \/ Head(ById(tasks, t).needs) \in placed}

(* What is ready once the tasks in placed are: their indegree, which counts
   the dependencies that are tasks, has come down to 0. *)
Unblocked(tasks, placed) ==
  {t \in Ids(tasks) \ placed : Needs(tasks, t) \cap Ids(tasks) \subseteq placed}

(* One turn of Kahn's loop: the queue is kept sorted, so the smallest ready
   name comes next. *)
KahnStep(tasks, order) ==
  LET ready == Unblocked(tasks, ToSet(order)) IN
  IF ready = {} THEN order ELSE Append(order, Min(ready))

(* The loop, as the order after n turns for every n. *)
KahnRun(tasks) ==
  LET run[n \in 0..Cardinality(Ids(tasks))] ==
        IF n = 0 THEN <<>> ELSE KahnStep(tasks, run[n - 1])
  IN run

(* What lies on a cycle, or below one, is never ready. *)
KahnOrder(tasks) == KahnRun(tasks)[Cardinality(Ids(tasks))]

NoRepeats(s) == Cardinality(ToSet(s)) = Len(s)

(* The reasons for which validate_dag raises ModelError. *)
Refusals(tasks) ==
  LET names == Ids(tasks)
      each  == {tasks[i] : i \in DOMAIN tasks} IN
  {reason \in {"no task", "duplicate id", "self", "repeats", "unknown", "cycle"} :
     CASE reason = "no task"      -> tasks = <<>>
       [] reason = "duplicate id" -> Cardinality(names) # Len(tasks)
       [] reason = "self"         -> \E t \in each : t.id \in ToSet(t.needs)
       [] reason = "repeats"      -> \E t \in each : ~ NoRepeats(t.needs)
       [] reason = "unknown"      -> \E t \in each : ~ ToSet(t.needs) \subseteq names
       [] reason = "cycle"        -> Len(KahnOrder(tasks)) # Cardinality(names)}

ValidDag(tasks) == Refusals(tasks) = {}

(* The dependencies of the i-th task that validate_dag's loop would stop at. *)
Faulty(tasks, i) ==
  LET t == tasks[i] IN
  {k \in DOMAIN t.needs : \/ t.needs[k] = t.id
                          \/ t.needs[k] \in ToSet(SubSeq(t.needs, 1, k - 1))
                          \/ t.needs[k] \notin Ids(tasks)}

(* The reason it raises for, which is the first it comes to: it looks at the
   names, at the dependencies one by one, and at the order. *)
FirstRefusal(tasks) ==
  LET faulty == {i \in DOMAIN tasks : Faulty(tasks, i) # {}}
      first  == tasks[Min(faulty)]
      need   == first.needs[Min(Faulty(tasks, Min(faulty)))] IN
  IF tasks = <<>> THEN "no task"
  ELSE IF Cardinality(Ids(tasks)) # Len(tasks) THEN "duplicate id"
  ELSE IF faulty = {} THEN "cycle"
  ELSE IF need = first.id THEN "self"
  ELSE IF need \in Ids(tasks) THEN "repeats" ELSE "unknown"

-----------------------------------------------------------------------------
(* The reference definition of what a task waits for, directly or not, by
   closure. *)
Above(tasks, S) == UNION {Needs(tasks, t) : t \in S \cap Ids(tasks)}

Widened(tasks, S) == S \cup Above(tasks, S)

AncestorRun(tasks, t) ==
  LET up[n \in 0..Len(tasks)] ==
        IF n = 0 THEN Above(tasks, {t}) ELSE Widened(tasks, up[n - 1])
  IN up

Ancestors(tasks, t) == AncestorRun(tasks, t)[Len(tasks)]
=============================================================================
