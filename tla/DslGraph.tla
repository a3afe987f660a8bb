------------------------------- MODULE DslGraph -------------------------------
(***************************************************************************)
(* What the workflow DSL (sdk/python/src/helixgrid/dsl.py) computes of a   *)
(* WorkflowNode's graph: diagnostics, a cycle, the critical path, how much *)
(* can run at a time, and the compiled definition.  A node's tasks are a   *)
(* sequence as in Dag; what validate says of names, commands and timeouts, *)
(* and its warnings, are left out.                                         *)
(***************************************************************************)
EXTENDS Dag, Integers

(* by_id of a dictionary comprehension: the last task of a name wins. *)
LastById(tasks, t) ==
  tasks[Max({i \in DOMAIN tasks : tasks[i].id = t})]

(* reverse_edges: who depends on t, once for each time t is named. *)
Children(tasks, t) ==
  FlattenSeq([i \in DOMAIN tasks |->
    LET named == SelectSeq(tasks[i].needs, LAMBDA d : d = t) IN
    [k \in DOMAIN named |-> tasks[i].id]])

Roots(tasks) == {tasks[i].id : i \in {k \in DOMAIN tasks : tasks[k].needs = <<>>}}
Sinks(tasks) == {t \in Ids(tasks) : Children(tasks, t) = <<>>}

-----------------------------------------------------------------------------
(* find_cycle: depth first along depends_on.  A search has the names that are
   done (state 2), the stack of those being visited (state 1), and the cycle. *)
Searches(tasks) ==
  [done : SUBSET Ids(tasks), stack : Seq(Ids(tasks)), cycle : Seq(Ids(tasks))]

(* mutant: what was visited stays on the stack. *)
Left_Stays(s, t) == s

Left(s, t) == [s EXCEPT !.stack = Front(@), !.done = @ \cup {t}]

(* t is on the stack: the way from there and back. *)
Closed(s, t) ==
  LET start == SelectInSeq(s.stack, LAMBDA x : x = t) IN
  [s EXCEPT !.cycle = Append(SubSeq(s.stack, start, Len(s.stack)), t)]

(* The loop over the dependencies, as the search after n turns for every n. *)
DescendRun(tasks, visit, needs, s) ==
  LET run[n \in 0..Len(needs)] ==
        IF n = 0 THEN s
        ELSE IF needs[n] \in Ids(tasks) THEN visit[needs[n]][run[n - 1]]
        ELSE run[n - 1]
  IN run

VisitBy(tasks, visit, t, s) ==
  IF s.cycle # <<>> \/ t \in s.done THEN s
  ELSE IF t \in ToSet(s.stack) THEN Closed(s, t)
  ELSE LET needs == LastById(tasks, t).needs
           above == DescendRun(tasks, visit, needs, [s EXCEPT !.stack = Append(@, t)])
           seen  == above[Len(needs)] IN
       IF seen.cycle # <<>> THEN seen ELSE Left(seen, t)

(* visit, by the number of calls that may be open: the names on the stack
   differ, so there are never more than names and one. *)
VisitRun(tasks) ==
  LET visit[n \in 0..(Cardinality(Ids(tasks)) + 1)] ==
        [t \in Ids(tasks) |-> [s \in Searches(tasks) |->
          IF n = 0 THEN s ELSE VisitBy(tasks, visit[n - 1], t, s)]]
  IN visit

DfsVisit(tasks) == VisitRun(tasks)[Cardinality(Ids(tasks)) + 1]

(* The loop over the sorted names; one that is done is passed over. *)
SearchStep(tasks, s) ==
  LET left == Ids(tasks) \ s.done IN
  IF s.cycle # <<>> \/ left = {} THEN s ELSE DfsVisit(tasks)[Min(left)][s]

SearchRun(tasks) ==
  LET run[n \in 0..Cardinality(Ids(tasks))] ==
        IF n = 0 THEN [done |-> {}, stack |-> <<>>, cycle |-> <<>>]
        ELSE SearchStep(tasks, run[n - 1])
  IN run

FindCycle(tasks) == SearchRun(tasks)[Cardinality(Ids(tasks))].cycle

-----------------------------------------------------------------------------
(* The errors of validate. *)
Validate(tasks) ==
  LET names == Ids(tasks)
      each  == {tasks[i] : i \in DOMAIN tasks} IN
  {code \in {"E002", "E100", "E102", "E103", "E104", "E200"} :
     CASE code = "E002" -> tasks = <<>>
       [] code = "E100" -> \E i, k \in DOMAIN tasks : i < k /\ tasks[i].id = tasks[k].id
       [] code = "E102" -> \E t \in each : t.id \in ToSet(t.needs)
       [] code = "E103" -> \E t \in each : ~ NoRepeats(t.needs)
       [] code = "E104" -> \E t \in each : ~ ToSet(t.needs) \subseteq names
       [] code = "E200" -> FindCycle(tasks) # <<>>}

(* topological_order raises unless it has placed every task. *)
TopologicalOrder(tasks) ==
  LET order == KahnOrder(tasks) IN
  IF Len(order) = Len(tasks) THEN [ok |-> TRUE, order |-> order]
  ELSE [ok |-> FALSE, order |-> <<>>]

(* compile_node: the tasks in topological order, or a DSLError. *)
Compile(tasks) ==
  IF Validate(tasks) # {} THEN [ok |-> FALSE, tasks |-> <<>>]
  ELSE LET order == TopologicalOrder(tasks).order IN
       [ok |-> TRUE, tasks |-> [i \in DOMAIN order |-> ById(tasks, order[i])]]

-----------------------------------------------------------------------------
(* critical_path.  A task's best parent is the dependency of the highest
   score, of several the smallest.  A dependency need not be a task. *)

Named(tasks) == Ids(tasks) \cup UNION {Needs(tasks, t) : t \in Ids(tasks)}

Positive(w) == Max({w, 0})

(* mutant: the best dependency is the last one looked at. *)
BestParent_Last(deps, score) == Max(deps)

BestParent(deps, score) ==
  Min({d \in deps : \A e \in deps : score[e] <= score[d]})

Scored(tasks, weight, score, t) ==
  LET deps == Needs(tasks, t) IN
  [score EXCEPT ![t] = Positive(weight[t])
                         + IF deps = {} THEN 0 ELSE score[BestParent(deps, score)]]

(* The scores after n turns of the loop over the order, for every n.  A task
   that had no turn has score 0, as score.get has it, and so has a dependency
   that is no task. *)
ScoreRun(tasks, weight) ==
  LET order == TopologicalOrder(tasks).order
      run[n \in 0..Len(order)] ==
        IF n = 0 THEN [t \in Named(tasks) |-> 0]
        ELSE Scored(tasks, weight, run[n - 1], order[n])
  IN run

Scores(tasks, weight) ==
  ScoreRun(tasks, weight)[Len(TopologicalOrder(tasks).order)]

(* parent: the path is followed upwards, and reversed in the end.  It ends at
   what is no task, where parent has no entry. *)
Extended(tasks, score, path) ==
  LET deps == IF Head(path) \in Ids(tasks) THEN Needs(tasks, Head(path)) ELSE {} IN
  IF deps = {} THEN path ELSE <<BestParent(deps, score)>> \o path

PathRun(tasks, score, end) ==
  LET back[n \in 0..Len(tasks)] ==
        IF n = 0 THEN <<end>> ELSE Extended(tasks, score, back[n - 1])
  IN back

Answer(error, path, weight) == [error |-> error, path |-> path, weight |-> weight]

(* topological_order raises; there is nothing to weigh; or the path is found,
   unless it leaves the graph: KeyError. *)
CriticalPath(tasks, weight) ==
  IF ~ TopologicalOrder(tasks).ok THEN Answer("DSLError", <<>>, 0)
  ELSE IF tasks = <<>> THEN Answer("none", <<>>, 0) ELSE
  LET score == Scores(tasks, weight)
      end   == Min({t \in Ids(tasks) : \A u \in Ids(tasks) : score[u] <= score[t]})
      path  == PathRun(tasks, score, end)[Len(tasks)] IN
  IF Head(path) \in Ids(tasks) THEN Answer("none", path, score[end])
  ELSE Answer("KeyError", <<>>, 0)

-----------------------------------------------------------------------------
(* estimate_parallelism: the largest wave, a wave being what the one before it
   has made ready. *)

(* mutant: what was ready and has not run is counted again. *)
NextWave_Cumulative(tasks, placed, wave) == Unblocked(tasks, placed) \cup wave

NextWave(tasks, placed, wave) == Unblocked(tasks, placed \cup wave)

Waved(tasks, s) ==
  LET next == NextWave(tasks, s.placed, s.wave) IN
  [placed |-> s.placed \cup s.wave, wave |-> next,
   most   |-> Max({s.most, Cardinality(next)})]

WaveRun(tasks) ==
  LET first == Unblocked(tasks, {})
      waves[n \in 0..Len(tasks)] ==
        IF n = 0 THEN [placed |-> {}, wave |-> first, most |-> Cardinality(first)]
        ELSE Waved(tasks, waves[n - 1])
  IN waves

EstimateParallelism(tasks) == WaveRun(tasks)[Len(tasks)].most

(* statistics: what it returns of a graph of which neither topological_order
   nor critical_path raises. *)
Statistics(tasks) ==
  LET each == {tasks[i] : i \in DOMAIN tasks} IN
  [tasks |-> Len(tasks),
   edges |-> EdgeCount(tasks),
   roots |-> Roots(tasks), sinks |-> Sinks(tasks),
   maxIndegree  |-> Max({Len(t.needs) : t \in each} \cup {0}),
   maxOutdegree |-> Max({Len(Children(tasks, t.id)) : t \in each} \cup {0}),
   order |-> TopologicalOrder(tasks).order,
   path  |-> CriticalPath(tasks, [t \in Ids(tasks) |-> 1]).path,
   width |-> EstimateParallelism(tasks)]
=============================================================================
