----------------------------- MODULE BuiltGraphs -----------------------------
(***************************************************************************)
(* Every graph the builder can come to is given to the algorithms of the   *)
(* DSL, of the chaos lab and of the coordinator, which compute the same    *)
(* things independently.                                                   *)
(***************************************************************************)
EXTENDS WorkflowBuilder, DslGraph

(* Nodes that differ from the builder's graph in one more task, which the DSL
   can write and the builder cannot: a name twice, a dependency twice, on
   itself or on no task. *)
Another ==
  [id : Ids(tasks) \cup {Unknown},
   needs : {<<d>> : d \in Ids(tasks) \cup {Unknown}} \cup {<<d, d>> : d \in Ids(tasks)}]

Perturbed == {tasks} \cup {Append(tasks, task) : task \in Another}

(* c is a way round: it closes, and each name depends on the one after it. *)
IsCycle(all, c) ==
  /\ Len(c) > 1 /\ c[1] = c[Len(c)] /\ NoRepeats(Tail(c))
  /\ \A i \in 1..(Len(c) - 1) : c[i + 1] \in ToSet(LastById(all, c[i]).needs)

CodeOf == [E002 |-> "no task", E100 |-> "duplicate id", E102 |-> "self",
           E103 |-> "repeats", E104 |-> "unknown"]

(* The DSL's validate, by depth-first search, and the model's validate_dag and
   the coordinator's ValidateSpec, by counting, refuse the same graphs for the
   same reasons; the cycle that is reported is one; and what compiles is
   ordered. *)
ValidatorsAgree ==
  \A all \in Perturbed :
    LET errors  == Validate(all)
        refused == Refusals(all)
        out     == Compile(all) IN
    /\ \A code \in DOMAIN CodeOf : code \in errors <=> CodeOf[code] \in refused
    /\ "duplicate id" \notin refused =>
         /\ "E200" \in errors <=> "cycle" \in refused
         /\ "E200" \in errors <=> Cyclic(all)
    /\ "E200" \in errors => IsCycle(all, FindCycle(all))
    /\ out.ok <=> refused = {}
    /\ out.ok => Ordered([i \in DOMAIN out.tasks |-> out.tasks[i].id], all)

-----------------------------------------------------------------------------
CONSTANT Weightings   \* weights to find the critical path by

ASSUME WeightsAssumption ==
  \A weight \in Weightings : \A t \in ToSet(TaskNames) : weight[t] \in Int

(* Every chain of dependencies, downwards. *)
Longer(all, S) ==
  S \cup UNION {{Append(c, t) : t \in {u \in Ids(all) : c[Len(c)] \in Needs(all, u)}}
                : c \in S}

ChainRun(all) ==
  LET grown[n \in 0..Len(all)] ==
        IF n = 0 THEN {<<t>> : t \in Ids(all)} ELSE Longer(all, grown[n - 1])
  IN grown

Chains(all) == ChainRun(all)[Len(all)]

SumRun(c, weight) ==
  LET sum[n \in 0..Len(c)] ==
        IF n = 0 THEN 0 ELSE sum[n - 1] + Positive(weight[c[n]])
  IN sum

WeightOf(c, weight) == SumRun(c, weight)[Len(c)]

(* critical_path raises for a cycle and for nothing else that the builder makes.
   Otherwise it returns a chain of dependencies, and no chain weighs more, also
   where weights are zero or negative, or several paths weigh the same. *)
CriticalPathIsLongest ==
  \A weight \in Weightings :
    LET found  == CriticalPath(tasks, weight)
        chains == Chains(tasks) IN
    /\ found.error = IF Cyclic(tasks) THEN "DSLError" ELSE "none"
    /\ ~ Cyclic(tasks) /\ tasks # <<>> =>
         /\ found.path \in chains
         /\ WeightOf(found.path, weight) = found.weight
         /\ \A c \in chains : WeightOf(c, weight) <= found.weight

Independent(all, S) == \A t, u \in S : t \notin Ancestors(all, u)

(* The tasks of a wave can all run at once, so estimate_parallelism never says
   more than what is possible, nor less than the roots alone.  It is no upper
   bound, which the name that statistics gives it claims: a task may become
   ready while a longer branch is still in an earlier wave. *)
WidthIsReached ==
  ~ Cyclic(tasks) =>
    LET width == Statistics(tasks).width IN
    /\ \E S \in SUBSET Ids(tasks) : Cardinality(S) = width /\ Independent(tasks, S)
    /\ Cardinality(Roots(tasks)) <= width
=============================================================================
