------------------------------- MODULE Shrinker -------------------------------
(***************************************************************************)
(* The chaos lab's delta debugger (tools/chaos_lab/shrinker.py).  It makes *)
(* a failing scenario smaller in rounds of four passes: remove chunks of   *)
(* actions (ddmin), simplify actions, remove workers, remove tasks.  The   *)
(* runner is its oracle: one step replays one candidate.                   *)
(*                                                                         *)
(* A token is a digest of the clock, so a script in which time is removed  *)
(* or shortened before a lease no longer knows the token granted then.     *)
(* ShrinkPass and the complexities it reports are left out.                *)
(***************************************************************************)
EXTENDS ChaosRunner

CONSTANTS
  Scenarios,     \* the scenarios that are given to it
  MaxRounds,     \* max_rounds
  Ladder         \* the amounts _action_variants tries: 1, 10, 100, 1000

ASSUME RoundAssumption == MaxRounds \in Nat \ {0}

ASSUME LadderAssumption == Ladder \in Seq(Nat \ {0})

(* What GeneratedScenario holds; a label is a key and a value. *)
Labellings == SUBSET (STRING \X STRING)

TaskSpecs ==
  [id : Nat, needs : Seq(Nat), labels : Labellings,
   retry : [attempts : Int, base : Int, max : Int]]

WorkerSpecs == [id : Nat, capacity : Nat, labels : Labellings]

Actions ==
  [kind : STRING, workflow : Nat, task : Int, worker : Int,
   token : Seq(Nat), amount : Int, text : Nat \cup {TextX}]

AllScenarios ==
  [tasks : Seq(TaskSpecs), workers : Seq(WorkerSpecs), actions : Seq(Actions)]

ASSUME ScenariosAssumption == Scenarios \subseteq AllScenarios

VARIABLES
  original,      \* the scenario given
  oracle,        \* [strict, predicate, expected]: the runner's strictness, the
                 \* predicate's kind, and the failure it looks for
  current,       \* the scenario so far
  trial,         \* the scenario the pass has come to
  pass,          \* "actions", "simplify", "workers", "tasks" or "over"
  cursor,        \* start or index: where in the pass
  granularity,
  variants,      \* what is left of _action_variants
  changed,       \* whether this round changed something
  round,
  outcome        \* "running", "shrunk", "lost": RuntimeError, or "raised": what
                 \* the predicate raises

vars == <<original, oracle, current, trial, pass, cursor, granularity,
          variants, changed, round, outcome>>

-----------------------------------------------------------------------------
(* The predicates: any failure, the same failure (same_failure_signature), and
   one that reads report.failure without asking whether there is one.  The
   texts of two refused graphs may differ in the tasks they name as well, which
   cannot matter: the shrinker makes no graph that validate_dag refuses of one
   that it accepts, and takes no task of one that it refuses unless the rest is
   accepted, when the failure is another. *)
Predicates == {"any", "same", "unguarded"}

SameFailure(f, g) == f.kind = g.kind /\ f.code = g.code

Judged(o, failure) ==
  CASE o.predicate = "any"                             -> failure # NoFailure
    [] o.predicate = "same"                            -> SameFailure(failure, o.expected)
    [] o.predicate = "unguarded" /\ failure # NoFailure -> SameFailure(failure, o.expected)
    [] OTHER                                           -> FALSE

Raising(o, failure) == o.predicate = "unguarded" /\ failure = NoFailure

Satisfies(o, sc) == Judged(o, Replay(sc, o.strict).failure)

(* mutant: what cannot be replayed to the end counts as failing. *)
Fails_Lenient(o, sc) ==
  LET run == Replay(sc, o.strict) IN
  Judged(o, run.failure) \/ run.steps < Len(sc.actions)
                         \/ Raising(o, run.failure)

(* _fails: a predicate that raises counts as satisfied. *)
Accepted(o, failure) == Judged(o, failure) \/ Raising(o, failure)

Fails(o, sc) == Accepted(o, Replay(sc, o.strict).failure)

-----------------------------------------------------------------------------
(* The elements of s that are in S, in their order. *)
Kept(s, S) ==
  LET kept[n \in 0..Len(s)] ==
        IF n = 0 THEN <<>>
        ELSE IF s[n] \in S THEN Append(kept[n - 1], s[n]) ELSE kept[n - 1]
  IN kept[Len(s)]

Rungs(amount) == Kept(Ladder, {v \in ToSet(Ladder) : v < amount})

WithAmount(a, v) == [a EXCEPT !.amount = v]
WithText(a, v)   == [a EXCEPT !.text = v]

When(b, s) == IF b THEN s ELSE <<>>

(* _action_variants: always of the action as the pass found it, so a variant
   may be tried after a simpler one was accepted, and replace it.  The first
   letter of a text is taken not to be x. *)
Variants(a) ==
  LET rungs == Rungs(a.amount) IN
  When(a.amount \notin {0, 1}, <<WithAmount(a, 1)>>)
    \o When(a.text # NoText, <<WithText(a, NoText)>>)
    \o When(a.text > 1, <<WithText(a, 1)>>)
    \o When(a.kind = "advance_time" /\ a.amount > 1,
            [i \in DOMAIN rungs |-> WithAmount(a, rungs[i])])
    \o When(a.kind = "log" /\ a.text > 2, <<WithText(a, 2)>>)
    \o When(a.kind = "complete_failure", <<WithText(WithAmount(a, 1), TextX)>>)

WithoutChunk(s, start, size) ==
  SubSeq(s, 1, start) \o SubSeq(s, start + size + 1, Len(s))

(* mutant: the dependencies of target are forgotten. *)
Spliced_Forgetting(needs, target, instead) ==
  SelectSeq(needs, LAMBDA d : d # target)

(* expanded: the dependencies of target in the place of target. *)
Expanded(needs, target, instead) ==
  LET all[n \in 0..Len(needs)] ==
        IF n = 0 THEN <<>>
        ELSE all[n - 1] \o (IF needs[n] = target THEN instead ELSE <<needs[n]>>)
  IN all[Len(needs)]

(* dict.fromkeys: each name once, where it is first. *)
Unique(names) ==
  LET once[n \in 0..Len(names)] ==
        IF n = 0 THEN <<>>
        ELSE IF names[n] \in ToSet(once[n - 1]) THEN once[n - 1]
        ELSE Append(once[n - 1], names[n])
  IN once[Len(names)]

Spliced(needs, target, instead) == Unique(Expanded(needs, target, instead))

(* _without_task *)
WithoutTask(tasks, target) ==
  LET rest == Kept(tasks, {t \in ToSet(tasks) : t.id # target}) IN
  [i \in DOMAIN rest |->
     IF target \in ToSet(rest[i].needs)
     THEN [rest[i] EXCEPT !.needs = Spliced(@, target, ById(tasks, target).needs)]
     ELSE rest[i]]

RefersToWorker(sc, w) == \E i \in DOMAIN sc.actions : sc.actions[i].worker = w
RefersToTask(sc, t)   == \E i \in DOMAIN sc.actions : sc.actions[i].task = t

-----------------------------------------------------------------------------
(* shrink refuses a scenario that does not satisfy its predicate. *)
Init ==
  /\ original \in Scenarios
  /\ \E strict \in BOOLEAN, predicate \in Predicates :
       oracle = [strict |-> strict, predicate |-> predicate,
                 expected |-> Replay(original, strict).failure]
  /\ oracle.expected # NoFailure
  /\ current = original /\ trial = original
  /\ pass = "actions" /\ cursor = 0 /\ granularity = 2 /\ variants = <<>>
  /\ changed = FALSE /\ round = 1 /\ outcome = "running"

Fixed == UNCHANGED <<original, oracle>>
InPass == UNCHANGED <<original, oracle, current, pass, changed, round, outcome>>

VariantsAt(sc, i) ==
  IF i \in DOMAIN sc.actions THEN Variants(sc.actions[i]) ELSE <<>>

(* A pass is over: its scenario becomes the current one. *)
EndPass(next, start) ==
  /\ current' = trial
  /\ changed' = (changed \/ trial # current)
  /\ pass' = next /\ cursor' = start
  /\ variants' = IF next = "simplify" THEN VariantsAt(trial, start) ELSE <<>>
  /\ UNCHANGED <<original, oracle, trial, granularity, round, outcome>>

-----------------------------------------------------------------------------
(* _ddmin_actions *)

ChunkSize == Max({1, (Len(trial.actions) + granularity - 1) \div granularity})

TryChunk ==
  /\ pass = "actions"
  /\ Len(trial.actions) >= 2 /\ cursor < Len(trial.actions)
  /\ LET candidate ==
           [trial EXCEPT !.actions = WithoutChunk(@, cursor, ChunkSize)] IN
     IF Fails(oracle, candidate)
     THEN /\ trial' = candidate
          /\ granularity' = Max({2, granularity - 1})
          /\ cursor' = 0
     ELSE /\ cursor' = cursor + ChunkSize
          /\ UNCHANGED <<trial, granularity>>
  /\ UNCHANGED variants /\ InPass

(* mutant: the last granularity is tried over and over. *)
Finest_Never == granularity > Len(trial.actions)

(* mutant: ddmin stops one refinement early. *)
Finest_Early == 2 * granularity >= Len(trial.actions)

Finest == granularity >= Len(trial.actions)

RefineChunks ==
  /\ pass = "actions"
  /\ Len(trial.actions) >= 2 /\ cursor >= Len(trial.actions)
  /\ ~ Finest
  /\ granularity' = Min({Len(trial.actions), 2 * granularity})
  /\ cursor' = 0
  /\ UNCHANGED <<trial, variants>> /\ InPass

EndChunks ==
  /\ pass = "actions"
  /\ Len(trial.actions) < 2 \/ (cursor >= Len(trial.actions) /\ Finest)
  /\ EndPass("simplify", 1)

-----------------------------------------------------------------------------
(* _simplify_actions *)

TryVariant ==
  /\ pass = "simplify" /\ variants # <<>>
  /\ LET candidate == [trial EXCEPT !.actions[cursor] = Head(variants)] IN
     trial' = IF candidate # trial /\ Fails(oracle, candidate)
              THEN candidate ELSE trial
  /\ variants' = Tail(variants)
  /\ UNCHANGED <<cursor, granularity>> /\ InPass

NextAction ==
  /\ pass = "simplify" /\ variants = <<>> /\ cursor < Len(trial.actions)
  /\ cursor' = cursor + 1
  /\ variants' = VariantsAt(trial, cursor + 1)
  /\ UNCHANGED <<trial, granularity>> /\ InPass

EndSimplify ==
  /\ pass = "simplify" /\ variants = <<>> /\ cursor >= Len(trial.actions)
  /\ EndPass("workers", 1)

-----------------------------------------------------------------------------
(* _remove_workers: one that no action names, and never the last. *)
TryWorker ==
  /\ pass = "workers" /\ cursor <= Len(trial.workers)
  /\ LET candidate == [trial EXCEPT !.workers = RemoveAt(@, cursor)] IN
     IF /\ ~ RefersToWorker(trial, trial.workers[cursor].id)
        /\ Len(trial.workers) > 1
        /\ Fails(oracle, candidate)
     THEN trial' = candidate /\ UNCHANGED cursor
     ELSE cursor' = cursor + 1 /\ UNCHANGED trial
  /\ UNCHANGED <<granularity, variants>> /\ InPass

EndWorkers ==
  /\ pass = "workers" /\ cursor > Len(trial.workers)
  /\ EndPass("tasks", Len(trial.tasks))

(* _remove_tasks: from the last to the first, and never the only one. *)
TryTask ==
  /\ pass = "tasks" /\ cursor > 0 /\ Len(trial.tasks) > 1
  /\ LET target == trial.tasks[cursor].id
         tasks  == WithoutTask(trial.tasks, target)
         candidate == [trial EXCEPT !.tasks = tasks] IN
     IF /\ ~ RefersToTask(trial, target)
        /\ ValidDag(tasks)
        /\ Fails(oracle, candidate)
     THEN trial' = candidate /\ cursor' = Min({cursor - 1, Len(tasks)})
     ELSE cursor' = cursor - 1 /\ UNCHANGED trial
  /\ UNCHANGED <<granularity, variants>> /\ InPass

EndTasks ==
  /\ pass = "tasks" /\ (cursor = 0 \/ Len(trial.tasks) <= 1)
  /\ EndPass("over", 0)

-----------------------------------------------------------------------------
(* The round is over and changed something. *)
NextRound ==
  /\ pass = "over" /\ changed /\ round < MaxRounds
  /\ round' = round + 1 /\ changed' = FALSE
  /\ pass' = "actions" /\ cursor' = 0 /\ granularity' = 2
  /\ UNCHANGED <<original, oracle, current, trial, variants, outcome>>

(* The last replay: here nothing catches what the predicate raises. *)
Finish ==
  /\ pass = "over" /\ (~ changed \/ round = MaxRounds)
  /\ outcome = "running"
  /\ LET failure == Replay(current, oracle.strict).failure IN
     outcome' = IF Raising(oracle, failure) THEN "raised"
                ELSE IF Judged(oracle, failure) THEN "shrunk" ELSE "lost"
  /\ UNCHANGED <<original, oracle, current, trial, pass, cursor, granularity,
                 variants, changed, round>>

Next ==
  \/ TryChunk \/ RefineChunks \/ EndChunks
  \/ TryVariant \/ NextAction \/ EndSimplify
  \/ TryWorker \/ EndWorkers \/ TryTask \/ EndTasks
  \/ NextRound \/ Finish

(* shrink has returned or raised; in any other state it has a step to take. *)
Over == outcome # "running" /\ UNCHANGED vars

Spec == Init /\ [][Next \/ Over]_vars

-----------------------------------------------------------------------------
Total == oracle.predicate # "unguarded"

(* A failure is never lost on the way.  Each scenario a pass has come to
   satisfies the predicate, or makes it raise, which _fails takes for the same:
   such a scenario need not fail at all.  But it is never returned for one that
   does: what shrink returns satisfies the predicate, no predicate takes it to
   its own RuntimeError, and one that never raises is satisfied all along. *)
NothingLost ==
  /\ Fails(oracle, trial)
  /\ outcome # "lost"
  /\ outcome = "shrunk" => Satisfies(oracle, current)
  /\ Total => Satisfies(oracle, trial) /\ outcome # "raised"

Needed(sc) == ~ Satisfies(oracle, sc)

(* No single action can be removed from sc.  One that is alone was never tried
   without. *)
NoSpareAction(sc) ==
  Len(sc.actions) >= 2 =>
    \A i \in DOMAIN sc.actions :
      Needed([sc EXCEPT !.actions = RemoveAt(@, i)])

(* No worker and no task that the actions do not name can be removed from sc,
   except the last one.  A graph that validate_dag refuses, which only a
   scenario from a file can have, need not lose its tasks. *)
NoIdleWorker(sc) ==
  \A i \in DOMAIN sc.workers :
    \/ Len(sc.workers) = 1 \/ RefersToWorker(sc, sc.workers[i].id)
    \/ Needed([sc EXCEPT !.workers = RemoveAt(@, i)])

NoIdleTask(sc) ==
  ValidDag(original.tasks) =>
    \A t \in Ids(sc.tasks) :
      \/ Len(sc.tasks) = 1 \/ RefersToTask(sc, t)
      \/ Needed([sc EXCEPT !.tasks = WithoutTask(@, t)])

(* The time steps are as short as the ladder allows, although within a round a
   longer step may replace a shorter one that was accepted before. *)
TimesAreShort(sc) ==
  \A i \in {k \in DOMAIN sc.actions : sc.actions[k].kind = "advance_time"} :
    \A v \in {u \in ToSet(Ladder) : u < sc.actions[i].amount} :
      Needed([sc EXCEPT !.actions[i].amount = v])

(* What a round leaves as it was is minimal: no action, no idle worker or task
   and no part of a time step is there that the failure could do without. *)
ResultIsMinimal ==
  outcome = "shrunk" /\ Total /\ ~ changed =>
    /\ NoSpareAction(current) /\ TimesAreShort(current)
    /\ NoIdleWorker(current) /\ NoIdleTask(current)

(* Removing a task keeps the order of the others: each of them waits for just
   those it waited for in the scenario that was given, and validate_dag would
   not refuse them. *)
OrderSurvives ==
  ValidDag(original.tasks) =>
    /\ ValidDag(trial.tasks)
    /\ \A t \in Ids(trial.tasks) :
         Ancestors(trial.tasks, t) =
           Ancestors(original.tasks, t) \cap Ids(trial.tasks)

(* No scenario keeps the shrinker going for ever: neither ddmin's granularity
   nor the cursor of a pass comes back to where it was.  And it is not
   max_rounds that ends it: the rounds come to one that changes nothing. *)
Converges ==
  /\ <>[][FALSE]_vars
  /\ [](outcome = "shrunk" /\ Total => ~ changed)
=============================================================================
