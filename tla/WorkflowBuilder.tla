---------------------------- MODULE WorkflowBuilder ----------------------------
(***************************************************************************)
(* The Python SDK's WorkflowBuilder (sdk/python/src/helixgrid/client.py):  *)
(* tasks are named, then connected, and build hands out a definition.  The *)
(* definition holds the builder's own Task objects, so a later depends_on  *)
(* changes what was already built.                                         *)
(***************************************************************************)
EXTENDS Dag, Retry, Integers

CONSTANTS
  TaskNames,      \* bound: the names, in the order in which task() is called
  MaxEdges,       \* bound: dependencies in all
  Unknown         \* a name that no task has

ASSUME UnknownAssumption == Unknown \in Nat \ ToSet(TaskNames)

(* task() refuses a name it has already. *)
ASSUME NamesAssumption == TaskNames \in Seq(Nat) /\ NoRepeats(TaskNames)

VARIABLES
  tasks,    \* _tasks, in insertion order
  built,    \* the definition handed out: its order of names, or <<>>
  fresh     \* nothing was changed since that definition was built

vars == <<tasks, built, fresh>>

Init == tasks = <<>> /\ built = <<>> /\ fresh = FALSE

(* task: the names are distinct by the order they are taken in; the call that
   repeats one raises and changes nothing, as do those with a bad command. *)
NameTask ==
  /\ Len(tasks) < Len(TaskNames)
  /\ tasks' = Append(tasks, [id |-> TaskNames[Len(tasks) + 1], needs |-> <<>>])
  /\ fresh' = FALSE
  /\ UNCHANGED built

(* One dependency of depends_on: a known name, not the task's own, once. *)
Connected(all, i, d) ==
  IF d \in Ids(all) \ {all[i].id} /\ d \notin ToSet(all[i].needs)
  THEN [all EXCEPT ![i].needs = Append(@, d)] ELSE all

Raises(all, i, d) == d \notin Ids(all) \ {all[i].id}

(* depends_on: it raises at the first name it refuses and keeps those before
   it. *)
Connect ==
  /\ \E i \in DOMAIN tasks :
       \E c, d \in Ids(tasks) \cup {Unknown} :
         tasks' = IF Raises(tasks, i, c) THEN tasks
                  ELSE Connected(Connected(tasks, i, c), i, d)
  /\ EdgeCount(tasks') <= MaxEdges
  /\ fresh' = (fresh /\ (tasks' = tasks))
  /\ UNCHANGED built

(* _validate_acyclic, which build calls after it has looked for a task. *)
Buildable == tasks # <<>> /\ Len(KahnOrder(tasks)) = Len(tasks)

(* build: the tasks in topological order. *)
Build ==
  /\ Buildable
  /\ built' = KahnOrder(tasks) /\ fresh' = TRUE
  /\ UNCHANGED tasks

Next == NameTask \/ Connect \/ Build

Spec == Init /\ [][Next]_vars

-----------------------------------------------------------------------------
Before(s, x, y) == \E i, k \in DOMAIN s : i < k /\ s[i] = x /\ s[k] = y

Ordered(order, all) ==
  /\ Len(order) = Len(all) /\ ToSet(order) = Ids(all)
  /\ \A t \in Ids(all) : \A u \in Needs(all, t) : Before(order, u, t)

(* A task waits for itself, through others: the reference definition. *)
Cyclic(all) == \E t \in Ids(all) : t \in Ancestors(all, t)

(* Whatever is called in whatever order, and even when a call raises half way,
   the builder holds no graph the coordinator would refuse but for a cycle,
   and it builds exactly when there is none.  A definition lists every task
   after what it needs until depends_on is called again. *)
BuildsWhatIsValid ==
  /\ Refusals(tasks) \subseteq {"no task", "cycle"}
  /\ (tasks # <<>> /\ ~ Cyclic(tasks)) <=> Buildable
  /\ fresh => Ordered(built, tasks)

-----------------------------------------------------------------------------
CONSTANTS
  Policies,   \* retry policies, also odd ones
  Defaults    \* the defaults and largest values of NormalizeRetry

(* Numbers as they are written, negative ones too. *)
ASSUME PoliciesAssumption ==
  Policies \subseteq [attempts : Int, base : Int, max : Int]

ASSUME DefaultsAssumption ==
  Defaults \in [base : Nat \ {0}, max : Nat \ {0},
                mostBase : Nat \ {0}, mostMax : Nat \ {0}]

(* Whatever a policy says, the delay before attempt n + 1 is the base doubled
   n - 1 times or the maximum, whichever is less, so it never overflows; both
   ways of normalising give a policy with a positive base, not above the
   maximum.  They give the same policy for what is written out in range. *)
BackoffIsCapped ==
  tasks = <<>> =>
    \A p \in Policies :
      /\ \A q \in {Normalized(p), NormalizedByDefaults(p, Defaults)} :
           /\ q.base \in 1..q.max /\ q.attempts \in 1..100
           /\ \A n \in 0..6 :
                Backoff(q, n) = Min({q.max, q.base * 2 ^ (Max({n, 1}) - 1)})
      /\ p.base \in 1..Defaults.mostBase /\ p.max \in p.base..Defaults.mostMax =>
           Normalized(p) = NormalizedByDefaults(p, Defaults)
=============================================================================
