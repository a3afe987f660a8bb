----------------------------- MODULE MCShrinker -----------------------------
EXTENDS Shrinker

MCLadder == <<1, 2, 3>>

One == [attempts |-> 1, base |-> 1, max |-> 1]

(* A diamond. *)
MCTasks ==
  <<[id |-> 0, needs |-> <<>>,        labels |-> {}, retry |-> One],
    [id |-> 1, needs |-> <<0>>,       labels |-> {}, retry |-> One],
    [id |-> 2, needs |-> <<0>>,       labels |-> {}, retry |-> One],
    [id |-> 3, needs |-> <<1, 2>>,    labels |-> {}, retry |-> One]>>

MCWorkers ==
  [i \in 1..2 |-> [id |-> i - 1, capacity |-> 1, labels |-> {}]]

A(kind) == [kind |-> kind, workflow |-> FirstWorkflow, task |-> Nil,
            worker |-> Nil, token |-> NoToken, amount |-> 0, text |-> NoText]

First == <<1, 0>>   \* the token of a lease granted first, at time 0

(* What a script is made of. *)
MCActions ==
  {[A("lease") EXCEPT !.worker = 0],
   [A("drop_worker") EXCEPT !.worker = 0],
   [A("register_worker") EXCEPT !.worker = 0, !.amount = 2],
   [A("advance_time") EXCEPT !.amount = 4],
   [A("complete_failure") EXCEPT !.token = First, !.text = 1],
   [A("start") EXCEPT !.token = <<9, 9>>, !.task = 3, !.amount = 3],
   [A("log") EXCEPT !.token = First, !.text = 4],
   A("cancel_workflow")}

MCScenarios ==
  {[tasks |-> MCTasks, workers |-> MCWorkers, actions |-> s] :
     s \in UNION {[1..n -> MCActions] : n \in 1..4}}
=============================================================================
