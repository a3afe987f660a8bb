----------------------------- MODULE MCChaosLab -----------------------------
EXTENDS ChaosLab

MCLabelSets == {{}, {<<"os", "linux">>}}

MCPolicies == {[attempts |-> 0, base |-> 0, max |-> 0],
               [attempts |-> 2, base |-> 1, max |-> 2]}

(* Bounds on the scenarios the generator's loop starts from: two tasks side by
   side after a third on one worker that takes two, or a chain of two, the
   second of them asking for a label.  A script is about one task. *)
InitiallySmall ==
  LET last == Cardinality(DOMAIN m.tasks) - 1
      labelled == {t \in DOMAIN m.tasks : m.tasks[t].labels # {}}
      retried  == {t \in DOMAIN m.tasks : m.tasks[t].retry.attempts > 1} IN
  CASE last = 0 -> driver = "script"
    [] last = 1 -> driver = "generator" /\ labelled = {1} /\ retried = {1}
    [] last = 2 -> /\ driver = "generator" /\ labelled = {} /\ retried = {2}
                   /\ m.tasks[1].needs = {} /\ m.tasks[2].needs = {0}
                   /\ m.workers[0].capacity = 2

MCInit == Init /\ InitiallySmall

MCSpec == MCInit /\ [][Next]_vars
=============================================================================
