-------------------------- MODULE MCWorkflowBuilder --------------------------
EXTENDS BuiltGraphs

MCTaskNames == <<2, 0, 3, 1>>

MCWeightings ==
  {[t \in 0..3 |-> 1], <<2, 0, 3>> @@ (0 :> -1), [t \in 0..3 |-> 3 - t]}

MCPolicies == [attempts : {-1, 1, 101}, base : -1..5, max : -1..9]

MCDefaults == [base |-> 2, max |-> 6, mostBase |-> 4, mostMax |-> 8]
=============================================================================
