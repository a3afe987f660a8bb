--------------------------- MODULE MCRecomputePass ---------------------------
(* RecomputePass on a -> b -> d, a -> c -> d: a diamond with a task e beside it
   that c waits for. *)
EXTENDS RecomputePass

Discard(b, es) == b

GraphTask     == {"a", "b", "c", "d", "e"}
GraphWfOf     == [t \in GraphTask |-> "f"]
GraphDeps     == [t \in GraphTask |-> CASE t = "b" -> {"a"}
                                        [] t = "c" -> {"a", "e"}
                                        [] t = "d" -> {"b", "c"}
                                        [] OTHER   -> {}]
GraphOrder    == [f \in {"f"} |-> <<"a", "b", "e", "c", "d">>]
GraphAttempts == [t \in GraphTask |-> 1]
GraphDelay    == [t \in GraphTask |-> [n \in 1..1 |-> 1]]
GraphFits     == [w \in {"w"} |-> GraphTask]
GraphCapacity == [w \in {"w"} |-> 1]
=============================================================================
