---------------------------- MODULE MCCoordinator ----------------------------
(***************************************************************************)
(* Instances of Coordinator for TLC, with the event bus projected away.    *)
(***************************************************************************)
EXTENDS CoordinatorProperties

Discard(b, es) == b

(* One workflow: c joins a and b; a may be retried once.  Worker w fits every
   task and runs two at a time, v fits a and c and runs one. *)
OneTask     == {"a", "b", "c"}
OneWfOf     == [t \in OneTask |-> "f"]
OneDeps     == [t \in OneTask |-> IF t = "c" THEN {"a", "b"} ELSE {}]
OneOrder    == [f \in {"f"} |-> <<"a", "b", "c">>]
OneAttempts == [t \in OneTask |-> IF t = "a" THEN 2 ELSE 1]
OneDelay    == [t \in OneTask |-> [n \in 1..OneAttempts[t] |-> 2]]
OneFits     == [w \in {"w", "v"} |-> IF w = "w" THEN OneTask ELSE {"a", "c"}]
OneCapacity == [w \in {"w", "v"} |-> IF w = "w" THEN 2 ELSE 1]

(* Two workflows on one worker of capacity 2: the chain a -> b and the single
   task x, each submitted with or without the one idempotency key. *)
TwoTask     == {"a", "b", "x"}
TwoWfOf     == [t \in TwoTask |-> IF t = "x" THEN "g" ELSE "f"]
TwoDeps     == [t \in TwoTask |-> IF t = "b" THEN {"a"} ELSE {}]
TwoOrder    == [f \in {"f", "g"} |-> IF f = "f" THEN <<"a", "b">> ELSE <<"x">>]
TwoAttempts == [t \in TwoTask |-> 1]
TwoDelay    == [t \in TwoTask |-> [n \in 1..1 |-> 0]]
TwoFits     == [w \in {"w"} |-> TwoTask]
TwoCapacity == [w \in {"w"} |-> 2]

(* The chain a -> b, for the liveness run: a may be retried once and only v
   fits b. *)
PairTask     == {"a", "b"}
PairWfOf     == [t \in PairTask |-> "f"]
PairDeps     == [t \in PairTask |-> IF t = "b" THEN {"a"} ELSE {}]
PairOrder    == [f \in {"f"} |-> <<"a", "b">>]
PairAttempts == [t \in PairTask |-> IF t = "a" THEN 2 ELSE 1]
PairDelay    == [t \in PairTask |-> [n \in 1..PairAttempts[t] |-> 1]]
PairFits     == [w \in {"w", "v"} |-> IF w = "w" THEN {"a"} ELSE PairTask]
PairCapacity == [w \in {"w", "v"} |-> 1]
=============================================================================
