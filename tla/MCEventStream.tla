---------------------------- MODULE MCEventStream ----------------------------
(***************************************************************************)
(* The instance of EventStream for TLC.                                    *)
(***************************************************************************)
EXTENDS EventStream

(* Two clients of two workflows. *)
TwoFollows == [s \in {"r", "s"} |-> IF s = "r" THEN "f" ELSE "g"]
=============================================================================
