----------------------------- MODULE MCFrontends -----------------------------
(***************************************************************************)
(* The instance of Frontends for TLC: one workflow, two probe threads.     *)
(***************************************************************************)
EXTENDS Frontends

(* No timeout, none to speak of, and one that is not a multiple of a turn. *)
Limits == {NoTimeout, 0, 3}
=============================================================================
