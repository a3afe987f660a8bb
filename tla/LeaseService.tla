---------------------------- MODULE LeaseService ----------------------------
(***************************************************************************)
(* What HelixGrid promises of leases: a task is idle, held under a token,  *)
(* decided by its holder, or dropped.  There are no workers, workflows,    *)
(* clocks or retries here.  The coordinator's store is shown to implement  *)
(* it (CoordinatorProperties, proved in CoordinatorOutcomeProofs), and     *)
(* so is the chaos lab's reference model (ChaosLab, ChaosLabProofs).       *)
(***************************************************************************)
CONSTANTS
  Task,
  Token,
  NoHolder    \* not a token

VARIABLES
  phase,    \* phase[t] \in Phase
  holder,   \* holder[t]: the token t is held under
  spent     \* the tokens that were ever given out

vars == <<phase, holder, spent>>

Phase == {"idle", "held", "decided", "dropped"}

Init ==
  /\ phase = [t \in Task |-> "idle"]
  /\ holder = [t \in Task |-> NoHolder]
  /\ spent = {}

(* What one step may do to one task. *)
Keeps(t)    == phase'[t] = phase[t] /\ holder'[t] = holder[t]

(* The holder gives up, fails with attempts left, or its lease expires. *)
Releases(t) == phase[t] = "held" /\ phase'[t] = "idle" /\ holder'[t] = NoHolder

(* Only a held task gets a result. *)
Decides(t)  == phase[t] = "held" /\ phase'[t] = "decided" /\ holder'[t] = NoHolder

Drops(t)    == /\ phase[t] \in {"idle", "held"}
               /\ phase'[t] = "dropped" /\ holder'[t] = NoHolder

(* A task is granted under a token no one ever had; if it was held, the same
   step takes it from its holder first. *)
Grants(t)   == /\ phase[t] \in {"idle", "held"}
               /\ phase'[t] = "held"
               /\ holder'[t] \in Token \ spent

Granted == {t \in Task : Grants(t)}

Step ==
  /\ \A t \in Task : Keeps(t) \/ Releases(t) \/ Decides(t) \/ Drops(t) \/ Grants(t)
  /\ \A t, u \in Granted : t = u
  /\ spent' = spent \cup {holder'[t] : t \in Granted}
  /\ \A t, u \in Task : Decides(t) /\ Decides(u) => t = u
  /\ (\E t \in Task : Decides(t)) => Granted = {}

Spec == Init /\ [][Step]_vars
=============================================================================
