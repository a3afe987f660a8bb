------------------------------- MODULE Cluster -------------------------------
(***************************************************************************)
(* What the two Python front ends find on the machine: Docker, the compose *)
(* project, and a coordinator that answers requests, ends workflows, and   *)
(* forgets all of them when its process does.  It is external to both: no  *)
(* more of the coordinator is here than the answers that reach them, which *)
(* Coordinator.tla derives from its source.                                *)
(***************************************************************************)
EXTENDS Naturals

CONSTANTS
  Flow,       \* BOUND: the identifiers of the workflows that are ever submitted
  NoFlow      \* none of them

ASSUME FlowAssumption == NoFlow \notin Flow

VARIABLES
  docker,     \* docker info succeeds
  up,         \* docker compose has the project up
  online,     \* the coordinator answers
  flows,      \* flows[f]: the state f reached, known to the coordinator or not
  known       \* the workflows the coordinator would answer for

clusterVars == <<docker, up, online, flows, known>>

Terminal == {"SUCCEEDED", "FAILED", "CANCELLED"}

ClusterInit ==
  /\ docker \in BOOLEAN
  /\ up = FALSE
  /\ online = FALSE
  /\ flows = [f \in Flow |-> "none"]
  /\ known = {}

Unused == {f \in Flow : flows[f] = "none"}

(* The coordinator's process is gone, and what it kept in memory. *)
GoesOffline == online' = FALSE /\ known' = {}

(* docker compose up and down, as far as they succeed. *)
ComposeUp   == docker /\ up' = TRUE /\ UNCHANGED <<docker, online, flows, known>>
ComposeDown == docker /\ up' = FALSE /\ GoesOffline /\ UNCHANGED <<docker, flows>>

(* POST /v1/workflows *)
Accepts(f) == /\ online
              /\ f \in Unused
              /\ flows' = [flows EXCEPT ![f] = "RUNNING"]
              /\ known' = known \cup {f}
              /\ UNCHANGED <<docker, up, online>>

(* POST /v1/workflows/{id}/cancel: one that is over stays as it is. *)
Cancels(f) == /\ online
              /\ f \in known
              /\ flows' = [flows EXCEPT ![f] = IF @ \in Terminal THEN @ ELSE "CANCELLED"]
              /\ UNCHANGED <<docker, up, online, known>>

DockerStarts == ~ docker /\ docker' = TRUE /\ UNCHANGED <<up, online, flows, known>>
DockerStops  == docker /\ docker' = FALSE /\ GoesOffline /\ UNCHANGED <<up, flows>>

(* restart: unless-stopped *)
ComesOnline == docker /\ up /\ ~ online /\ online' = TRUE
               /\ UNCHANGED <<docker, up, flows, known>>
Crashes     == online /\ GoesOffline /\ UNCHANGED <<docker, up, flows>>

(* It runs to its end, or somebody else cancels it. *)
Finishes(f) == /\ online /\ f \in known /\ flows[f] = "RUNNING"
               /\ \E s \in Terminal : flows' = [flows EXCEPT ![f] = s]
               /\ UNCHANGED <<docker, up, online, known>>

ClusterMoves == \/ DockerStarts \/ DockerStops \/ ComesOnline \/ Crashes
                \/ \E f \in Flow : Finishes(f)
=============================================================================
