------------------------------ MODULE Dashboard ------------------------------
(***************************************************************************)
(* The Tk dashboard, dashboard/helix_dashboard.py: a window whose buttons  *)
(* start one background thread at a time, probe threads that a timer       *)
(* starts whether or not the last one has answered, and one queue through  *)
(* which every thread reports to the window.                               *)
(*                                                                         *)
(* A thread of _background is the list of what it still has to do; the     *)
(* wait loops give up at some time that the model leaves open.  Settings   *)
(* and texts are left out, with the events that only set a text: status,   *)
(* progress, workflow_started and logs.  So is a button that returns early *)
(* because the settings are refused: it changes nothing.                   *)
(***************************************************************************)
EXTENDS Cluster, SequencesExt

CONSTANTS
  Prober        \* BOUND: probes whose report was not yet handled

VARIABLES
  window,   \* "closed" or "open"
  busy,     \* _busy
  jobs,     \* the threads that _background started and that have not ended
  probes,   \* probes[p]: what probe p has read, and how far it is
  queue,    \* _events
  shown,    \* docker_var, coordinator_var and workflow_var
  listed    \* the rows of workflow_tree

dashVars == <<window, busy, jobs, probes, queue, shown, listed>>

Unread == [docker |-> FALSE, online |-> FALSE, count |-> 0]
Idle   == [at |-> "off", saw |-> Unread]

DashboardInit ==
  /\ window = "closed"
  /\ busy = FALSE
  /\ jobs = {}
  /\ probes = [p \in Prober |-> Idle]
  /\ queue = <<>>
  /\ shown = Unread
  /\ listed = {}

IsOpen == window = "open"

Event(kind, of) == [kind |-> kind, of |-> of]
Put(kind, of)   == queue' = Append(queue, Event(kind, of))

(* What each button's thread does, in order. *)
Work(button) ==
  CASE button = "start"   -> <<"docker", "up", "ready">>
    [] button = "stop"    -> <<"stop">>
    [] button = "restart" -> <<"docker", "down", "up">>
    [] button = "run"     -> <<"docker", "up", "ready", "submit", "follow">>
    [] button = "logs"    -> <<"logs">>

Buttons == {"start", "stop", "restart", "run", "logs"}

-----------------------------------------------------------------------------
(* mutant: a second click starts a second thread. *)
Background_Unguarded(button) ==
  /\ IsOpen
  /\ busy' = TRUE
  /\ jobs' = jobs \cup {[todo |-> Work(button), flow |-> NoFlow]}
  /\ UNCHANGED <<window, probes, queue, shown, listed>>

(* _background, on a click: refused while an action is running.  With auto_start
   ensure_started presses the start button, 900 ms after the window appeared. *)
Background(button) ==
  /\ IsOpen
  /\ ~ busy
  /\ busy' = TRUE
  /\ jobs' = jobs \cup {[todo |-> Work(button), flow |-> NoFlow]}
  /\ UNCHANGED <<window, probes, queue, shown, listed>>

-----------------------------------------------------------------------------
(* One thread of _background. *)
Becomes(job, other) == jobs' = (jobs \ {job}) \cup {other}
Proceeds(job)       == Becomes(job, [job EXCEPT !.todo = Tail(@)])
Stays               == UNCHANGED <<window, busy, probes, shown, listed>>
Doing(job, step)    == job.todo # <<>> /\ Head(job.todo) = step

(* The outcome is put on the queue; the finally clause is still to come. *)
Concludes(job, outcome) ==
  /\ Put(outcome, job.flow)
  /\ Becomes(job, [todo |-> <<"finally">>, flow |-> NoFlow])

Raises(job) == Concludes(job, "error") /\ UNCHANGED clusterVars

(* _wait_for_docker *)
WaitForDocker(job) ==
  /\ Doing(job, "docker")
  /\ IF docker THEN Proceeds(job) /\ UNCHANGED <<queue, clusterVars>> ELSE Raises(job)

(* compose_up: without Docker, or when also the call with --build fails, it
   raises; so it does when the call takes too long, whatever it did. *)
BringUp(job) ==
  /\ Doing(job, "up")
  /\ \/ ComposeUp /\ Proceeds(job) /\ UNCHANGED queue
     \/ ComposeUp /\ Concludes(job, "error")
     \/ Raises(job)

(* docker compose down in restart_cluster, whose exit code nobody reads, and in
   stop_cluster, which asks for Docker first. *)
BringDown(job) ==
  /\ Doing(job, "down") \/ Doing(job, "stop")
  /\ \/ ComposeDown /\ Proceeds(job) /\ UNCHANGED queue
     \/ ComposeDown /\ Concludes(job, "error")
     \/ Proceeds(job) /\ UNCHANGED <<queue, clusterVars>>
     \/ Raises(job)

(* The loop that waits up to 60 s for the coordinator. *)
WaitForCoordinator(job) ==
  /\ Doing(job, "ready")
  /\ IF online THEN Proceeds(job) /\ UNCHANGED <<queue, clusterVars>> ELSE Raises(job)

(* The POST of run_workflow.  When its answer is lost the workflow exists and
   the thread fails. *)
Submit(job) ==
  /\ Doing(job, "submit")
  /\ \/ \E f \in Flow : /\ Accepts(f)
                        /\ Becomes(job, [todo |-> Tail(job.todo), flow |-> f])
                        /\ UNCHANGED queue
     \/ \E f \in Flow : Accepts(f) /\ Concludes(job, "error")
     \/ Raises(job)

(* mutant: the loop ends for two of the three final states. *)
Follow_NoCancelled(job) ==
  /\ Doing(job, "follow")
  /\ UNCHANGED clusterVars
  /\ \/ job.flow \in known /\ flows[job.flow] = "SUCCEEDED" /\ Proceeds(job) /\ UNCHANGED queue
     \/ job.flow \in known /\ flows[job.flow] = "FAILED" /\ Raises(job)
     \/ job.flow \notin known /\ Raises(job)

(* The last turn of the loop that follows the workflow, which has no deadline:
   it ends when the workflow is over or the coordinator cannot say. *)
Follow(job) ==
  /\ Doing(job, "follow")
  /\ UNCHANGED clusterVars
  /\ \/ job.flow \in known /\ flows[job.flow] = "SUCCEEDED" /\ Proceeds(job) /\ UNCHANGED queue
     \/ job.flow \in known /\ flows[job.flow] \in {"FAILED", "CANCELLED"} /\ Raises(job)
     \/ job.flow \notin known /\ Raises(job)

(* refresh_logs *)
ReadLogs(job) ==
  /\ Doing(job, "logs")
  /\ UNCHANGED clusterVars
  /\ (Proceeds(job) /\ UNCHANGED queue) \/ Raises(job)

Returns(job) ==
  /\ job.todo = <<>>
  /\ Concludes(job, "success")
  /\ UNCHANGED clusterVars

(* The finally clause is the thread's last step. *)
Finally(job) ==
  /\ Doing(job, "finally")
  /\ Put("idle", NoFlow)
  /\ jobs' = jobs \ {job}
  /\ UNCHANGED clusterVars

JobStep ==
  /\ IsOpen
  /\ \E job \in jobs :
       \/ WaitForDocker(job) \/ BringUp(job) \/ BringDown(job) \/ WaitForCoordinator(job)
       \/ Submit(job) \/ Follow(job) \/ ReadLogs(job) \/ Returns(job) \/ Finally(job)
  /\ Stays

-----------------------------------------------------------------------------
(* refresh_status: a thread more, unless BOUND Prober is reached. *)
StartsAProbe ==
  LET free == {p \in Prober : probes[p].at = "off"} IN
  IF free = {} THEN UNCHANGED probes
  ELSE probes' = [probes EXCEPT ![CHOOSE p \in free : TRUE] = [at |-> "docker", saw |-> Unread]]

(* _periodic_refresh, every 3.5 s, and the button that does the same. *)
PeriodicRefresh ==
  /\ IsOpen
  /\ \E p \in Prober : probes[p].at = "off"
  /\ StartsAProbe
  /\ UNCHANGED <<window, busy, jobs, queue, shown, listed>>

(* probe: asks for Docker, then the coordinator, then the lists, each time only
   if the last was there, and puts what it saw on the queue when it is done,
   which may be much later.  A list that fails is empty. *)
Probe(p) ==
  /\ IsOpen
  /\ UNCHANGED <<window, busy, jobs, shown, listed>>
  /\ LET probe      == probes[p]
         goes(step) == probes' = [probes EXCEPT ![p] = step] /\ UNCHANGED queue IN
     \/ /\ probe.at = "docker"
        /\ goes([at  |-> IF docker THEN "coordinator" ELSE "put",
                 saw |-> [probe.saw EXCEPT !.docker = docker]])
     \/ /\ probe.at = "coordinator"
        /\ goes([at  |-> IF online THEN "lists" ELSE "put",
                 saw |-> [probe.saw EXCEPT !.online = online]])
     \/ /\ probe.at = "lists"
        /\ goes([at |-> "put", saw |-> [probe.saw EXCEPT !.count = Cardinality(known)]])
     \/ /\ probe.at = "put"
        /\ Put("probe", p)
        /\ probes' = [probes EXCEPT ![p].at = "reported"]

-----------------------------------------------------------------------------
(* refresh_workflows: what was listed stays when nobody answers in time. *)
RefreshWorkflows ==
  \/ online /\ listed' = known
  \/ UNCHANGED listed

(* The button that lists the workflows anew. *)
RefreshTree ==
  /\ IsOpen
  /\ RefreshWorkflows
  /\ UNCHANGED <<window, busy, jobs, probes, queue, shown>>

(* One event of _poll_events' loop, _handle_custom_event included. *)
PollEvents ==
  /\ IsOpen
  /\ queue # <<>>
  /\ queue' = Tail(queue)
  /\ LET event == Head(queue) IN
     \/ /\ event.kind = "probe"
        /\ shown' = probes[event.of].saw
        /\ probes' = [probes EXCEPT ![event.of] = Idle]
        /\ UNCHANGED <<busy, listed>>
     \/ /\ event.kind = "idle"
        /\ busy' = FALSE
        /\ StartsAProbe
        /\ RefreshWorkflows
        /\ UNCHANGED shown
     \/ /\ event.kind \in {"success", "error"}
        /\ UNCHANGED <<busy, probes, shown, listed>>
  /\ UNCHANGED <<window, jobs, clusterVars>>

(* cancel_selected_workflow: also while an action is running.  When the answer
   is lost the workflow is cancelled all the same, an error is shown and the
   list stays; a request that does not arrive only shows the error. *)
CancelSelected ==
  /\ IsOpen
  /\ \E f \in listed : Cancels(f)
  /\ RefreshWorkflows
  /\ UNCHANGED <<window, busy, jobs, probes, queue, shown>>

(* main and __init__: the first refresh is on its way. *)
Open ==
  /\ ~ IsOpen
  /\ window' = "open"
  /\ StartsAProbe
  /\ UNCHANGED <<busy, jobs, queue, shown, listed>>

(* _on_close and update_helixgrid: the process ends, and its threads, which are
   daemons, with it; the workflow that one of them followed goes on. *)
Close ==
  /\ IsOpen
  /\ window' = "closed"
  /\ busy' = FALSE
  /\ jobs' = {}
  /\ probes' = [p \in Prober |-> Idle]
  /\ queue' = <<>>
  /\ shown' = Unread
  /\ listed' = {}
=============================================================================
