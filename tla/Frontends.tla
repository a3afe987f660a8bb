------------------------------ MODULE Frontends ------------------------------
(***************************************************************************)
(* The dashboard and the command line against one cluster.  BOUND: they    *)
(* are used one after the other, never at the same time; they meet only in *)
(* the coordinator, whose own moves include what the other could cause.    *)
(***************************************************************************)
EXTENDS Dashboard, CommandLine

vars == <<clusterVars, dashVars, cmdVars>>

Init == ClusterInit /\ DashboardInit /\ CommandInit

AtTheWindow == cmd.at = "none" /\ UNCHANGED cmdVars

Clicks == \/ \E button \in Buttons : Background(button)
          \/ RefreshTree \/ Open \/ Close

Threads(p) == Probe(p) /\ UNCHANGED <<clusterVars, cmdVars>>
Timer      == PeriodicRefresh /\ UNCHANGED <<clusterVars, cmdVars>>
Working    == JobStep /\ UNCHANGED cmdVars
Polling    == PollEvents /\ UNCHANGED cmdVars

Next ==
  \/ ClusterMoves /\ UNCHANGED <<dashVars, cmdVars>>
  \/ Clicks /\ UNCHANGED clusterVars /\ AtTheWindow
  \/ CancelSelected /\ AtTheWindow
  \/ Working \/ Polling \/ Timer
  \/ \E p \in Prober : Threads(p)
  \/ ~ IsOpen /\ Command /\ UNCHANGED dashVars

(* The threads run, their calls end, the timers fire, and the window's loop
   gets to the queue.  Nobody has to click, and the cluster owes nothing. *)
Spec ==
  /\ Init
  /\ [][Next]_vars
  /\ WF_vars(Working) /\ WF_vars(Polling) /\ WF_vars(Timer)
  /\ \A p \in Prober : WF_vars(Threads(p))

-----------------------------------------------------------------------------
(* One action at a time, and its events alone: the window is busy exactly while
   a thread of _background runs or its idle event waits, there is at most one
   such thread or event, and what else waits behind an idle event is probes. *)
IdleAt == {i \in DOMAIN queue : queue[i].kind = "idle"}

OneActionAtATime ==
  /\ busy <=> jobs # {} \/ IdleAt # {}
  /\ Cardinality(jobs) + Cardinality(IdleAt) <= 1
  /\ \A i \in IdleAt : \A j \in DOMAIN queue : j > i => queue[j].kind = "probe"

(* What the front ends say of a workflow is true of it, whatever cancels,
   crashes and lost answers there were: the dashboard's message of success, and
   the exit codes 0, 2 and 3 of a command that waited. *)
SaysTheTruth ==
  /\ \A i \in DOMAIN queue :
       queue[i].kind = "success" /\ queue[i].of # NoFlow
         => flows[queue[i].of] = "SUCCEEDED"
  /\ cmd.why = "over" =>
       \/ cmd.exit = 0 /\ flows[cmd.flow] = "SUCCEEDED"
       \/ cmd.exit = 2 /\ flows[cmd.flow] \in {"FAILED", "CANCELLED"}
  /\ cmd.why = "api" /\ cmd.flow \in Flow => cmd.flow \notin known

(* wait against the clock: it notices the end of its workflow within one poll
   and two requests; it gives up not before its timeout and less than a poll and
   a request after it; and when it does, the workflow was not yet over when the
   last request was sent. *)
WaitIsPunctual ==
  /\ cmd.at \in {"poll", "answered", "sleep"} => over <= Poll + 2 * Patience
  /\ cmd.why = "timeout" =>
       /\ elapsed \in cmd.limit .. (cmd.limit + Poll + Patience - 1)
       /\ over <= Patience

(* Once the cluster rests and the window stays open, it comes to show what is
   there, however many probes were on their way with older news; and it is not
   busy for ever, unless a thread follows a workflow that does not end. *)
Present   == [docker |-> docker, online |-> online, count |-> Cardinality(known)]
Following == \E job \in jobs : Doing(job, "follow") /\ job.flow \in known
                                /\ flows[job.flow] = "RUNNING"

ComesToRest ==
  (<>[]IsOpen /\ <>[][FALSE]_clusterVars)
    => <>[](shown = Present) /\ []<>(busy => Following)
=============================================================================
