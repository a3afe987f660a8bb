--------------------------- MODULE FrontendsProofs ---------------------------
(***************************************************************************)
(* Proofs about Frontends for any workflows, timeouts, poll interval and   *)
(* patience.  All of them rest on one fact about the cluster: a workflow   *)
(* that is over stays what it is, so what a thread or a command has read   *)
(* of it is still true when it is said.                                    *)
(***************************************************************************)
EXTENDS Frontends, SequenceTheorems, FiniteSetTheorems, TLAPS

FlowState == {"none", "RUNNING"} \cup Terminal

FlowsTyped == flows \in [Flow -> FlowState] /\ known \subseteq Flow

(* Every way in which a front end or the cluster itself can change it. *)
ClusterStep == \/ ClusterMoves \/ ComposeUp \/ ComposeDown
               \/ \E f \in Flow : Accepts(f) \/ Cancels(f)
               \/ UNCHANGED clusterVars

(* What has ended stays as it is. *)
EndsKept == \A f \in Flow : flows[f] \in Terminal => flows'[f] = flows[f]

LEMMA ClusterStepKeepsEnds ==
  ASSUME FlowsTyped, ClusterStep
  PROVE  FlowsTyped' /\ EndsKept
<1> USE DEF FlowsTyped, EndsKept, FlowState, Terminal
<1>1. CASE UNCHANGED flows /\ known' \subseteq known
  BY <1>1
<1>2. CASE \E f \in Flow : Accepts(f)
  BY <1>2 DEF Accepts, Unused
<1>3. CASE \E f \in Flow : Cancels(f)
  BY <1>3 DEF Cancels
<1>4. CASE \E f \in Flow : Finishes(f)
  BY <1>4 DEF Finishes
<1> QED
  BY <1>1, <1>2, <1>3, <1>4
  DEF ClusterStep, ClusterMoves, ComposeUp, ComposeDown, GoesOffline, DockerStarts,
      DockerStops, ComesOnline, Crashes, clusterVars

-----------------------------------------------------------------------------
(* The command. *)

InWait == cmd.at \in {"poll", "answered", "sleep"}

CommandTyped ==
  /\ cmd \in [at    : {"none", "poll", "answered", "sleep", "exited"},
              flow  : Flow \cup {NoFlow},
              seen  : FlowState,
              limit : Nat \cup {NoTimeout},
              left  : Nat,
              exit  : Nat,
              why   : {"none", "over", "api", "connection", "timeout", "interrupted",
                       "submitted", "asked"}]
  /\ elapsed \in Nat
  /\ over \in Nat
  /\ InWait => cmd.flow \in Flow
  /\ cmd.at # "exited" => cmd.why = "none"
  /\ cmd.at = "none" => cmd.flow = NoFlow

(* How far the clocks may have come at each place of wait's loop: a sleep
   follows an answer that was not the end, so the workflow was still running
   when that answer was read, and the deadline had not passed. *)
Running == InWait /\ over > 0 => flows[cmd.flow] \in Terminal

Asleep ==
  cmd.at = "sleep" =>
    /\ over + cmd.left <= Patience + Poll
    /\ cmd.limit # NoTimeout => elapsed + cmd.left + 1 <= cmd.limit + Poll

Asking ==
  cmd.at \in {"poll", "answered"} =>
    /\ cmd.left <= Patience
    /\ over + cmd.left <= Poll + Patience + Patience
    /\ cmd.limit # NoTimeout => elapsed + cmd.left + 1 <= cmd.limit + Poll + Patience

Answered ==
  cmd.at = "answered" /\ cmd.seen \notin Terminal => over + cmd.left <= Patience

TimedOut ==
  cmd.why = "timeout" =>
    /\ cmd.limit \in Nat
    /\ elapsed >= cmd.limit /\ elapsed + 1 <= cmd.limit + Poll + Patience
    /\ over <= Patience

Clocked == Running /\ Asleep /\ Asking /\ Answered /\ TimedOut

(* An answer that says the end is still true, and so is the exit code that was
   made of it. *)
Truthful ==
  /\ cmd.at = "answered" /\ cmd.seen \in Terminal => flows[cmd.flow] = cmd.seen
  /\ cmd.why = "over" =>
       /\ cmd.flow \in Flow
       /\ \/ cmd.exit = 0 /\ flows[cmd.flow] = "SUCCEEDED"
          \/ cmd.exit = 2 /\ flows[cmd.flow] \in {"FAILED", "CANCELLED"}
  /\ cmd.why = "api" /\ cmd.flow \in Flow => cmd.flow \notin known

OneFrontEnd == IsOpen => cmd.at = "none"

CommandInv == FlowsTyped /\ CommandTyped /\ Clocked /\ Truthful /\ OneFrontEnd

(* While no command acts, the cluster and the window do. *)
LEMMA CommandInvOthers ==
  ASSUME CommandInv, UNCHANGED cmdVars, ClusterStep,
         cmd.at # "none" => known' \subseteq known,
         IsOpen' => IsOpen \/ cmd.at = "none"
  PROVE  CommandInv'
<1>1. FlowsTyped' /\ EndsKept
  BY ClusterStepKeepsEnds DEF CommandInv
<1>2. CommandTyped'
  BY DEF CommandInv, CommandTyped, cmdVars, InWait
<1>3. Clocked'
  BY <1>1 DEF CommandInv, CommandTyped, Clocked, Running, Asleep,
           Asking, Answered, TimedOut, cmdVars, InWait, EndsKept
<1>4. Truthful'
  BY <1>1 DEF CommandInv, CommandTyped, Truthful, cmdVars, InWait, EndsKept, Terminal
<1>5. OneFrontEnd'
  BY DEF CommandInv, OneFrontEnd, cmdVars
<1> QED
  BY <1>1, <1>2, <1>3, <1>4, <1>5 DEF CommandInv

(* A command that ends without saying how its workflow ended. *)
LEMMA CommandInvExits ==
  ASSUME CommandInv, FlowsTyped', OneFrontEnd', KeepsTime,
         NEW code \in Nat,
         NEW why \in {"api", "connection", "interrupted", "submitted", "asked"},
         Exits(code, why),
         why = "api" /\ cmd.flow \in Flow => cmd.flow \notin known'
  PROVE  CommandInv'
<1>1. CommandTyped
  BY DEF CommandInv
<1>2. /\ cmd' = [cmd EXCEPT !.at = "exited", !.exit = code, !.why = why]
      /\ cmd'.at = "exited" /\ cmd'.why = why /\ cmd'.flow = cmd.flow
      /\ UNCHANGED <<elapsed, over>>
  BY <1>1 DEF Exits, CommandTyped, KeepsTime
<1>3. CommandTyped'
  BY <1>1, <1>2 DEF CommandTyped, InWait
<1>4. Clocked' /\ Truthful'
  BY <1>2 DEF Clocked, Running, Asleep, Asking, Answered, TimedOut, Truthful, InWait
<1> QED
  BY <1>3, <1>4 DEF CommandInv

(* wait begins: its first request is on its way. *)
LEMMA CommandInvWaits ==
  ASSUME CommandInv, FlowsTyped', OneFrontEnd',
         NEW f \in Flow, NEW limit \in Timeouts \cup {NoTimeout}, Waits(f, limit)
  PROVE  CommandInv'
<1> USE FlowAssumption, TimingAssumption
<1>1. /\ cmd' = [at |-> "poll", flow |-> f, seen |-> "none", limit |-> limit,
                 left |-> Patience, exit |-> 0, why |-> "none"]
      /\ elapsed' = 0 /\ over' = 0
  BY DEF Waits, NoCommand
<1>2. CommandTyped'
  <2>1. limit \in Nat \cup {NoTimeout}
    OBVIOUS
  <2>2. "poll" \in {"none", "poll", "answered", "sleep", "exited"} /\ "none" \in FlowState
    BY DEF FlowState
  <2> QED
    BY <1>1, <2>1, <2>2 DEF CommandTyped, InWait
<1>3. Clocked'
  <2>1. limit # NoTimeout => limit \in Nat /\ 0 + Patience + 1 <= limit + Poll + Patience
    OBVIOUS
  <2>2. /\ cmd'.at = "poll" /\ cmd'.left = Patience /\ cmd'.limit = limit
        /\ cmd'.why = "none" /\ elapsed' = 0 /\ over' = 0
    BY <1>1
  <2>3. Running'
    BY <2>2 DEF Running
  <2>4. Asleep'
    BY <2>2 DEF Asleep
  <2>5. Asking'
    BY <2>1, <2>2 DEF Asking
  <2>6. Answered'
    BY <2>2 DEF Answered
  <2>7. TimedOut'
    BY <2>2 DEF TimedOut
  <2> QED
    BY <2>3, <2>4, <2>5, <2>6, <2>7 DEF Clocked
<1>4. Truthful'
  BY <1>1 DEF Truthful
<1> QED
  BY <1>2, <1>3, <1>4 DEF CommandInv

(* One turn of wait's loop after its answer. *)
LEMMA CommandInvJudge ==
  ASSUME CommandInv, Judge, FlowsTyped', OneFrontEnd'
  PROVE  CommandInv'
<1> USE TimingAssumption
<1>1. CommandTyped /\ Clocked /\ Truthful
  BY DEF CommandInv
<1>2. /\ cmd.at = "answered" /\ InWait /\ cmd.flow \in Flow
      /\ UNCHANGED <<elapsed, over, flows, known>>
  BY <1>1 DEF Judge, KeepsTime, clusterVars, CommandTyped, InWait
<1>3. CASE cmd.seen = "SUCCEEDED" /\ Exits(0, "over")
  <2>1. cmd' = [cmd EXCEPT !.at = "exited", !.exit = 0, !.why = "over"]
    BY <1>3 DEF Exits
  <2>2. CommandTyped'
    BY <1>1, <1>2, <2>1 DEF CommandTyped, InWait
  <2>3. Clocked' /\ Truthful'
    BY <1>1, <1>2, <1>3, <2>1 DEF CommandTyped, Clocked, Running, Asleep,
           Asking, Answered, TimedOut, Truthful, InWait, Terminal
  <2> QED
    BY <2>2, <2>3 DEF CommandInv
<1>4. CASE cmd.seen \in {"FAILED", "CANCELLED"} /\ Exits(2, "over")
  <2>1. cmd' = [cmd EXCEPT !.at = "exited", !.exit = 2, !.why = "over"]
    BY <1>4 DEF Exits
  <2>2. CommandTyped'
    BY <1>1, <1>2, <2>1 DEF CommandTyped, InWait
  <2>3. Clocked' /\ Truthful'
    BY <1>1, <1>2, <1>4, <2>1 DEF CommandTyped, Clocked, Running, Asleep,
           Asking, Answered, TimedOut, Truthful, InWait, Terminal
  <2> QED
    BY <2>2, <2>3 DEF CommandInv
<1>5. CASE /\ cmd.seen \notin Terminal
           /\ cmd.limit # NoTimeout /\ elapsed >= cmd.limit
           /\ Exits(1, "timeout")
  <2>1. cmd' = [cmd EXCEPT !.at = "exited", !.exit = 1, !.why = "timeout"]
    BY <1>5 DEF Exits
  <2>2. CommandTyped'
    BY <1>1, <1>2, <2>1 DEF CommandTyped, InWait
  <2>3. cmd.limit \in Nat /\ cmd.left \in Nat /\ elapsed \in Nat /\ over \in Nat
    BY <1>1, <1>5 DEF CommandTyped
  <2>4. /\ elapsed + cmd.left + 1 <= cmd.limit + Poll + Patience
        /\ over + cmd.left <= Patience
    BY <1>1, <1>2, <1>5 DEF Clocked, Running, Asleep, Asking, Answered, TimedOut
  <2>5. elapsed >= cmd.limit /\ elapsed + 1 <= cmd.limit + Poll + Patience /\ over <= Patience
    BY <1>5, <2>3, <2>4
  <2>6. Clocked' /\ Truthful'
    BY <1>1, <1>2, <2>1, <2>3, <2>5 DEF CommandTyped, Clocked, Running, Asleep, Asking, Answered, TimedOut, Truthful, InWait
  <2> QED
    BY <2>2, <2>6 DEF CommandInv
<1>6. CASE /\ cmd.seen \notin Terminal
           /\ ~ (cmd.limit # NoTimeout /\ elapsed >= cmd.limit)
           /\ cmd' = [cmd EXCEPT !.at = "sleep", !.left = Poll]
  <2>1. CommandTyped'
    BY <1>1, <1>2, <1>6 DEF CommandTyped, InWait
  <2>2. over + cmd.left <= Patience /\ cmd.left \in Nat /\ over \in Nat /\ elapsed \in Nat
    BY <1>1, <1>2, <1>6 DEF Clocked, Running, Asleep, Asking, Answered, TimedOut, CommandTyped
  <2>3. ASSUME cmd.limit # NoTimeout
        PROVE  elapsed + Poll + 1 <= cmd.limit + Poll
    <3>1. cmd.limit \in Nat
      BY <1>1, <2>3 DEF CommandTyped
    <3>2. elapsed < cmd.limit
      BY <1>6, <2>2, <2>3, <3>1
    <3> QED
      BY <2>2, <3>1, <3>2
  <2>4. /\ cmd'.at = "sleep" /\ cmd'.left = Poll /\ cmd'.limit = cmd.limit
        /\ cmd'.flow = cmd.flow /\ cmd'.why = "none"
    BY <1>1, <1>2, <1>6 DEF CommandTyped
  <2>5. Clocked' /\ Truthful'
    BY <1>1, <1>2, <2>2, <2>3, <2>4 DEF Clocked, Running, Asleep, Asking, Answered, TimedOut, Truthful, InWait
  <2> QED
    BY <2>1, <2>5 DEF CommandInv
<1> QED
  BY <1>3, <1>4, <1>5, <1>6 DEF Judge

(* The clock ticks within a request or a sleep. *)
LEMMA CommandInvTick ==
  ASSUME CommandInv, Tick, FlowsTyped', OneFrontEnd'
  PROVE  CommandInv'
<1> USE TimingAssumption
<1>1. CommandTyped /\ Clocked /\ Truthful
  BY DEF CommandInv
<1>2. /\ InWait /\ cmd.flow \in Flow /\ cmd.left \in Nat /\ cmd.left > 0
      /\ cmd' = [cmd EXCEPT !.left = @ - 1]
      /\ UNCHANGED <<flows, known>>
      /\ elapsed \in Nat /\ over \in Nat
  BY <1>1 DEF Tick, clusterVars, CommandTyped, InWait
<1>3. elapsed' \in Nat /\ elapsed' <= elapsed + 1
  BY <1>2 DEF Tick, Later
<1>4. /\ over' \in Nat /\ over' <= over + 1
      /\ over' > 0 => flows[cmd.flow] \in Terminal
  BY <1>2 DEF Tick, Later
<1>5. /\ cmd'.at = cmd.at /\ cmd'.flow = cmd.flow /\ cmd'.seen = cmd.seen
      /\ cmd'.limit = cmd.limit /\ cmd'.exit = cmd.exit /\ cmd'.why = cmd.why
      /\ cmd'.left = cmd.left - 1
  BY <1>1, <1>2 DEF CommandTyped
<1>11. cmd'.left \in Nat
  BY <1>2, <1>5
<1>6. CommandTyped'
  BY <1>1, <1>2, <1>3, <1>4, <1>5 DEF CommandTyped, InWait
<1>7. cmd.why = "none" /\ (cmd.limit # NoTimeout => cmd.limit \in Nat)
  BY <1>1, <1>2 DEF CommandTyped, InWait
<1>8. /\ over' + cmd'.left <= over + cmd.left
      /\ elapsed' + cmd'.left + 1 <= elapsed + cmd.left + 1
  BY <1>2, <1>3, <1>4, <1>5
<1>9. Clocked'
  BY <1>1, <1>2, <1>3, <1>4, <1>5, <1>7, <1>8 DEF Clocked, Running, Asleep, Asking, Answered, TimedOut, InWait
<1>10. Truthful'
  BY <1>1, <1>2, <1>5 DEF Truthful, InWait
<1> QED
  BY <1>6, <1>9, <1>10 DEF CommandInv

LEMMA CommandInvCommand ==
  ASSUME CommandInv, Command, ~ IsOpen, UNCHANGED dashVars
  PROVE  CommandInv'
<1> USE FlowAssumption, TimingAssumption
<1>0. OneFrontEnd'
  BY DEF OneFrontEnd, IsOpen, dashVars
<1>1. FlowsTyped /\ CommandTyped /\ Clocked /\ Truthful
  BY DEF CommandInv
<1>2. ClusterStep
  BY DEF Command, CommandSubmit, CommandWait, CommandCancel, Answer, Judge, Wake,
         GivesUp, Interrupt, Reap, Tick, Refused, Unreachable, ClusterStep
<1>3. FlowsTyped'
  BY <1>1, <1>2, ClusterStepKeepsEnds
<1>4. CASE CommandSubmit
  BY <1>0, <1>1, <1>3, <1>4, CommandInvExits, CommandInvWaits
  DEF CommandSubmit, CommandTyped, Refused, Unreachable
<1>5. CASE CommandWait
  BY <1>0, <1>3, <1>5, CommandInvWaits DEF CommandWait
<1>6. CASE CommandCancel
  BY <1>0, <1>1, <1>3, <1>6, CommandInvExits
  DEF CommandCancel, CommandTyped, Refused, Unreachable
<1>7. CASE Answer
  <2>1. CASE cmd.flow \in known
    <3>1. /\ cmd.at = "poll" /\ cmd.flow \in Flow
          /\ cmd' = [cmd EXCEPT !.at = "answered", !.seen = flows[cmd.flow]]
          /\ UNCHANGED <<elapsed, over, flows, known>>
      BY <1>1, <1>7, <2>1 DEF Answer, KeepsTime, clusterVars, CommandTyped, InWait
    <3>2. CommandTyped'
      BY <1>1, <3>1 DEF CommandTyped, InWait, FlowsTyped
    <3>3. /\ cmd'.at = "answered" /\ cmd'.seen = flows[cmd.flow] /\ cmd'.flow = cmd.flow
          /\ cmd'.left = cmd.left /\ cmd'.limit = cmd.limit /\ cmd'.why = "none"
          /\ cmd.left \in Nat /\ over \in Nat
      BY <1>1, <3>1 DEF CommandTyped
    <3>4. cmd'.seen \notin Terminal => over + cmd.left <= Patience
      BY <1>1, <3>1, <3>3 DEF Clocked, Running, Asleep, Asking, Answered, TimedOut, InWait
    <3>5. Clocked' /\ Truthful'
      BY <1>1, <3>1, <3>3, <3>4 DEF Clocked, Running, Asleep, Asking, Answered, TimedOut, Truthful, InWait
    <3> QED
      BY <1>0, <1>3, <3>2, <3>5 DEF CommandInv
  <2>2. CASE cmd.flow \notin known
    BY <1>0, <1>3, <1>7, <2>2, CommandInvExits DEF Answer, clusterVars
  <2> QED
    BY <2>1, <2>2
<1>8. CASE Judge
  BY <1>0, <1>3, <1>8, CommandInvJudge
<1>9. CASE Wake
  <2>1. /\ cmd.at = "sleep" /\ cmd.left = 0 /\ InWait /\ cmd.flow \in Flow
        /\ cmd' = [cmd EXCEPT !.at = "poll", !.left = Patience]
        /\ UNCHANGED <<elapsed, over, flows, known>>
    BY <1>1, <1>9 DEF Wake, KeepsTime, clusterVars, CommandTyped, InWait
  <2>2. CommandTyped'
    BY <1>1, <2>1 DEF CommandTyped, InWait
  <2>3. /\ cmd'.at = "poll" /\ cmd'.left = Patience /\ cmd'.flow = cmd.flow
        /\ cmd'.limit = cmd.limit /\ cmd'.why = "none"
        /\ elapsed \in Nat /\ over \in Nat
        /\ cmd.limit # NoTimeout => cmd.limit \in Nat
    BY <1>1, <2>1 DEF CommandTyped
  <2>4. Clocked' /\ Truthful'
    BY <1>1, <2>1, <2>3 DEF Clocked, Running, Asleep, Asking, Answered, TimedOut, Truthful, InWait
  <2> QED
    BY <1>0, <1>3, <2>2, <2>4 DEF CommandInv
<1>10. CASE GivesUp \/ Interrupt
  BY <1>0, <1>3, <1>10, CommandInvExits DEF GivesUp, Interrupt, Unreachable
<1>11. CASE Reap
  <2>1. /\ cmd' = NoCommand
        /\ elapsed' = 0 /\ over' = 0
    BY <1>11 DEF Reap
  <2>2. NoCommand.at = "none" /\ NoCommand.flow = NoFlow /\ NoCommand.why = "none"
    BY DEF NoCommand
  <2>3. CommandTyped'
    BY <2>1 DEF NoCommand, CommandTyped, InWait, FlowState
  <2>4. Clocked' /\ Truthful'
    BY <2>1, <2>2 DEF Clocked, Running, Asleep, Asking, Answered, TimedOut, Truthful, InWait
  <2> QED
    BY <1>0, <1>3, <2>3, <2>4 DEF CommandInv
<1>12. CASE Tick
  BY <1>0, <1>3, <1>12, CommandInvTick
<1> QED
  BY <1>4, <1>5, <1>6, <1>7, <1>8, <1>9, <1>10, <1>11, <1>12 DEF Command

-----------------------------------------------------------------------------
(* The window. *)

Steps == {"docker", "up", "down", "ready", "stop", "logs", "submit", "follow", "finally"}

(* What a thread may have left to do: after a submission only following it. *)
Orderly(s) == /\ s \in Seq(Steps)
              /\ \A i \in 1..Len(s) :
                   s[i] = "submit" => Len(s) = i + 1 /\ s[i + 1] = "follow"

LEMMA OrderlyTail ==
  ASSUME NEW s, Orderly(s), s # <<>>
  PROVE  /\ Orderly(Tail(s))
         /\ Len(s) = 1 => Tail(s) = <<>>
         /\ Head(s) = "submit" => Len(Tail(s)) = 1 /\ Tail(s)[1] = "follow"
<1>0. /\ s \in Seq(Steps) /\ Len(s) \in Nat \ {0}
      /\ Tail(s) \in Seq(Steps) /\ Len(Tail(s)) = Len(s) - 1
  BY DEF Orderly
<1>1. Head(s) = s[1] /\ \A i \in 1..Len(Tail(s)) : Tail(s)[i] = s[i + 1]
  BY <1>0, HeadTailProperties
<1>6. \A i \in 1..Len(s) : s[i] = "submit" => Len(s) = i + 1 /\ s[i + 1] = "follow"
  BY Zenon DEF Orderly
<1>2. ASSUME NEW i \in 1..Len(Tail(s)), Tail(s)[i] = "submit"
      PROVE  Len(Tail(s)) = i + 1 /\ Tail(s)[i + 1] = "follow"
  <2>1. i + 1 \in 1..Len(s) /\ s[i + 1] = "submit"
    BY <1>0, <1>1, <1>2
  <2>2. Len(s) = (i + 1) + 1 /\ s[(i + 1) + 1] = "follow"
    BY <1>6, <2>1
  <2> QED
    BY <1>0, <1>1, <2>2
<1>3. Orderly(Tail(s))
  BY <1>0, <1>2, Zenon DEF Orderly
<1>4. Len(s) = 1 => Tail(s) = <<>>
  <2>1. Len(s) = 1 => Len(Tail(s)) = 0
    BY <1>0
  <2> QED
    BY <1>0, <2>1, EmptySeq, Zenon
<1>5. ASSUME Head(s) = "submit"
      PROVE  Len(Tail(s)) = 1 /\ Tail(s)[1] = "follow"
  <2>1. 1 \in 1..Len(s) /\ s[1] = "submit"
    BY <1>0, <1>1, <1>5
  <2>2. Len(s) = 1 + 1 /\ s[1 + 1] = "follow"
    BY <1>6, <2>1
  <2>3. Len(Tail(s)) = 1
    BY <1>0, <2>2
  <2> QED
    BY <1>1, <2>2, <2>3
<1> QED
  BY <1>3, <1>4, <1>5, Zenon

LEMMA WorkOrderly ==
  ASSUME NEW button \in Buttons
  PROVE  Orderly(Work(button))
<1>1. CASE button = "run"
  <2> DEFINE w == <<"docker", "up", "ready", "submit", "follow">>
  <2>1. w \in Seq(Steps) /\ Len(w) = 5
    BY DEF Steps
  <2>2. w[1] = "docker" /\ w[2] = "up" /\ w[3] = "ready" /\ w[4] = "submit" /\ w[5] = "follow"
    OBVIOUS
  <2> HIDE DEF w
  <2>3. Orderly(w)
    BY <2>1, <2>2 DEF Orderly
  <2> QED
    BY <1>1, <2>3 DEF Work, w
<1>2. CASE button = "start"
  <2> DEFINE w == <<"docker", "up", "ready">>
  <2>1. w \in Seq(Steps) /\ Len(w) = 3
    BY DEF Steps
  <2>2. w[1] = "docker" /\ w[2] = "up" /\ w[3] = "ready"
    OBVIOUS
  <2> HIDE DEF w
  <2>3. Orderly(w)
    BY <2>1, <2>2 DEF Orderly
  <2> QED
    BY <1>2, <2>3 DEF Work, w
<1>3. CASE button = "restart"
  <2> DEFINE w == <<"docker", "down", "up">>
  <2>1. w \in Seq(Steps) /\ Len(w) = 3
    BY DEF Steps
  <2>2. w[1] = "docker" /\ w[2] = "down" /\ w[3] = "up"
    OBVIOUS
  <2> HIDE DEF w
  <2>3. Orderly(w)
    BY <2>1, <2>2 DEF Orderly
  <2> QED
    BY <1>3, <2>3 DEF Work, w
<1>4. CASE button = "stop"
  <2> DEFINE w == <<"stop">>
  <2>1. w \in Seq(Steps) /\ Len(w) = 1
    BY DEF Steps
  <2>2. w[1] = "stop"
    OBVIOUS
  <2> HIDE DEF w
  <2>3. Orderly(w)
    BY <2>1, <2>2 DEF Orderly
  <2> QED
    BY <1>4, <2>3 DEF Work, w
<1>5. CASE button = "logs"
  <2> DEFINE w == <<"logs">>
  <2>1. w \in Seq(Steps) /\ Len(w) = 1
    BY DEF Steps
  <2>2. w[1] = "logs"
    OBVIOUS
  <2> HIDE DEF w
  <2>3. Orderly(w)
    BY <2>1, <2>2 DEF Orderly
  <2> QED
    BY <1>5, <2>3 DEF Work, w
<1> QED
  BY <1>1, <1>2, <1>3, <1>4, <1>5 DEF Buttons

(* A thread that knows its workflow follows it, or has seen it succeed. *)
JobOK(job) ==
  /\ job \in [todo : Seq(Steps), flow : Flow \cup {NoFlow}]
  /\ Orderly(job.todo)
  /\ job.flow # NoFlow =>
       \/ Len(job.todo) = 1 /\ job.todo[1] = "follow"
       \/ job.todo = <<>> /\ flows[job.flow] = "SUCCEEDED"

Reports == [kind : {"success", "error", "idle", "probe"},
            of   : Flow \cup {NoFlow} \cup Prober]

Told(event) == event.kind = "success" /\ event.of # NoFlow =>
                 event.of \in Flow /\ flows[event.of] = "SUCCEEDED"

QueueOK == queue \in Seq(Reports) /\ \A i \in 1..Len(queue) : Told(queue[i])

WindowInv == (\A job \in jobs : JobOK(job)) /\ QueueOK

LEMMA JobKept ==
  ASSUME EndsKept, NEW job, JobOK(job)
  PROVE  JobOK(job)'
BY DEF JobOK, EndsKept, Terminal

LEMMA ToldKept ==
  ASSUME EndsKept, NEW event, Told(event)
  PROVE  Told(event)'
BY DEF Told, EndsKept, Terminal

LEMMA QueueKept ==
  ASSUME EndsKept, QueueOK,
         \/ UNCHANGED queue
         \/ queue # <<>> /\ queue' = Tail(queue)
         \/ queue' = <<>>
         \/ \E event \in Reports : Told(event)' /\ queue' = Append(queue, event)
  PROVE  QueueOK'
<1>1. queue \in Seq(Reports) /\ Len(queue) \in Nat
  BY DEF QueueOK
<1>2. \A i \in 1..Len(queue) : Told(queue[i])
  BY DEF QueueOK
<1>3. \A event : Told(event) => Told(event)'
  BY ToldKept
<1>4. CASE UNCHANGED queue
  BY <1>1, <1>2, <1>3, <1>4 DEF QueueOK
<1>5. CASE queue # <<>> /\ queue' = Tail(queue)
  <2>1. /\ queue' \in Seq(Reports) /\ Len(queue') = Len(queue) - 1
        /\ \A i \in 1..Len(queue') : queue'[i] = queue[i + 1]
    BY <1>1, <1>5, HeadTailProperties
  <2>2. ASSUME NEW i \in 1..Len(queue') PROVE i + 1 \in 1..Len(queue)
    BY <1>1, <2>1
  <2>3. ASSUME NEW event, NEW i \in 1..Len(queue'), event = queue'[i]
        PROVE  Told(event)'
    BY <1>2, <1>3, <2>1, <2>2, <2>3
  <2> QED
    BY <2>1, <2>3 DEF QueueOK
<1>6. CASE queue' = <<>>
  BY <1>6 DEF QueueOK
<1>7. CASE \E event \in Reports : Told(event)' /\ queue' = Append(queue, event)
  <2>1. PICK event \in Reports : Told(event)' /\ queue' = Append(queue, event)
    BY <1>7
  <2>2. /\ queue' \in Seq(Reports) /\ Len(queue') = Len(queue) + 1
        /\ \A i \in 1..Len(queue) : queue'[i] = queue[i]
        /\ queue'[Len(queue) + 1] = event
    BY <1>1, <2>1, AppendProperties
  <2>3. ASSUME NEW e, NEW i \in 1..Len(queue'), e = queue'[i]
        PROVE  Told(e)'
    <3>1. CASE i \in 1..Len(queue)
      BY <1>2, <1>3, <2>2, <2>3, <3>1
    <3>2. CASE i \notin 1..Len(queue)
      <4>1. i = Len(queue) + 1
        BY <1>1, <2>2, <3>2
      <4> QED
        BY <2>1, <2>2, <2>3, <4>1
    <3> QED
      BY <3>1, <3>2
  <2> QED
    BY <2>2, <2>3 DEF QueueOK
<1> QED
  BY <1>4, <1>5, <1>6, <1>7

(* What one step of a thread makes of it and of the queue. *)
Replaced(job) ==
  \E other : JobOK(other)' /\ Becomes(job, other)

Reported ==
  \/ UNCHANGED queue
  \/ \E event \in Reports : Told(event)' /\ queue' = Append(queue, event)

LEMMA ConcludesError ==
  ASSUME NEW job, JobOK(job), Concludes(job, "error")
  PROVE  Replaced(job) /\ Reported
<1> DEFINE other == [todo |-> <<"finally">>, flow |-> NoFlow]
           event == Event("error", job.flow)
<1>1. other.todo \in Seq(Steps) /\ Len(other.todo) = 1 /\ other.todo[1] = "finally"
  BY DEF Steps
<1>2. Orderly(other.todo)
  BY <1>1 DEF Orderly
<1>3. JobOK(other)'
  BY <1>1, <1>2 DEF JobOK, Orderly, Steps
<1>4. event \in Reports /\ Told(event)'
  BY DEF Event, Reports, Told, JobOK
<1> QED
  BY <1>3, <1>4 DEF Concludes, Put, Replaced, Reported

LEMMA ShorterRecord ==
  ASSUME NEW job, JobOK(job)
  PROVE  [job EXCEPT !.todo = Tail(@)] = [todo |-> Tail(job.todo), flow |-> job.flow]
<1> DEFINE rest == Tail(job.todo)
<1>1. job \in [todo : Seq(Steps), flow : Flow \cup {NoFlow}]
  BY DEF JobOK
<1>2. [job EXCEPT !.todo = Tail(@)] = [job EXCEPT !.todo = rest]
  OBVIOUS
<1>3. \A new : [job EXCEPT !.todo = new] = [todo |-> new, flow |-> job.flow]
  BY <1>1
<1>4. [job EXCEPT !.todo = rest] = [todo |-> rest, flow |-> job.flow]
  BY <1>3
<1> QED
  BY <1>2, <1>4

LEMMA ProceedsUnaware ==
  ASSUME NEW job, JobOK(job), NEW step, Doing(job, step), step # "follow", Proceeds(job)
  PROVE  Replaced(job)
<1> DEFINE other == [job EXCEPT !.todo = Tail(@)]
<1>1. job.todo # <<>> /\ Head(job.todo) = step /\ job.todo \in Seq(Steps)
  BY DEF Doing, JobOK
<1>2. job.flow = NoFlow
  BY <1>1 DEF JobOK
<1>3. other = [todo |-> Tail(job.todo), flow |-> NoFlow]
  BY <1>2, ShorterRecord
<1>4. Orderly(Tail(job.todo))
  BY <1>1, OrderlyTail DEF JobOK
<1>5. JobOK([todo |-> Tail(job.todo), flow |-> NoFlow])'
  BY <1>4 DEF JobOK, Orderly
<1> QED
  BY <1>3, <1>5 DEF Proceeds, Replaced

LEMMA JobStepKeeps ==
  ASSUME FlowsTyped, FlowsTyped', EndsKept, WindowInv, JobStep
  PROVE  WindowInv'
<1>1. PICK job \in jobs :
        \/ WaitForDocker(job) \/ BringUp(job) \/ BringDown(job) \/ WaitForCoordinator(job)
        \/ Submit(job) \/ Follow(job) \/ ReadLogs(job) \/ Returns(job) \/ Finally(job)
  BY DEF JobStep
<1>2. JobOK(job)
  BY DEF WindowInv
<1>3. ASSUME Replaced(job) /\ Reported
      PROVE  WindowInv'
  <2>1. \A j \in jobs : JobOK(j)'
    BY JobKept DEF WindowInv
  <2>2. \A j \in jobs' : JobOK(j)'
    BY <1>3, <2>1 DEF Replaced, Becomes
  <2>3. QueueOK'
    BY <1>3, QueueKept DEF Reported, WindowInv
  <2> QED
    BY <2>2, <2>3 DEF WindowInv
<1>4. CASE Concludes(job, "error")
  BY <1>2, <1>3, <1>4, ConcludesError
<1>5. CASE WaitForDocker(job)
  BY <1>2, <1>3, <1>4, <1>5, ProceedsUnaware DEF WaitForDocker, Raises, Reported
<1>6. CASE BringUp(job)
  BY <1>2, <1>3, <1>4, <1>6, ProceedsUnaware DEF BringUp, Raises, Reported
<1>7. CASE BringDown(job)
  BY <1>2, <1>3, <1>4, <1>7, ProceedsUnaware DEF BringDown, Raises, Reported
<1>8. CASE WaitForCoordinator(job)
  BY <1>2, <1>3, <1>4, <1>8, ProceedsUnaware DEF WaitForCoordinator, Raises, Reported
<1>9. CASE ReadLogs(job)
  BY <1>2, <1>3, <1>4, <1>9, ProceedsUnaware DEF ReadLogs, Raises, Reported
<1>10. CASE Submit(job) /\ ~ Concludes(job, "error")
  <2>1. PICK f \in Flow : Becomes(job, [todo |-> Tail(job.todo), flow |-> f])
    BY <1>10 DEF Submit, Raises
  <2>2. job.todo # <<>> /\ Head(job.todo) = "submit" /\ Orderly(job.todo)
    BY <1>2, <1>10 DEF Submit, Doing, JobOK
  <2>3. /\ Orderly(Tail(job.todo))
        /\ Len(Tail(job.todo)) = 1 /\ Tail(job.todo)[1] = "follow"
    BY <2>2, OrderlyTail
  <2>4. JobOK([todo |-> Tail(job.todo), flow |-> f])'
    BY <2>3 DEF JobOK, Orderly
  <2> QED
    BY <1>3, <1>10, <2>1, <2>4 DEF Submit, Raises, Replaced, Reported
<1>11. CASE Follow(job) /\ ~ Concludes(job, "error")
  <2>1. /\ job.todo # <<>> /\ Head(job.todo) = "follow" /\ Orderly(job.todo)
        /\ job.flow \in Flow /\ flows'[job.flow] = "SUCCEEDED"
        /\ Proceeds(job) /\ UNCHANGED queue
    BY <1>2, <1>11 DEF Follow, Raises, Doing, JobOK, FlowsTyped, EndsKept, Terminal
  <2>2. job.flow # NoFlow /\ Len(job.todo) = 1
    BY <1>2, <2>1, FlowAssumption, EmptySeq DEF JobOK
  <2>3. Tail(job.todo) = <<>> /\ Orderly(Tail(job.todo))
    BY <2>1, <2>2, OrderlyTail
  <2>4. [job EXCEPT !.todo = Tail(@)] = [todo |-> <<>>, flow |-> job.flow]
    BY <1>2, <2>3, ShorterRecord
  <2>5. JobOK([todo |-> <<>>, flow |-> job.flow])'
    BY <2>1, <2>3 DEF JobOK, Orderly
  <2> QED
    BY <1>3, <2>1, <2>4, <2>5 DEF Proceeds, Replaced, Reported
<1>12. CASE Returns(job)
  <2> DEFINE other == [todo |-> <<"finally">>, flow |-> NoFlow]
             event == Event("success", job.flow)
  <2>1. JobOK(other)'
    BY DEF JobOK, Orderly, Steps
  <2>2. event \in Reports /\ Told(event)'
    BY <1>2, <1>12 DEF Event, Reports, Told, JobOK, Returns, EndsKept, Terminal
  <2> QED
    BY <1>3, <1>12, <2>1, <2>2 DEF Returns, Concludes, Put, Replaced, Reported
<1>13. CASE Finally(job)
  <2>1. Event("idle", NoFlow) \in Reports /\ Told(Event("idle", NoFlow))'
    BY DEF Event, Reports, Told
  <2>2. QueueOK'
    BY <1>13, <2>1, QueueKept DEF Finally, Put, WindowInv
  <2> QED
    BY <1>13, <2>2, JobKept DEF Finally, WindowInv
<1> QED
  BY <1>1, <1>4, <1>5, <1>6, <1>7, <1>8, <1>9, <1>10, <1>11, <1>12, <1>13

-----------------------------------------------------------------------------
(* Every step of the specification, the window's first. *)

LEMMA WindowStepKeeps ==
  ASSUME FlowsTyped, FlowsTyped', EndsKept, WindowInv, [Next]_vars
  PROVE  WindowInv'
<1>1. \A job : JobOK(job) => JobOK(job)'
  BY JobKept
<1>2. CASE UNCHANGED jobs /\ (UNCHANGED queue \/ (queue # <<>> /\ queue' = Tail(queue)))
  BY <1>1, <1>2, QueueKept DEF WindowInv
<1>3. CASE \E button \in Buttons : Background(button)
  <2>1. PICK button \in Buttons : Background(button)
    BY <1>3
  <2>2. JobOK([todo |-> Work(button), flow |-> NoFlow])'
    BY WorkOrderly DEF JobOK, Orderly
  <2> QED
    BY <1>1, <2>1, <2>2, QueueKept DEF Background, WindowInv
<1>4. CASE Close
  BY <1>4, QueueKept DEF Close, WindowInv
<1>5. CASE JobStep
  BY <1>5, JobStepKeeps
<1>6. CASE \E p \in Prober : Threads(p)
  <2>1. PICK p \in Prober : Probe(p)
    BY <1>6 DEF Threads
  <2>2. Event("probe", p) \in Reports /\ Told(Event("probe", p))'
    BY DEF Event, Reports, Told
  <2>3. UNCHANGED queue \/ queue' = Append(queue, Event("probe", p))
    BY <2>1 DEF Probe, Put
  <2> QED
    BY <1>1, <2>1, <2>2, <2>3, QueueKept DEF Probe, WindowInv
<1>7. UNCHANGED vars => UNCHANGED <<jobs, queue>>
  BY DEF vars, dashVars
<1>8. UNCHANGED dashVars => UNCHANGED <<jobs, queue>>
  BY DEF dashVars
<1> QED
  BY <1>2, <1>3, <1>4, <1>5, <1>6, <1>7, <1>8
  DEF Next, Clicks, Working, Polling, Timer, PollEvents, PeriodicRefresh, Open, RefreshTree,
      CancelSelected

LEMMA StepsOfTheCluster ==
  ASSUME FlowsTyped, Next, ~ (~ IsOpen /\ Command /\ UNCHANGED dashVars)
  PROVE  /\ ClusterStep /\ UNCHANGED cmdVars
         /\ IsOpen \/ known' \subseteq known
         /\ IsOpen' => IsOpen \/ cmd.at = "none"
<1>1. CASE ClusterMoves /\ UNCHANGED <<dashVars, cmdVars>>
  <2>1. known' \subseteq known
    BY <1>1 DEF ClusterMoves, DockerStarts, DockerStops, ComesOnline, Crashes, Finishes,
                GoesOffline
  <2> QED
    BY <1>1, <2>1 DEF ClusterStep, dashVars, IsOpen
<1>2. CASE Clicks /\ UNCHANGED clusterVars /\ AtTheWindow
  BY <1>2 DEF ClusterStep, clusterVars, AtTheWindow
<1>3. CASE CancelSelected /\ AtTheWindow
  <2>1. PICK f \in listed : Cancels(f)
    BY <1>3 DEF CancelSelected
  <2>2. ClusterStep /\ UNCHANGED known
    BY <2>1 DEF Cancels, ClusterStep, FlowsTyped
  <2> QED
    BY <1>3, <2>2 DEF CancelSelected, AtTheWindow, IsOpen
<1>4. CASE Working
  <2>1. PICK job \in jobs :
          \/ WaitForDocker(job) \/ BringUp(job) \/ BringDown(job) \/ WaitForCoordinator(job)
          \/ Submit(job) \/ Follow(job) \/ ReadLogs(job) \/ Returns(job) \/ Finally(job)
    BY <1>4 DEF Working, JobStep
  <2>2. ClusterStep
    BY <2>1 DEF WaitForDocker, BringUp, BringDown, WaitForCoordinator, Submit, Follow,
                ReadLogs, Returns, Finally, Raises, ClusterStep
  <2> QED
    BY <1>4, <2>2 DEF Working, JobStep, IsOpen
<1>5. CASE Polling \/ Timer \/ \E p \in Prober : Threads(p)
  BY <1>5 DEF Polling, Timer, Threads, PollEvents, PeriodicRefresh, Probe, ClusterStep,
              clusterVars, IsOpen
<1> QED
  BY <1>1, <1>2, <1>3, <1>4, <1>5 DEF Next

Inv == CommandInv /\ WindowInv

LEMMA InvInit ==
  ASSUME Init
  PROVE  Inv
<1>1. FlowsTyped /\ OneFrontEnd
  BY DEF Init, ClusterInit, DashboardInit, FlowsTyped, FlowState, OneFrontEnd, IsOpen
<1>2. cmd = NoCommand /\ elapsed = 0 /\ over = 0
  BY DEF Init, CommandInit
<1>3. NoCommand.at = "none" /\ NoCommand.flow = NoFlow /\ NoCommand.why = "none"
  BY DEF NoCommand
<1>4. CommandTyped
  BY <1>2 DEF NoCommand, CommandTyped, InWait, FlowState
<1>5. Clocked /\ Truthful
  BY <1>2, <1>3 DEF Clocked, Running, Asleep, Asking, Answered, TimedOut, Truthful, InWait
<1>6. WindowInv
  BY DEF Init, DashboardInit, WindowInv, QueueOK
<1> QED
  BY <1>1, <1>4, <1>5, <1>6 DEF Inv, CommandInv

LEMMA InvNext ==
  ASSUME Inv, [Next]_vars
  PROVE  Inv'
<1>1. CommandInv /\ WindowInv /\ FlowsTyped /\ OneFrontEnd
  BY DEF Inv, CommandInv
<1>2. CASE ~ IsOpen /\ Command /\ UNCHANGED dashVars
  <2>1. CommandInv'
    BY <1>1, <1>2, CommandInvCommand
  <2>2. ClusterStep
    BY <1>2 DEF Command, CommandSubmit, CommandWait, CommandCancel, Answer, Judge, Wake,
                GivesUp, Interrupt, Reap, Tick, Refused, Unreachable, ClusterStep
  <2>3. FlowsTyped' /\ EndsKept
    BY <1>1, <2>2, ClusterStepKeepsEnds
  <2> QED
    BY <1>1, <2>1, <2>3, WindowStepKeeps DEF Inv
<1>3. CASE Next /\ ~ (~ IsOpen /\ Command /\ UNCHANGED dashVars)
  <2>1. /\ ClusterStep /\ UNCHANGED cmdVars
        /\ IsOpen \/ known' \subseteq known
        /\ IsOpen' => IsOpen \/ cmd.at = "none"
    BY <1>1, <1>3, StepsOfTheCluster
  <2>2. CommandInv'
    BY <1>1, <2>1, CommandInvOthers DEF OneFrontEnd
  <2>3. FlowsTyped' /\ EndsKept
    BY <1>1, <2>1, ClusterStepKeepsEnds
  <2> QED
    BY <1>1, <2>2, <2>3, WindowStepKeeps DEF Inv
<1>4. CASE UNCHANGED vars
  <2>1. ClusterStep /\ UNCHANGED cmdVars /\ UNCHANGED known /\ UNCHANGED window
    BY <1>4 DEF vars, ClusterStep, clusterVars, dashVars
  <2>2. CommandInv'
    BY <1>1, <2>1, CommandInvOthers DEF IsOpen
  <2>3. FlowsTyped' /\ EndsKept
    BY <1>1, <2>1, ClusterStepKeepsEnds
  <2> QED
    BY <1>1, <2>2, <2>3, WindowStepKeeps DEF Inv
<1> QED
  BY <1>2, <1>3, <1>4

(* The inductive invariant of the two front ends and the cluster. *)
THEOREM FrontendsInvariant == Spec => []Inv
BY InvInit, InvNext, PTL DEF Spec

(* What the front ends say of a workflow is true of it: no crash, cancellation
   or lost answer between the answer a thread or a command has read and the
   moment it reports makes the report wrong (run_workflow of the dashboard,
   wait of client.py with the exit codes of cli.py). *)
THEOREM FrontendsTellTheTruth == Spec => []SaysTheTruth
<1>1. Inv => SaysTheTruth
  <2> SUFFICES ASSUME Inv PROVE SaysTheTruth
    OBVIOUS
  <2>1. Truthful /\ QueueOK
    BY DEF Inv, CommandInv, WindowInv
  <2>2. DOMAIN queue = 1..Len(queue)
    BY <2>1 DEF QueueOK
  <2> QED
    BY <2>1, <2>2 DEF SaysTheTruth, Truthful, QueueOK, Told
<1> QED
  BY <1>1, FrontendsInvariant, PTL

(* wait notices the end of its workflow within a poll and two requests, and
   times out neither early nor more than a poll and a request late, for every
   timeout, poll interval and duration of a request (HelixClient.wait). *)
THEOREM WaitKeepsTime == Spec => []WaitIsPunctual
<1>1. Inv => WaitIsPunctual
  <2> SUFFICES ASSUME Inv PROVE WaitIsPunctual
    OBVIOUS
  <2>1. CommandTyped /\ Clocked
    BY DEF Inv, CommandInv
  <2>2. cmd.left \in Nat /\ over \in Nat /\ elapsed \in Nat
    BY <2>1 DEF CommandTyped
  <2>3. ASSUME InWait PROVE over <= Poll + 2 * Patience
    <3>1. CASE cmd.at = "sleep"
      BY <2>1, <2>2, <3>1, TimingAssumption DEF Clocked, Asleep
    <3>2. CASE cmd.at \in {"poll", "answered"}
      BY <2>1, <2>2, <3>2, TimingAssumption DEF Clocked, Asking
    <3> QED
      BY <2>3, <3>1, <3>2 DEF InWait
  <2>4. ASSUME cmd.why = "timeout"
        PROVE  /\ elapsed \in cmd.limit .. (cmd.limit + Poll + Patience - 1)
               /\ over <= Patience
    BY <2>1, <2>2, <2>4, TimingAssumption DEF Clocked, TimedOut
  <2> QED
    BY <2>3, <2>4 DEF WaitIsPunctual, InWait
<1> QED
  BY <1>1, FrontendsInvariant, PTL

-----------------------------------------------------------------------------
(* One action at a time: the window's Boolean, its threads and its queue. *)

HasIdle(q) == \E i \in DOMAIN q : q[i].kind = "idle"

(* What waits behind an idle event is probes; so there is one at most. *)
ProbesBehind(q) ==
  \A i, j \in DOMAIN q : q[i].kind = "idle" /\ i < j => q[j].kind = "probe"

OneAction ==
  /\ busy <=> jobs # {} \/ HasIdle(queue)
  /\ \A job, other \in jobs : job = other
  /\ jobs # {} => ~ HasIdle(queue)
  /\ ProbesBehind(queue)

LEMMA AppendIdle ==
  ASSUME NEW q \in Seq(Reports), NEW event \in Reports
  PROVE  /\ HasIdle(Append(q, event)) <=> HasIdle(q) \/ event.kind = "idle"
         /\ ProbesBehind(q) /\ (HasIdle(q) => event.kind = "probe")
              => ProbesBehind(Append(q, event))
<1> DEFINE a == Append(q, event)
<1>1. /\ Len(q) \in Nat
      /\ DOMAIN q = 1..Len(q)
      /\ DOMAIN a = 1..(Len(q) + 1)
      /\ \A i \in 1..Len(q) : a[i] = q[i]
      /\ a[Len(q) + 1] = event
  BY AppendProperties, LenProperties
<1> HIDE DEF a
<1>2. \A i \in DOMAIN a : i \in DOMAIN q \/ i = Len(q) + 1
  BY <1>1
<1>3. HasIdle(a) <=> HasIdle(q) \/ event.kind = "idle"
  BY <1>1, <1>2 DEF HasIdle
<1>4. ASSUME ProbesBehind(q), HasIdle(q) => event.kind = "probe",
             NEW i \in DOMAIN a, NEW j \in DOMAIN a, a[i].kind = "idle", i < j
      PROVE  a[j].kind = "probe"
  <2>1. i \in DOMAIN q
    BY <1>1, <1>4
  <2>2. CASE j \in DOMAIN q
    BY <1>1, <1>4, <2>1, <2>2 DEF ProbesBehind
  <2>3. CASE j = Len(q) + 1
    BY <1>1, <1>4, <2>1, <2>3 DEF HasIdle
  <2> QED
    BY <1>2, <2>2, <2>3
<1> QED
  BY <1>3, <1>4 DEF ProbesBehind, a

LEMMA TailIdle ==
  ASSUME NEW q \in Seq(Reports), q # <<>>, ProbesBehind(q)
  PROVE  /\ ProbesBehind(Tail(q))
         /\ Head(q).kind # "idle" => (HasIdle(Tail(q)) <=> HasIdle(q))
         /\ Head(q).kind = "idle" => HasIdle(q) /\ ~ HasIdle(Tail(q))
<1> DEFINE b == Tail(q)
<1>1. /\ Len(q) \in Nat \ {0}
      /\ DOMAIN q = 1..Len(q)
      /\ DOMAIN b = 1..(Len(q) - 1)
      /\ \A i \in DOMAIN b : b[i] = q[i + 1]
      /\ Head(q) = q[1]
  BY HeadTailProperties, LenProperties, EmptySeq
<1> HIDE DEF b
<1>2. \A i \in DOMAIN b : i + 1 \in DOMAIN q /\ 1 < i + 1 /\ i \in Nat
  BY <1>1
<1>3. \A i \in DOMAIN q : i = 1 \/ (i - 1 \in DOMAIN b /\ b[i - 1] = q[i])
  BY <1>1
<1>4. ProbesBehind(b)
  <2> SUFFICES ASSUME NEW i \in DOMAIN b, NEW j \in DOMAIN b,
                      b[i].kind = "idle", i < j
               PROVE  b[j].kind = "probe"
    BY DEF ProbesBehind
  <2>1. i + 1 < j + 1
    BY <1>2
  <2> QED
    BY <1>1, <1>2, <2>1 DEF ProbesBehind
<1>5. CASE Head(q).kind # "idle"
  <2>1. HasIdle(b) => HasIdle(q)
    BY <1>1, <1>2 DEF HasIdle
  <2>2. HasIdle(q) => HasIdle(b)
    BY <1>1, <1>3, <1>5 DEF HasIdle
  <2> QED
    BY <1>4, <1>5, <2>1, <2>2 DEF b
<1>6. CASE Head(q).kind = "idle"
  <2>1. 1 \in DOMAIN q
    BY <1>1
  <2>2. \A i \in DOMAIN b : b[i].kind = "probe"
    BY <1>1, <1>2, <1>6, <2>1 DEF ProbesBehind
  <2>3. HasIdle(q) /\ ~ HasIdle(b)
    BY <1>1, <1>6, <2>1, <2>2 DEF HasIdle
  <2> QED
    BY <1>4, <1>6, <2>3 DEF b
<1> QED
  BY <1>5, <1>6

LEMMA JobStepOneAction ==
  ASSUME WindowInv, OneAction, JobStep
  PROVE  OneAction'
<1>1. PICK job \in jobs :
        \/ WaitForDocker(job) \/ BringUp(job) \/ BringDown(job) \/ WaitForCoordinator(job)
        \/ Submit(job) \/ Follow(job) \/ ReadLogs(job) \/ Returns(job) \/ Finally(job)
  BY DEF JobStep
<1>2. /\ queue \in Seq(Reports)
      /\ job.flow \in Flow \cup {NoFlow}
      /\ busy' = busy
  BY DEF JobStep, Stays, WindowInv, QueueOK, JobOK
<1>3. busy /\ jobs = {job} /\ ~ HasIdle(queue) /\ ProbesBehind(queue)
  BY DEF OneAction
<1>4. CASE Finally(job)
  <2> DEFINE event == Event("idle", NoFlow)
  <2>1. event \in Reports /\ event.kind = "idle"
    BY DEF Event, Reports
  <2>2. queue' = Append(queue, event) /\ jobs' = {}
    BY <1>3, <1>4 DEF Finally, Put
  <2> HIDE DEF event
  <2>3. HasIdle(queue') /\ ProbesBehind(queue')
    BY <1>2, <1>3, <2>1, <2>2, AppendIdle
  <2> QED
    BY <1>2, <1>3, <2>2, <2>3 DEF OneAction
<1>5. CASE ~ Finally(job)
  <2>1. \E other : Becomes(job, other)
    BY <1>1, <1>5 DEF WaitForDocker, BringUp, BringDown, WaitForCoordinator, Submit,
       Follow, ReadLogs, Returns, Raises, Concludes, Proceeds
  <2>2. PICK other : jobs' = {other}
    BY <1>3, <2>1 DEF Becomes
  <2>3. \/ queue' = queue
        \/ \E kind \in {"success", "error"} : queue' = Append(queue, Event(kind, job.flow))
    BY <1>1, <1>5 DEF WaitForDocker, BringUp, BringDown, WaitForCoordinator, Submit,
       Follow, ReadLogs, Returns, Raises, Concludes, Put
  <2>4. ~ HasIdle(queue') /\ ProbesBehind(queue')
    <3>1. CASE queue' = queue
      BY <1>3, <3>1
    <3>2. ASSUME NEW kind \in {"success", "error"},
                 queue' = Append(queue, Event(kind, job.flow))
          PROVE  ~ HasIdle(queue') /\ ProbesBehind(queue')
      <4>1. Event(kind, job.flow) \in Reports /\ Event(kind, job.flow).kind # "idle"
        BY <1>2 DEF Event, Reports
      <4> QED
        BY <1>2, <1>3, <3>2, <4>1, AppendIdle
    <3> QED
      BY <2>3, <3>1, <3>2
  <2> QED
    BY <1>2, <1>3, <2>2, <2>4 DEF OneAction
<1> QED
  BY <1>4, <1>5

LEMMA NextOneAction ==
  ASSUME WindowInv, OneAction, [Next]_vars
  PROVE  OneAction'
<1>1. queue \in Seq(Reports)
  BY DEF WindowInv, QueueOK
<1>2. CASE UNCHANGED <<busy, jobs, queue>>
  BY <1>2 DEF OneAction
<1>3. CASE \E button \in Buttons : Background(button)
  <2>1. ~ busy /\ busy' = TRUE /\ queue' = queue
    BY <1>3 DEF Background
  <2>2. jobs = {} /\ ~ HasIdle(queue) /\ ProbesBehind(queue)
    BY <2>1 DEF OneAction
  <2>3. \E job : jobs' = {job}
    BY <1>3, <2>2 DEF Background
  <2> QED
    BY <2>1, <2>2, <2>3 DEF OneAction
<1>4. CASE Close
  BY <1>4 DEF Close, OneAction, HasIdle, ProbesBehind
<1>5. CASE JobStep
  BY <1>5, JobStepOneAction
<1>6. CASE \E p \in Prober : Threads(p)
  <2>1. PICK p \in Prober : Probe(p)
    BY <1>6 DEF Threads
  <2>2. busy' = busy /\ jobs' = jobs
    BY <2>1 DEF Probe
  <2>3. CASE queue' = queue
    BY <1>2, <2>2, <2>3
  <2>4. CASE queue' = Append(queue, Event("probe", p))
    <3>1. Event("probe", p) \in Reports /\ Event("probe", p).kind = "probe"
      BY DEF Event, Reports
    <3>2. (HasIdle(queue') <=> HasIdle(queue)) /\ ProbesBehind(queue')
      BY <1>1, <2>4, <3>1, AppendIdle DEF OneAction
    <3> QED
      BY <2>2, <3>2 DEF OneAction
  <2> QED
    BY <2>1, <2>3, <2>4 DEF Probe, Put
<1>7. CASE PollEvents
  <2>1. queue # <<>> /\ queue' = Tail(queue) /\ jobs' = jobs
    BY <1>7 DEF PollEvents
  <2>2. /\ ProbesBehind(queue')
        /\ Head(queue).kind # "idle" => (HasIdle(queue') <=> HasIdle(queue))
        /\ Head(queue).kind = "idle" => HasIdle(queue) /\ ~ HasIdle(queue')
    BY <1>1, <2>1, TailIdle DEF OneAction
  <2>3. CASE Head(queue).kind = "idle"
    <3>1. busy' = FALSE
      BY <1>7, <2>3 DEF PollEvents
    <3> QED
      BY <2>1, <2>2, <2>3, <3>1 DEF OneAction
  <2>4. CASE Head(queue).kind # "idle"
    <3>1. busy' = busy
      BY <1>7, <2>4 DEF PollEvents
    <3> QED
      BY <2>1, <2>2, <2>4, <3>1 DEF OneAction
  <2> QED
    BY <2>3, <2>4
<1>8. UNCHANGED vars \/ UNCHANGED dashVars => UNCHANGED <<busy, jobs, queue>>
  BY DEF vars, dashVars
<1> QED
  BY <1>2, <1>3, <1>4, <1>5, <1>6, <1>7, <1>8
  DEF Next, Clicks, Working, Polling, Timer, PeriodicRefresh, Open, RefreshTree,
      CancelSelected

(* The window is busy exactly while one thread of _background runs or its one
   idle event waits, and nothing but probes waits behind that event: no second
   click, late report or closed window lets two actions overlap, and none
   leaves the window busy with nothing to end it (_background, _poll_events). *)
THEOREM FrontendsActAlone == Spec => []OneActionAtATime
<1>1. Init => OneAction
  BY DEF Init, DashboardInit, OneAction, HasIdle, ProbesBehind
<1>2. Inv /\ OneAction /\ [Next]_vars => OneAction'
  BY NextOneAction DEF Inv
<1>3. Inv /\ OneAction => OneActionAtATime
  <2> SUFFICES ASSUME Inv, OneAction PROVE OneActionAtATime
    OBVIOUS
  <2>1. queue \in Seq(Reports) /\ DOMAIN queue \subseteq Nat
    BY DEF Inv, WindowInv, QueueOK
  <2>2. \A i, j \in IdleAt : i = j
    <3>1. \A i, j \in IdleAt : ~ i < j
      BY DEF OneAction, ProbesBehind, IdleAt
    <3> QED
      BY <2>1, <3>1 DEF IdleAt
  <2>3. HasIdle(queue) <=> IdleAt # {}
    BY DEF HasIdle, IdleAt
  <2>4. /\ jobs = {} \/ \E job : jobs = {job}
        /\ IdleAt = {} \/ \E i : IdleAt = {i}
        /\ jobs = {} \/ IdleAt = {}
    BY <2>2, <2>3 DEF OneAction
  <2>5. Cardinality({}) = 0 /\ \A x : Cardinality({x}) = 1
    BY FS_EmptySet, FS_Singleton
  <2>6. Cardinality(jobs) + Cardinality(IdleAt) <= 1
    <3>1. Cardinality(jobs) \in {0, 1} /\ Cardinality(IdleAt) \in {0, 1}
      BY <2>4, <2>5
    <3>2. Cardinality(jobs) = 0 \/ Cardinality(IdleAt) = 0
      BY <2>4, <2>5
    <3> QED
      BY <3>1, <3>2
  <2>7. \A i \in IdleAt : \A j \in DOMAIN queue : j > i => queue[j].kind = "probe"
    BY <2>1 DEF OneAction, ProbesBehind, IdleAt
  <2>8. busy <=> jobs # {} \/ IdleAt # {}
    BY <2>3 DEF OneAction
  <2> QED
    BY <2>6, <2>7, <2>8 DEF OneActionAtATime
<1> QED
  BY <1>1, <1>2, <1>3, FrontendsInvariant, PTL DEF Spec
=============================================================================
