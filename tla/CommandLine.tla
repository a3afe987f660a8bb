----------------------------- MODULE CommandLine -----------------------------
(***************************************************************************)
(* The helixgrid command of the Python client: cli.py's main with its exit *)
(* codes, and HelixClient's requests and wait loop.  One command runs at a *)
(* time; the clock counts from the start of its wait.                      *)
(*                                                                         *)
(* A request is answered at once or reaches the coordinator and is read    *)
(* some time later, at the latest Patience after it was sent.  That is an  *)
(* assumption: the timeout of 15 s which _request gives urlopen bounds     *)
(* each operation on the socket, so an answer that trickles in takes       *)
(* longer.  What is said of time holds of requests that Patience bounds.   *)
(***************************************************************************)
EXTENDS Cluster

CONSTANTS
  Timeouts,    \* the values of --timeout that are tried; NoTimeout may be one
  NoTimeout,
  Poll,        \* poll_interval
  Patience,    \* assumed: how long a whole request takes at most
  Forever      \* BOUND: times beyond this are not told apart

(* wait refuses a poll_interval of 0 and a negative timeout. *)
ASSUME TimingAssumption ==
  /\ Timeouts \subseteq Nat \cup {NoTimeout} /\ NoTimeout \notin Nat
  /\ Poll \in Nat \ {0} /\ Patience \in Nat /\ Forever \in Nat

VARIABLES
  cmd,         \* the command: what it is at, and its exit code
  elapsed,     \* the time since its wait began, up to Forever
  over         \* how long the workflow it waits for has been over, up to Forever

cmdVars == <<cmd, elapsed, over>>

Later(time) == IF time < Forever THEN time + 1 ELSE time

NoCommand == [at |-> "none", flow |-> NoFlow, seen |-> "none", limit |-> 0, left |-> 0,
              exit |-> 0, why |-> "none"]

CommandInit == cmd = NoCommand /\ elapsed = 0 /\ over = 0

Exits(code, why) == cmd' = [cmd EXCEPT !.at = "exited", !.exit = code, !.why = why]
KeepsTime        == UNCHANGED <<elapsed, over>>

(* wait polls at once, and from here on against the clock. *)
Waits(f, limit) ==
  /\ cmd' = [NoCommand EXCEPT !.at = "poll", !.flow = f, !.limit = limit, !.left = Patience]
  /\ elapsed' = 0
  /\ over' = 0

-----------------------------------------------------------------------------
(* _request, _raise_http_error and main's handlers: an answer with an error
   status is an APIError, exit code 3; no answer, or one that does not come in
   time, is exit code 1. *)
Refused     == Exits(3, "api") /\ KeepsTime /\ UNCHANGED clusterVars
Unreachable == Exits(1, "connection") /\ KeepsTime /\ UNCHANGED clusterVars

(* submit, with and without --wait; its wait has no timeout.  When the answer
   is lost the workflow was accepted all the same. *)
CommandSubmit ==
  /\ cmd.at = "none"
  /\ \/ \E f \in Flow : /\ Accepts(f)
                        /\ \/ Waits(f, NoTimeout)
                           \/ Exits(0, "submitted") /\ KeepsTime
                           \/ Exits(1, "connection") /\ KeepsTime
     \/ online /\ Refused
     \/ Unreachable

(* wait, for a workflow that exists or that never did. *)
CommandWait ==
  /\ cmd.at = "none"
  /\ \E f \in Flow, limit \in Timeouts : Waits(f, limit)
  /\ UNCHANGED clusterVars

(* cancel; get, list and workers only read. *)
CommandCancel ==
  /\ cmd.at = "none"
  /\ \/ \E f \in Flow : Cancels(f) /\ Exits(0, "asked") /\ KeepsTime
     \/ \E f \in Flow : Cancels(f) /\ Exits(1, "connection") /\ KeepsTime
     \/ online /\ Refused
     \/ Unreachable

-----------------------------------------------------------------------------
(* The coordinator reads the workflow for get_workflow. *)
Answer ==
  /\ cmd.at = "poll"
  /\ IF cmd.flow \in known
     THEN cmd' = [cmd EXCEPT !.at = "answered", !.seen = flows[cmd.flow]] /\ KeepsTime
     ELSE IF online THEN Exits(3, "api") /\ KeepsTime ELSE Exits(1, "connection") /\ KeepsTime
  /\ UNCHANGED clusterVars

(* mutant: the deadline is looked at before the answer. *)
Judge_DeadlineFirst ==
  /\ cmd.at = "answered"
  /\ CASE cmd.limit # NoTimeout /\ elapsed >= cmd.limit -> Exits(1, "timeout")
       [] cmd.seen = "SUCCEEDED"                        -> Exits(0, "over")
       [] cmd.seen \in {"FAILED", "CANCELLED"}          -> Exits(2, "over")
       [] OTHER -> cmd' = [cmd EXCEPT !.at = "sleep", !.left = Poll]
  /\ KeepsTime
  /\ UNCHANGED clusterVars

(* mutant: every workflow that is over is a success. *)
Judge_AnyEnd ==
  /\ cmd.at = "answered"
  /\ IF cmd.seen \in Terminal THEN Exits(0, "over")
     ELSE IF cmd.limit # NoTimeout /\ elapsed >= cmd.limit THEN Exits(1, "timeout")
     ELSE cmd' = [cmd EXCEPT !.at = "sleep", !.left = Poll]
  /\ KeepsTime
  /\ UNCHANGED clusterVars

(* The rest of the turn of wait's loop: the state, then the deadline, then a
   sleep; and the exit code command_wait makes of it. *)
Judge ==
  /\ cmd.at = "answered"
  /\ \/ cmd.seen = "SUCCEEDED" /\ Exits(0, "over")
     \/ cmd.seen \in {"FAILED", "CANCELLED"} /\ Exits(2, "over")
     \/ /\ cmd.seen \notin Terminal
        /\ IF cmd.limit # NoTimeout /\ elapsed >= cmd.limit
           THEN Exits(1, "timeout")
           ELSE cmd' = [cmd EXCEPT !.at = "sleep", !.left = Poll]
  /\ KeepsTime
  /\ UNCHANGED clusterVars

(* The sleep is over: the next request. *)
Wake ==
  /\ cmd.at = "sleep"
  /\ cmd.left = 0
  /\ cmd' = [cmd EXCEPT !.at = "poll", !.left = Patience]
  /\ KeepsTime
  /\ UNCHANGED clusterVars

(* The answer does not come in time: urlopen raises. *)
GivesUp ==
  /\ cmd.at \in {"poll", "answered"}
  /\ Unreachable

Interrupt ==
  /\ cmd.at \in {"poll", "answered", "sleep"}
  /\ Exits(130, "interrupted")
  /\ KeepsTime
  /\ UNCHANGED clusterVars

(* The shell takes the exit code; another command may be given. *)
Reap == cmd.at = "exited" /\ cmd' = NoCommand /\ elapsed' = 0 /\ over' = 0
        /\ UNCHANGED clusterVars

(* Time passes, not beyond the end of a sleep or of a request's patience. *)
Tick ==
  /\ cmd.at \in {"poll", "answered", "sleep"}
  /\ cmd.left > 0
  /\ cmd' = [cmd EXCEPT !.left = @ - 1]
  /\ elapsed' = Later(elapsed)
  /\ over' = IF flows[cmd.flow] \in Terminal THEN Later(over) ELSE 0
  /\ UNCHANGED clusterVars

Command == \/ CommandSubmit \/ CommandWait \/ CommandCancel
           \/ Answer \/ Judge \/ Wake \/ GivesUp \/ Interrupt \/ Reap \/ Tick
=============================================================================
