--------------------------- MODULE RecomputePass ---------------------------
(***************************************************************************)
(* Workflow.Recompute written as the loop it is, one task after the other  *)
(* in topological order with three flags, against Coordinator's Recompute, *)
(* which says at once what the pass comes to.  The instance starts from    *)
(* EVERY assignment of states to the tasks, not only the reachable ones.   *)
(***************************************************************************)
EXTENDS Coordinator

(* One turn of the loop, on the runtimes as the earlier turns left them. *)
PassTask(rt, t) ==
  LET r == rt[t] IN
  CASE r.state = "PENDING" ->
         IF \E d \in Deps[t] : rt[d].state \in Unsuccessful
         THEN TransitionTask(r, "CANCELLED")
         ELSE IF \A d \in Deps[t] : rt[d].state = "SUCCEEDED"
         THEN TransitionTask(r, "READY")
         ELSE r
    [] r.state = "RETRY_WAIT" /\ Due(r) ->
         TransitionTask([r EXCEPT !.retryAt = Nil], "READY")
    [] OTHER -> r

PassTurn(acc, t) ==
  LET r == PassTask(acc.rt, t) IN
  [rt              |-> [acc.rt EXCEPT ![t] = r],
   allSucceeded    |-> acc.allSucceeded /\ r.state = "SUCCEEDED",
   anyActive       |-> acc.anyActive \/ r.state \in Active,
   terminalFailure |-> acc.terminalFailure \/ r.state = "FAILED"]

(* The loop's variables after its first n turns, for every n. *)
Turns(st, f) ==
  LET turn[n \in 0..Len(Order[f])] ==
        IF n = 0
        THEN [rt |-> st.rt, allSucceeded |-> TRUE, anyActive |-> FALSE,
              terminalFailure |-> FALSE]
        ELSE PassTurn(turn[n - 1], Order[f][n])
  IN turn

Pass(st, f) == Turns(st, f)[Len(Order[f])]

(* Recompute as the loop computes it. *)
RecomputeLoop(st, f) ==
  IF st.wf[f] \notin Open THEN st
  ELSE LET end == Pass(st, f) IN
       [st EXCEPT !.rt = end.rt,
                  !.wf[f] = CASE end.allSucceeded -> "SUCCEEDED"
                              [] end.terminalFailure /\ ~ end.anyActive -> "FAILED"
                              [] OTHER -> "RUNNING"]

-----------------------------------------------------------------------------
(* Any states at all, retries due and not due. *)
RuntimeIn(s, d) == [NewRuntime EXCEPT !.state = s, !.retryAt = d]

AnyRuntime ==
  {RuntimeIn(s, d) : s \in TaskState \ {"LEASED"}, d \in {Nil, 0, 1}}

AnyInit ==
  /\ \E rt \in [Task -> {r \in AnyRuntime :
                            r.retryAt # Nil => r.state = "RETRY_WAIT"}] :
     \E s \in WorkflowState \ {"ABSENT"} :
       store = [wf     |-> [f \in Workflow |-> s],
                rt     |-> rt,
                leases |-> {},
                active |-> [w \in Worker |-> 0]]
  /\ registered = {} /\ age = [w \in Worker |-> 0] /\ arrivals = <<>>
  /\ idempotency = {} /\ issued = 0 /\ bus = InitBus

RecomputeStep ==
  /\ \E f \in Workflow : store' = Recompute(store, {f})
  /\ UNCHANGED <<registered, age, arrivals, idempotency, issued, bus>>

PassSpec == AnyInit /\ [][RecomputeStep]_vars

(* The loop of Recompute, in any topological order, cancels exactly the tasks
   below an unsuccessful one, readies exactly the tasks whose dependencies
   all succeeded, wakes the retries that are due, and draws the verdict; and
   one pass is enough: at the same instant a second one changes nothing, on
   which LeaseNext relies when it recomputes what sweepLocked has just
   recomputed without publishing the verdicts of the second pass. *)
PassAgrees ==
  \A f \in Workflow :
    LET once == RecomputeLoop(store, f)
    IN once = Recompute(store, {f}) /\ RecomputeLoop(once, f) = once
=============================================================================
