----------------------------- MODULE OrderedFeed -----------------------------
(***************************************************************************)
(* What an event stream promises its client, whatever the coordinator does *)
(* to deliver it: the client reads the events of its workflow in the order *)
(* they were published, each of them once, and misses one only if it has   *)
(* already left the bounded log.                                           *)
(***************************************************************************)
EXTENDS Integers, SequencesExt

CONSTANTS
  Stream,      \* the clients
  Topic,       \* what events can be about: workflows, or none of them
  Follows,     \* Follows[s]: the workflow client s asks for
  Keep,        \* how many events are retained
  MaxEvents    \* BOUND: how many events are ever published

VARIABLES
  published,   \* the topic of every event published so far, by event ID
  seen         \* seen[s]: the IDs of the events client s has read

LastOf(ids)      == IF ids = <<>> THEN 0 ELSE Last(ids)
Retained(i)      == i > Len(published) - Keep
Relevant(s, i)   == published[i] = Follows[s]

Publish(f) == /\ Len(published) < MaxEvents
              /\ published' = Append(published, f)
              /\ UNCHANGED seen

Read(s) == \E i \in DOMAIN published :
             /\ i > LastOf(seen[s])
             /\ Relevant(s, i)
             /\ \A j \in (LastOf(seen[s]) + 1)..(i - 1) :
                  Relevant(s, j) => ~ Retained(j)
             /\ seen' = [seen EXCEPT ![s] = Append(@, i)]
             /\ UNCHANGED published

Init == published = <<>> /\ seen = [s \in Stream |-> <<>>]

Next == (\E f \in Topic : Publish(f)) \/ (\E s \in Stream : Read(s))

Spec == Init /\ [][Next]_<<published, seen>>
=============================================================================
