----------------------------- MODULE EventStream -----------------------------
(***************************************************************************)
(* The event bus (coordinator/internal/core/model.go) and the event stream *)
(* of GET /v1/workflows/{id}/events (coordinator/internal/api/server.go).  *)
(* The bus keeps the last events and sends each new one to the bounded     *)
(* channel of every subscriber, unless that channel is full.  The handler  *)
(* of a stream takes the channel only as a signal: what it sends it reads  *)
(* from the bus.                                                           *)
(*                                                                         *)
(* Each bus method is one action, as it runs under EventBus.mu; a handler  *)
(* is a goroutine of its own, and every step between two of those, or      *)
(* between two writes to the client, is an action.                         *)
(***************************************************************************)
EXTENDS Integers, SequencesExt

CONSTANTS
  Stream,      \* requests for an event stream, each by a client of its own
  Topic,       \* what events can be about: workflows, or none of them
  Follows,     \* Follows[s]: the workflow the path of request s names
  Keep,        \* EventBus.max
  Buffer,      \* the capacity of a subscriber's channel
  MaxEvents    \* BOUND: how many events are ever published

ASSUME StreamAssumption ==
  /\ Follows \in [Stream -> Topic]
  /\ Keep \in Nat \ {0}
  /\ Buffer \in Nat \ {0}
  /\ MaxEvents \in Nat

VARIABLES
  published,   \* the topics of the events so far; nextID is its length
  events,      \* EventBus.events
  pc,          \* pc[s]: where the handler of s is; "off": s is not connected
  channel,     \* channel[s]: the subscriber's channel, while s is connected
  pending,     \* pending[s]: the rest of the slice the handler is ranging over
  lastSent,    \* lastSent[s]
  wire,        \* wire[s]: the IDs written to the response and not yet read
  seen         \* seen[s]: the IDs the client has read, over all connections

vars == <<published, events, pc, channel, pending, lastSent, wire, seen>>

-----------------------------------------------------------------------------
(* EventBus *)

(* Publish's truncation to the last max events. *)
Truncated(log) == IF Len(log) > Keep
                  THEN SubSeq(log, Len(log) - Keep + 1, Len(log)) ELSE log

(* Publish's send to one subscriber: an event that finds no room is dropped. *)
Offered(ch, e) == IF Len(ch) < Buffer THEN Append(ch, e) ELSE ch

Publish(f) ==
  LET e == [id |-> Len(published) + 1, topic |-> f] IN
  /\ Len(published) < MaxEvents
  /\ published' = Append(published, f)
  /\ events' = Truncated(Append(events, e))
  /\ channel' = [s \in Stream |-> IF pc[s] = "off" THEN channel[s]
                                                   ELSE Offered(channel[s], e)]
  /\ UNCHANGED <<pc, pending, lastSent, wire, seen>>

(* Replay's loop: what it has collected after the first n events. *)
Collected(f, after) ==
  LET found[n \in 0..Len(events)] ==
        IF n = 0 THEN <<>>
        ELSE IF events[n].id > after /\ events[n].topic = f
        THEN Append(found[n - 1], events[n]) ELSE found[n - 1]
  IN found

Replay(f, after) == Collected(f, after)[Len(events)]

-----------------------------------------------------------------------------
(* The handler of one stream, workflowEvents. *)

LastOf(ids) == IF ids = <<>> THEN 0 ELSE Last(ids)

(* A client connects, or connects again with the last ID it has read as
   Last-Event-ID; SubscribeReplay takes the snapshot and installs the
   channel under one lock. *)
Connect(s) ==
  /\ pc[s] = "off"
  /\ pc' = [pc EXCEPT ![s] = "send"]
  /\ channel' = [channel EXCEPT ![s] = <<>>]
  /\ pending' = [pending EXCEPT ![s] = Replay(Follows[s], LastOf(seen[s]))]
  /\ lastSent' = [lastSent EXCEPT ![s] = LastOf(seen[s])]
  /\ UNCHANGED <<published, events, wire, seen>>

(* The two loops over a slice of events: the snapshot's and flushReplay's. *)
Send(s) ==
  /\ pc[s] = "send"
  /\ IF pending[s] = <<>>
     THEN /\ pc' = [pc EXCEPT ![s] = "select"]
          /\ UNCHANGED <<pending, lastSent, wire>>
     ELSE /\ wire' = [wire EXCEPT ![s] = Append(@, Head(pending[s]).id)]
          /\ lastSent' = [lastSent EXCEPT ![s] = Head(pending[s]).id]
          /\ pending' = [pending EXCEPT ![s] = Tail(@)]
          /\ UNCHANGED pc
  /\ UNCHANGED <<published, events, channel, seen>>

(* A live event of another workflow, or one sent already, is skipped; any
   other makes the handler flush. *)
Receive(s) ==
  /\ pc[s] = "select"
  /\ channel[s] # <<>>
  /\ channel' = [channel EXCEPT ![s] = Tail(@)]
  /\ pc' = IF /\ Head(channel[s]).topic = Follows[s]
              /\ Head(channel[s]).id > lastSent[s]
           THEN [pc EXCEPT ![s] = "flush"] ELSE pc
  /\ UNCHANGED <<published, events, pending, lastSent, wire, seen>>

(* mutant: a tick only writes the comment. *)
Ping_CommentOnly(s) == pc[s] = "select" /\ UNCHANGED vars

(* The 15 second ticker: the handler flushes before it writes the comment. *)
Ping(s) ==
  /\ pc[s] = "select"
  /\ pc' = [pc EXCEPT ![s] = "flush"]
  /\ UNCHANGED <<published, events, channel, pending, lastSent, wire, seen>>

(* mutant: only the newest event of the workflow is sent. *)
Flush_Newest(s) ==
  /\ pc[s] = "flush"
  /\ pc' = [pc EXCEPT ![s] = "send"]
  /\ pending' = [pending EXCEPT ![s] =
       LET es == Replay(Follows[s], lastSent[s])
       IN IF es = <<>> THEN es ELSE <<Last(es)>>]
  /\ UNCHANGED <<published, events, channel, lastSent, wire, seen>>

(* flushReplay's call of EventBus.Replay. *)
Flush(s) ==
  /\ pc[s] = "flush"
  /\ pc' = [pc EXCEPT ![s] = "send"]
  /\ pending' = [pending EXCEPT ![s] = Replay(Follows[s], lastSent[s])]
  /\ UNCHANGED <<published, events, channel, lastSent, wire, seen>>

(* The connection ends, at the client or on the way: what was written and not
   read is lost, the handler's deferred cancel removes the subscription. *)
Hangup(s) ==
  /\ pc[s] \in {"send", "select"}
  /\ pc' = [pc EXCEPT ![s] = "off"]
  /\ channel' = [channel EXCEPT ![s] = <<>>]
  /\ pending' = [pending EXCEPT ![s] = <<>>]
  /\ lastSent' = [lastSent EXCEPT ![s] = 0]
  /\ wire' = [wire EXCEPT ![s] = <<>>]
  /\ UNCHANGED <<published, events, seen>>

(* The client reads the next event of the response. *)
Read(s) ==
  /\ wire[s] # <<>>
  /\ seen' = [seen EXCEPT ![s] = Append(@, Head(wire[s]))]
  /\ wire' = [wire EXCEPT ![s] = Tail(@)]
  /\ UNCHANGED <<published, events, pc, channel, pending, lastSent>>

-----------------------------------------------------------------------------
Init ==
  /\ published = <<>>
  /\ events = <<>>
  /\ pc = [s \in Stream |-> "off"]
  /\ channel = [s \in Stream |-> <<>>]
  /\ pending = [s \in Stream |-> <<>>]
  /\ lastSent = [s \in Stream |-> 0]
  /\ wire = [s \in Stream |-> <<>>]
  /\ seen = [s \in Stream |-> <<>>]

Handler(s) == Send(s) \/ Receive(s) \/ Flush(s)

Next ==
  \/ \E f \in Topic : Publish(f)
  \/ \E s \in Stream :
       Connect(s) \/ Handler(s) \/ Ping(s) \/ Hangup(s) \/ Read(s)

Spec == Init /\ [][Next]_vars

(* Goroutines run, the ticker fires, and a client that stays connected reads;
   nobody has to connect, to stay connected or to publish. *)
FairSpec ==
  /\ Spec
  /\ \A s \in Stream : WF_vars(Handler(s)) /\ WF_vars(Ping(s)) /\ WF_vars(Read(s))

-----------------------------------------------------------------------------
Feed == INSTANCE OrderedFeed WITH
          Stream <- Stream, Topic <- Topic, Follows <- Follows, Keep <- Keep,
          MaxEvents <- MaxEvents, published <- published, seen <- seen

(* Through full channels, snapshots, truncation and reconnections the client
   reads its workflow's events in order and once each, and misses none that is
   still in the log: the handler implements the feed. *)
ReadsInOrder == Feed!Spec

(* Every event of its workflow reaches a client that stays connected, unless
   the log drops it first: also an event that found the channel full, filled
   as it may be by other workflows, and after which nothing is published. *)
Owed(s, i) == /\ i \in DOMAIN published
              /\ Feed!Relevant(s, i)
              /\ Feed!Retained(i)
              /\ pc[s] # "off"
              /\ \A n \in DOMAIN seen[s] : seen[s][n] # i

Delivered == \A s \in Stream, i \in 1..MaxEvents : Owed(s, i) ~> ~ Owed(s, i)
=============================================================================
