------------------------- MODULE EventStreamProofs -------------------------
(***************************************************************************)
(* Proof that the handler of an event stream implements OrderedFeed, for   *)
(* any number of streams and events and any log and channel sizes.  The    *)
(* argument: what the client has read, what is on the wire, what the       *)
(* handler sent last and what it still ranges over form one chain, each    *)
(* event followed by the next of its workflow that the log still has; the  *)
(* chain breaks nowhere when the log moves on, since what it skips has     *)
(* left the log for good.                                                  *)
(***************************************************************************)
EXTENDS EventStream, SequenceTheorems, WellFoundedInduction, TLAPS

BusEvent == [id : Nat, topic : Topic]

(* With the events p published, b is the event of stream s that follows a. *)
Succeeds(p, s, a, b) ==
  /\ b \in 1..Len(p)
  /\ b > a
  /\ p[b] = Follows[s]
  /\ \A j \in (a + 1)..(b - 1) : p[j] = Follows[s] => ~ (j > Len(p) - Keep)

(* The IDs of q follow each other, the first of them a; and so for events. *)
Chain(p, s, a, q) ==
  \A n \in 1..Len(q) : Succeeds(p, s, IF n = 1 THEN a ELSE q[n - 1], q[n])

EventChain(p, s, a, q) ==
  \A n \in 1..Len(q) : Succeeds(p, s, IF n = 1 THEN a ELSE q[n - 1].id, q[n].id)

(* The log is the last Keep events, with consecutive IDs. *)
LogOf(p, log) ==
  /\ Len(log) = IF Len(p) < Keep THEN Len(p) ELSE Keep
  /\ \A i \in 1..Len(log) :
       log[i] = [id    |-> Len(p) - Len(log) + i,
                 topic |-> p[Len(p) - Len(log) + i]]

FeedTyped ==
  /\ published \in Seq(Topic)
  /\ events \in Seq(BusEvent)
  /\ pc \in [Stream -> {"off", "send", "select", "flush"}]
  /\ pending \in [Stream -> Seq(BusEvent)]
  /\ lastSent \in [Stream -> Nat]
  /\ wire \in [Stream -> Seq(Nat)]
  /\ seen \in [Stream -> Seq(Nat)]

Unbroken(s) ==
  /\ Chain(published, s, LastOf(seen[s]), wire[s])
  /\ EventChain(published, s, lastSent[s], pending[s])
  /\ pc[s] = "off" => wire[s] = <<>> /\ pending[s] = <<>>
  /\ pc[s] # "off" => lastSent[s] = IF wire[s] = <<>> THEN LastOf(seen[s])
                                                     ELSE wire[s][Len(wire[s])]

FeedInvariant ==
  /\ FeedTyped
  /\ LogOf(published, events)
  /\ \A s \in Stream : Unbroken(s)

-----------------------------------------------------------------------------
(* The least of some natural numbers, on which the induction rests. *)
LEMMA LeastNumber ==
  ASSUME NEW S \in SUBSET Nat, S # {}
  PROVE  \E n \in S : \A m \in S : n <= m
<1>1. IsWellFoundedOn(OpToRel(<, Nat), Nat)
  BY NatLessThanWellFounded
<1>2. PICK n \in S : \A m \in S : ~ (<<m, n>> \in OpToRel(<, Nat))
  BY <1>1, WFMin
<1>3. \A m \in S : ~ (m < n)
  BY <1>2 DEF OpToRel
<1> QED
  BY <1>3

(* The loop of Replay: the recursion has a solution and Collected is one. *)
Took(f, after, c, n) ==
  IF events[n].id > after /\ events[n].topic = f THEN Append(c, events[n]) ELSE c

LoopTo(f, after, n, g) ==
  [i \in 0..n |-> IF i = 0 THEN <<>> ELSE Took(f, after, g[i - 1], i)]

LEMMA LoopExists ==
  ASSUME NEW f, NEW after, NEW n \in Nat
  PROVE  \E g : g = LoopTo(f, after, n, g)
<1> DEFINE Bad == {m \in Nat : ~ \E g : g = LoopTo(f, after, m, g)}
<1> SUFFICES ASSUME Bad # {} PROVE FALSE
  OBVIOUS
<1>1. PICK m \in Bad : \A k \in Bad : m <= k
  BY LeastNumber
<1>2. CASE m = 0
  <2> DEFINE g == [i \in 0..0 |-> <<>>]
  <2>1. g = LoopTo(f, after, 0, g)
    BY DEF LoopTo
  <2> QED
    BY <1>1, <1>2, <2>1
<1>3. CASE m # 0
  <2>1. m - 1 \in Nat /\ m - 1 \notin Bad
    BY <1>1, <1>3
  <2>2. PICK g : g = LoopTo(f, after, m - 1, g)
    BY <2>1
  <2> DEFINE h == [i \in 0..m |-> IF i = m THEN Took(f, after, g[m - 1], m) ELSE g[i]]
  <2>3. ASSUME NEW i \in 0..m
        PROVE  h[i] = IF i = 0 THEN <<>> ELSE Took(f, after, h[i - 1], i)
    <3>1. CASE i = 0
      <4>1. 0 \in 0..(m - 1)
        BY <2>1
      <4>2. LoopTo(f, after, m - 1, g)[0] = <<>>
        BY <4>1 DEF LoopTo
      <4>3. g[0] = <<>>
        BY <2>2, <4>2
      <4> QED
        BY <1>3, <3>1, <4>3
    <3>2. CASE i # 0 /\ i # m
      <4>1. i \in 0..(m - 1) /\ i - 1 \in 0..m /\ i - 1 # m
        BY <2>1, <3>2
      <4>2. LoopTo(f, after, m - 1, g)[i] = Took(f, after, g[i - 1], i)
        BY <3>2, <4>1 DEF LoopTo
      <4>3. g[i] = Took(f, after, g[i - 1], i)
        BY <2>2, <4>2
      <4>4. h[i] = g[i] /\ h[i - 1] = g[i - 1]
        BY <3>2, <4>1
      <4> HIDE DEF h
      <4> QED
        BY <3>2, <4>3, <4>4
    <3>3. CASE i = m
      <4>1. m - 1 \in 0..m /\ m - 1 # m /\ m \in 0..m
        BY <2>1
      <4>2. h[m] = Took(f, after, g[m - 1], m) /\ h[m - 1] = g[m - 1]
        BY <4>1
      <4> HIDE DEF h
      <4> QED
        BY <1>3, <3>3, <4>2
    <3> QED
      BY <3>1, <3>2, <3>3
  <2>4. h = LoopTo(f, after, m, h)
    <3>1. h = [i \in 0..m |-> h[i]]
      OBVIOUS
    <3> HIDE DEF h
    <3> QED
      BY <2>3, <3>1 DEF LoopTo
  <2> HIDE DEF h
  <2> QED
    BY <1>1, <2>4
<1> QED
  BY <1>2, <1>3

LEMMA CollectedSteps ==
  ASSUME NEW f, NEW after, Len(events) \in Nat
  PROVE  /\ Collected(f, after)[0] = <<>>
         /\ \A n \in 1..Len(events) :
              Collected(f, after)[n] = Took(f, after, Collected(f, after)[n - 1], n)
<1> DEFINE c == Collected(f, after)
<1>1. c = CHOOSE g : g = LoopTo(f, after, Len(events), g)
  BY DEF Collected, LoopTo, Took
<1>2. c = LoopTo(f, after, Len(events), c)
  BY <1>1, LoopExists
<1> HIDE DEF c
<1>3. LoopTo(f, after, Len(events), c)[0] = <<>>
  BY DEF LoopTo
<1>4. \A n \in 1..Len(events) :
        LoopTo(f, after, Len(events), c)[n] = Took(f, after, c[n - 1], n)
  <2>1. \A n \in 1..Len(events) : n \in 0..Len(events) /\ n # 0
    OBVIOUS
  <2> QED
    BY <2>1 DEF LoopTo
<1> QED
  BY <1>2, <1>3, <1>4 DEF c

-----------------------------------------------------------------------------
(* What Replay returns follows on what it is asked to follow on, with nothing
   left out that the log still has. *)
FoundRight(s, after, n, c) ==
  /\ c \in Seq(BusEvent)
  /\ EventChain(published, s, after, c)
  /\ c # <<>> => c[Len(c)].id > after
  /\ \A m \in 1..Len(c) : c[m].id <= Len(published) - Len(events) + n
  /\ \A i \in 1..n : events[i].id > after /\ events[i].topic = Follows[s]
       => c # <<>> /\ events[i].id <= c[Len(c)].id

LEMMA TookRight ==
  ASSUME published \in Seq(Topic), events \in Seq(BusEvent),
         LogOf(published, events), NEW s \in Stream, NEW after \in Nat,
         NEW n \in 1..Len(events), NEW c, FoundRight(s, after, n - 1, c)
  PROVE  FoundRight(s, after, n, Took(Follows[s], after, c, n))
<1> DEFINE e == events[n]
           P == Len(published)
           L == Len(events)
<1>1. /\ P \in Nat /\ L \in Nat /\ Keep \in Nat
      /\ L = IF P < Keep THEN P ELSE Keep
      /\ n \in 1..L
      /\ \A i \in 1..L : /\ events[i].id = P - L + i
                         /\ events[i].topic = published[P - L + i]
                         /\ events[i] \in BusEvent
  <2>1. P \in Nat /\ L \in Nat /\ Keep \in Nat /\ n \in 1..L
    BY LenProperties, StreamAssumption
  <2>2. L = IF P < Keep THEN P ELSE Keep
    BY DEF LogOf
  <2>3. \A i \in 1..L : events[i] = [id    |-> P - L + i,
                                    topic |-> published[P - L + i]]
    BY DEF LogOf
  <2>4. \A i \in 1..L : events[i] \in BusEvent
    BY ElementOfSeq
  <2> HIDE DEF P, L
  <2>5. ASSUME NEW i \in 1..L
        PROVE  events[i].id = P - L + i /\ events[i].topic = published[P - L + i]
    <3>1. events[i] = [id |-> P - L + i, topic |-> published[P - L + i]]
      BY <2>3
    <3> QED
      BY <3>1
  <2> QED
    BY <2>1, <2>2, <2>4, <2>5
<1> HIDE DEF P, L
<1>2. /\ c \in Seq(BusEvent)
      /\ Len(c) \in Nat
      /\ c # <<>> => Len(c) > 0
      /\ \A m \in 1..Len(c) : c[m] \in BusEvent /\ c[m].id \in Nat
  <2>1. c \in Seq(BusEvent)
    BY DEF FoundRight, P, L
  <2>2. Len(c) \in Nat /\ (c # <<>> => Len(c) > 0)
    BY <2>1, EmptySeq, LenProperties
  <2>3. \A m \in 1..Len(c) : c[m] \in BusEvent
    BY <2>1, ElementOfSeq
  <2> QED
    BY <2>1, <2>2, <2>3 DEF BusEvent
<1>3. CASE ~ (e.id > after /\ e.topic = Follows[s])
  <2>1. Took(Follows[s], after, c, n) = c
    BY <1>3 DEF Took
  <2>2. \A m \in 1..Len(c) : c[m].id <= P - L + n
    <3>1. \A m \in 1..Len(c) : c[m].id <= P - L + (n - 1)
      BY DEF FoundRight, P, L
    <3>2. P \in Int /\ L \in Int /\ n \in Int
      BY <1>1
    <3> HIDE DEF e
    <3> SUFFICES ASSUME NEW m \in 1..Len(c)
                 PROVE  c[m].id <= P - L + n
      OBVIOUS
    <3>3. c[m].id \in Int /\ c[m].id <= P - L + (n - 1)
      BY <1>2, <3>1
    <3> QED
      BY <3>2, <3>3
  <2>3. \A i \in 1..n : events[i].id > after /\ events[i].topic = Follows[s]
          => c # <<>> /\ events[i].id <= c[Len(c)].id
    <3>1. \A i \in 1..n : i = n \/ i \in 1..(n - 1)
      BY <1>1
    <3> QED
      BY <1>3, <3>1 DEF FoundRight, P, L
  <2> QED
    BY <2>1, <2>2, <2>3 DEF FoundRight, P, L
<1>4. CASE e.id > after /\ e.topic = Follows[s]
  <2> DEFINE d == Append(c, e)
             a == IF c = <<>> THEN after ELSE c[Len(c)].id
  <2>1. Took(Follows[s], after, c, n) = d
    BY <1>4 DEF Took
  <2>2. /\ d \in Seq(BusEvent)
        /\ d # <<>>
        /\ Len(d) = Len(c) + 1
        /\ \A m \in 1..Len(c) : d[m] = c[m]
        /\ d[Len(c) + 1] = e
    <3>1. e \in BusEvent /\ c \in Seq(BusEvent) /\ Len(c) \in Nat
      BY <1>1, <1>2
    <3> HIDE DEF e
    <3> QED
      BY <3>1, AppendProperties
  <2>3. a \in Nat /\ a >= after /\ a < e.id
    <3>1. CASE c = <<>>
      BY <1>4, <3>1
    <3>2. CASE c # <<>>
      <4>1. Len(c) \in 1..Len(c)
        BY <1>2, <3>2
      <4>2. c[Len(c)].id <= P - L + (n - 1) /\ c[Len(c)].id > after
        BY <3>2, <4>1 DEF FoundRight, P, L
      <4> QED
        BY <1>1, <1>2, <3>2, <4>1, <4>2
    <3> QED
      BY <3>1, <3>2
  <2>4. e.id \in 1..P /\ published[e.id] = Follows[s] /\ e.id = P - L + n
    BY <1>1, <1>4
  <2>5. ASSUME NEW j \in (a + 1)..(e.id - 1), published[j] = Follows[s], j > P - Keep
        PROVE  FALSE
    <3> DEFINE i == j - (P - L)
    <3>1. i \in 1..(n - 1) /\ i \in 1..L /\ P - L + i = j /\ j > a /\ j \in Int
      <4>1. P - L = 0 \/ P - L = P - Keep
        BY <1>1
      <4>2. j \in Int /\ j >= a + 1 /\ j <= e.id - 1 /\ j >= 1
        BY <2>3, <2>4
      <4>3. j > P - L
        BY <1>1, <2>5, <4>1, <4>2
      <4>4. P \in Int /\ L \in Int /\ n \in Int /\ n <= L /\ e.id = P - L + n
        BY <1>1, <2>4
      <4> HIDE DEF a, e
      <4>5. i \in Int /\ i >= 1 /\ i <= n - 1 /\ P - L + i = j /\ j > a
        BY <2>3, <4>2, <4>3, <4>4
      <4> HIDE DEF i
      <4> QED
        BY <4>2, <4>4, <4>5
    <3>2. events[i].id = j /\ events[i].topic = Follows[s]
      BY <1>1, <2>5, <3>1
    <3>3. j > after
      BY <2>3, <3>1
    <3>4. c # <<>> /\ j <= c[Len(c)].id
      BY <3>1, <3>2, <3>3 DEF FoundRight, P, L
    <3> QED
      BY <2>3, <3>1, <3>4
  <2>6. Succeeds(published, s, a, e.id)
    BY <2>3, <2>4, <2>5 DEF Succeeds, P, L
  <2> HIDE DEF d
  <2>7. EventChain(published, s, after, d)
    <3> SUFFICES ASSUME NEW m \in 1..Len(d)
                 PROVE  Succeeds(published, s, IF m = 1 THEN after ELSE d[m - 1].id, d[m].id)
      BY DEF EventChain
    <3>1. CASE m = Len(c) + 1
      <4>1. (IF m = 1 THEN after ELSE d[m - 1].id) = a
        <5>1. CASE c = <<>>
          BY <3>1, <5>1, EmptySeq
        <5>2. CASE c # <<>>
          <6>1. m # 1 /\ m - 1 = Len(c) /\ Len(c) \in 1..Len(c)
            BY <1>2, <3>1, <5>2
          <6> QED
            BY <2>2, <5>2, <6>1
        <5> QED
          BY <5>1, <5>2
      <4> HIDE DEF a
      <4> QED
        BY <2>2, <2>6, <3>1, <4>1
    <3>2. CASE m # Len(c) + 1
      <4>1. m \in 1..Len(c) /\ (m # 1 => m - 1 \in 1..Len(c))
        BY <1>2, <2>2, <3>2
      <4>2. Succeeds(published, s, IF m = 1 THEN after ELSE c[m - 1].id, c[m].id)
        BY <4>1 DEF FoundRight, EventChain
      <4>3. d[m] = c[m] /\ (m # 1 => d[m - 1] = c[m - 1])
        BY <2>2, <4>1
      <4> QED
        BY <4>2, <4>3
    <3> QED
      BY <3>1, <3>2
  <2>8. d[Len(d)].id = e.id
    BY <2>2
  <2>9. \A m \in 1..Len(d) : d[m].id <= P - L + n
    <3>1. \A m \in 1..Len(c) : c[m].id <= P - L + (n - 1)
      BY DEF FoundRight, P, L
    <3>2. \A m \in 1..Len(d) : m \in 1..Len(c) \/ m = Len(c) + 1
      BY <1>2, <2>2
    <3>3. P \in Int /\ L \in Int /\ n \in Int /\ e.id = P - L + n
      BY <1>1, <2>4
    <3> HIDE DEF e
    <3> TAKE m \in 1..Len(d)
    <3>4. CASE m \in 1..Len(c)
      <4>1. d[m] = c[m] /\ c[m].id \in Nat /\ c[m].id <= P - L + (n - 1)
        BY <1>2, <2>2, <3>1, <3>4
      <4> QED
        BY <3>3, <4>1
    <3>5. CASE m = Len(c) + 1
      BY <2>2, <3>3, <3>5
    <3> QED
      BY <3>2, <3>4, <3>5
  <2>10. \A i \in 1..n : events[i].id <= d[Len(d)].id
    <3>1. \A i \in 1..n : i \in 1..L /\ i <= n
      BY <1>1
    <3> HIDE DEF e
    <3> QED
      BY <1>1, <2>4, <2>8, <3>1
  <2> QED
    BY <1>4, <2>1, <2>2, <2>7, <2>8, <2>9, <2>10 DEF FoundRight, P, L
<1> QED
  BY <1>3, <1>4

LEMMA ReplayRight ==
  ASSUME published \in Seq(Topic), events \in Seq(BusEvent),
         LogOf(published, events), NEW s \in Stream, NEW after \in Nat
  PROVE  /\ Replay(Follows[s], after) \in Seq(BusEvent)
         /\ EventChain(published, s, after, Replay(Follows[s], after))
<1> DEFINE L == Len(events)
           c == Collected(Follows[s], after)
           Bad == {n \in 0..L : ~ FoundRight(s, after, n, c[n])}
<1>1. L \in Nat
  BY LenProperties
<1>2. /\ c[0] = <<>>
      /\ \A n \in 1..L : c[n] = Took(Follows[s], after, c[n - 1], n)
  BY <1>1, CollectedSteps
<1> HIDE DEF c
<1>3. FoundRight(s, after, 0, <<>>)
  <2>1. <<>> \in Seq(BusEvent) /\ Len(<<>>) = 0
    BY EmptySeq
  <2> QED
    BY <2>1 DEF FoundRight, EventChain
<1>4. Bad = {}
  <2> SUFFICES ASSUME Bad # {} PROVE FALSE
    OBVIOUS
  <2>1. Bad \in SUBSET Nat
    BY <1>1
  <2>2. PICK n \in Bad : \A m \in Bad : n <= m
    BY <2>1, LeastNumber
  <2>3. n # 0
    BY <1>2, <1>3, <2>2
  <2>4. n \in 1..L /\ n - 1 \in 0..L /\ ~ (n <= n - 1)
    BY <1>1, <2>2, <2>3
  <2>5. FoundRight(s, after, n - 1, c[n - 1])
    BY <2>2, <2>4
  <2>6. FoundRight(s, after, n, c[n])
    BY <1>2, <2>4, <2>5, TookRight
  <2> QED
    BY <2>2, <2>6
<1>5. FoundRight(s, after, L, c[L])
  BY <1>1, <1>4
<1> QED
  BY <1>5 DEF FoundRight, Replay, c

-----------------------------------------------------------------------------
(* Publish: the log stays the last Keep events, and what followed still
   follows, as nothing comes back to the log. *)
LEMMA LogMovesOn ==
  ASSUME NEW p \in Seq(Topic), NEW log \in Seq(BusEvent), LogOf(p, log),
         NEW f \in Topic
  PROVE  LET e == [id |-> Len(p) + 1, topic |-> f]
             new == Truncated(Append(log, e)) IN
         new \in Seq(BusEvent) /\ LogOf(Append(p, f), new)
<1> DEFINE e == [id |-> Len(p) + 1, topic |-> f]
           q == Append(p, f)
           all == Append(log, e)
           new == Truncated(all)
           P == Len(p)
           L == Len(log)
<1>1. P \in Nat /\ L \in Nat /\ Keep \in Nat \ {0}
  BY LenProperties, StreamAssumption
<1>2. /\ L = IF P < Keep THEN P ELSE Keep
      /\ \A i \in 1..L : log[i] = [id |-> P - L + i, topic |-> p[P - L + i]]
  BY DEF LogOf
<1>3. e \in BusEvent
  BY <1>1 DEF BusEvent
<1> HIDE DEF e
<1>4. /\ Len(q) = P + 1
      /\ \A i \in 1..P : q[i] = p[i]
      /\ q[P + 1] = f
  BY AppendProperties
<1>5. /\ all \in Seq(BusEvent)
      /\ Len(all) = L + 1
      /\ \A i \in 1..L : all[i] = log[i]
      /\ all[L + 1] = e
  BY <1>3, AppendProperties
<1>6. e = [id |-> P + 1, topic |-> f]
  BY DEF e
<1>7. L \in Int /\ P \in Int /\ Keep \in Int /\ L >= 0 /\ L <= P /\ L <= Keep /\ Keep >= 1
  <2> HIDE DEF P, L
  <2> QED
    BY <1>1, <1>2
<1> HIDE DEF P, L, q, all
<1>8. ASSUME NEW i \in 1..(L + 1)
      PROVE  all[i] = [id |-> P - L + i, topic |-> q[P - L + i]]
  <2>1. CASE i = L + 1
    <3>1. P - L + i = P + 1
      BY <1>7, <2>1
    <3> QED
      BY <1>4, <1>5, <1>6, <2>1, <3>1
  <2>2. CASE i # L + 1
    <3>1. i \in 1..L /\ P - L + i \in 1..P
      BY <1>7, <2>2
    <3> QED
      BY <1>2, <1>4, <1>5, <3>1
  <2> QED
    BY <2>1, <2>2
<1>9. CASE L + 1 > Keep
  <2>1. L = Keep
    BY <1>7, <1>9
  <2>2. new = SubSeq(all, 2, Keep + 1)
    <3>1. (L + 1) - Keep + 1 = 2
      BY <1>7, <2>1
    <3> QED
      BY <1>5, <1>9, <2>1, <3>1 DEF Truncated
  <2>3. \A i \in 2..(Keep + 1) : all[i] \in BusEvent
    <3>1. \A i \in 2..(Keep + 1) : i \in 1..Len(all)
      BY <1>5, <1>7, <2>1
    <3> QED
      BY <1>5, <3>1, ElementOfSeq
  <2>4. /\ new \in Seq(BusEvent)
        /\ Len(new) = Keep
        /\ \A i \in 1..Keep : new[i] = all[i + 1]
    <3>1. /\ SubSeq(all, 2, Keep + 1) \in Seq(BusEvent)
          /\ Len(SubSeq(all, 2, Keep + 1))
               = IF 2 <= Keep + 1 THEN (Keep + 1) - 2 + 1 ELSE 0
          /\ \A i \in 1..((Keep + 1) - 2 + 1) :
               SubSeq(all, 2, Keep + 1)[i] = all[2 + i - 1]
      <4>1. 2 \in Int /\ Keep + 1 \in Int
        BY <1>7
      <4> QED
        BY <2>3, <4>1, SubSeqProperties
    <3>2. (Keep + 1) - 2 + 1 = Keep /\ 2 <= Keep + 1 /\ \A i \in 1..Keep : 2 + i - 1 = i + 1
      BY <1>7
    <3> QED
      BY <2>2, <3>1, <3>2
  <2> HIDE DEF new
  <2>5. ASSUME NEW i \in 1..Len(new)
        PROVE  new[i] = [id |-> Len(q) - Len(new) + i, topic |-> q[Len(q) - Len(new) + i]]
    <3>1. i \in 1..Keep /\ i + 1 \in 1..(L + 1) /\ P - L + (i + 1) = Len(q) - Len(new) + i
      BY <1>4, <1>7, <2>1, <2>4
    <3> QED
      BY <1>8, <2>4, <3>1
  <2>6. Len(new) = IF Len(q) < Keep THEN Len(q) ELSE Keep
    BY <1>4, <1>7, <2>1, <2>4
  <2> QED
    BY <2>4, <2>5, <2>6 DEF LogOf, new, all, q, e, P
<1>10. CASE ~ (L + 1 > Keep)
  <2>1. new = all
    BY <1>5, <1>10 DEF Truncated
  <2>2. L = P
    BY <1>1, <1>2, <1>7, <1>10
  <2>3. Len(all) = IF Len(q) < Keep THEN Len(q) ELSE Keep
    BY <1>4, <1>5, <1>7, <1>10, <2>2
  <2>4. ASSUME NEW i \in 1..Len(all)
        PROVE  all[i] = [id |-> Len(q) - Len(all) + i, topic |-> q[Len(q) - Len(all) + i]]
    <3>1. i \in 1..(L + 1) /\ P - L + i = Len(q) - Len(all) + i
      BY <1>4, <1>5, <1>7
    <3> QED
      BY <1>8, <3>1
  <2> QED
    BY <1>5, <2>1, <2>3, <2>4 DEF LogOf, all, q, e, P
<1> QED
  BY <1>7, <1>9, <1>10

LEMMA StillSucceeds ==
  ASSUME NEW p \in Seq(Topic), NEW f \in Topic, NEW s \in Stream,
         NEW a \in Nat, NEW b \in Nat, Succeeds(p, s, a, b)
  PROVE  Succeeds(Append(p, f), s, a, b)
<1> DEFINE q == Append(p, f)
           P == Len(p)
<1>1. /\ Len(q) = P + 1
      /\ \A i \in 1..P : q[i] = p[i]
  BY AppendProperties
<1>2. P \in Nat /\ Keep \in Nat
  BY LenProperties, StreamAssumption
<1>3. /\ b \in 1..P
      /\ b > a
      /\ p[b] = Follows[s]
      /\ \A j \in (a + 1)..(b - 1) : p[j] = Follows[s] => ~ (j > P - Keep)
  BY DEF Succeeds
<1> HIDE DEF q, P
<1>4. b \in 1..Len(q) /\ q[b] = Follows[s]
  BY <1>1, <1>2, <1>3
<1>5. ASSUME NEW j \in (a + 1)..(b - 1), q[j] = Follows[s]
      PROVE  ~ (j > Len(q) - Keep)
  <2>1. j \in 1..P
    BY <1>2, <1>3
  <2>2. ~ (j > P - Keep)
    BY <1>1, <1>3, <1>5, <2>1
  <2> QED
    BY <1>1, <1>2, <2>1, <2>2
<1> QED
  BY <1>3, <1>4, <1>5 DEF Succeeds, q

LEMMA StillChained ==
  ASSUME NEW p \in Seq(Topic), NEW f \in Topic, NEW s \in Stream, NEW a \in Nat
  PROVE  /\ \A q \in Seq(Nat) : Chain(p, s, a, q) => Chain(Append(p, f), s, a, q)
         /\ \A q \in Seq(BusEvent) :
              EventChain(p, s, a, q) => EventChain(Append(p, f), s, a, q)
<1>1. ASSUME NEW q \in Seq(Nat), Chain(p, s, a, q), NEW n \in 1..Len(q)
      PROVE  Succeeds(Append(p, f), s, IF n = 1 THEN a ELSE q[n - 1], q[n])
  <2>1. q[n] \in Nat /\ (n # 1 => q[n - 1] \in Nat)
    <3>1. n # 1 => n - 1 \in 1..Len(q)
      BY LenProperties
    <3> QED
      BY <3>1, ElementOfSeq
  <2>2. Succeeds(p, s, IF n = 1 THEN a ELSE q[n - 1], q[n])
    BY <1>1 DEF Chain
  <2> QED
    BY <2>1, <2>2, StillSucceeds
<1>2. ASSUME NEW q \in Seq(BusEvent), EventChain(p, s, a, q), NEW n \in 1..Len(q)
      PROVE  Succeeds(Append(p, f), s, IF n = 1 THEN a ELSE q[n - 1].id, q[n].id)
  <2>1. q[n].id \in Nat /\ (n # 1 => q[n - 1].id \in Nat)
    <3>1. n # 1 => n - 1 \in 1..Len(q)
      BY LenProperties
    <3>2. \A m \in 1..Len(q) : q[m] \in BusEvent
      BY ElementOfSeq
    <3> QED
      BY <3>1, <3>2 DEF BusEvent
  <2>2. Succeeds(p, s, IF n = 1 THEN a ELSE q[n - 1].id, q[n].id)
    BY <1>2 DEF EventChain
  <2> QED
    BY <2>1, <2>2, StillSucceeds
<1> QED
  BY <1>1, <1>2 DEF Chain, EventChain

(* A chain grows at its end and shrinks at its front. *)
LEMMA ChainGrows ==
  ASSUME NEW p, NEW s, NEW a, NEW q \in Seq(Nat), NEW b \in Nat,
         Chain(p, s, a, q),
         Succeeds(p, s, IF q = <<>> THEN a ELSE q[Len(q)], b)
  PROVE  Chain(p, s, a, Append(q, b))
<1> DEFINE d == Append(q, b)
<1>1. Len(q) \in Nat /\ (q = <<>> <=> Len(q) = 0)
  BY LenProperties, EmptySeq
<1>2. /\ Len(d) = Len(q) + 1
      /\ \A i \in 1..Len(q) : d[i] = q[i]
      /\ d[Len(q) + 1] = b
  BY AppendProperties
<1> HIDE DEF d
<1>3. ASSUME NEW n \in 1..Len(d)
      PROVE  Succeeds(p, s, IF n = 1 THEN a ELSE d[n - 1], d[n])
  <2>1. CASE n = Len(q) + 1
    <3>1. (IF n = 1 THEN a ELSE d[n - 1]) = IF q = <<>> THEN a ELSE q[Len(q)]
      <4>1. CASE q = <<>>
        BY <1>1, <2>1, <4>1
      <4>2. CASE q # <<>>
        <5>1. n # 1 /\ n - 1 = Len(q) /\ Len(q) \in 1..Len(q)
          BY <1>1, <2>1, <4>2
        <5> QED
          BY <1>2, <4>2, <5>1
      <4> QED
        BY <4>1, <4>2
    <3> QED
      BY <1>2, <2>1, <3>1
  <2>2. CASE n # Len(q) + 1
    <3>1. n \in 1..Len(q) /\ (n # 1 => n - 1 \in 1..Len(q))
      BY <1>1, <1>2, <2>2
    <3>2. Succeeds(p, s, IF n = 1 THEN a ELSE q[n - 1], q[n])
      BY <3>1 DEF Chain
    <3> QED
      BY <1>2, <3>1, <3>2
  <2> QED
    BY <2>1, <2>2
<1> QED
  BY <1>3 DEF Chain, d

LEMMA ChainShrinks ==
  ASSUME NEW p, NEW s, NEW a, NEW q \in Seq(Nat), q # <<>>, Chain(p, s, a, q)
  PROVE  /\ Succeeds(p, s, a, Head(q))
         /\ Chain(p, s, Head(q), Tail(q))
<1>1. Len(q) \in Nat \ {0} /\ Head(q) = q[1]
  BY EmptySeq
<1>2. Len(Tail(q)) = Len(q) - 1 /\ \A i \in 1..Len(Tail(q)) : Tail(q)[i] = q[i + 1]
  BY HeadTailProperties
<1>3. Succeeds(p, s, a, Head(q))
  <2>1. 1 \in 1..Len(q)
    BY <1>1
  <2> QED
    BY <1>1, <2>1 DEF Chain
<1>4. ASSUME NEW n \in 1..Len(Tail(q))
      PROVE  Succeeds(p, s, IF n = 1 THEN Head(q) ELSE Tail(q)[n - 1], Tail(q)[n])
  <2>1. n + 1 \in 1..Len(q) /\ n + 1 # 1 /\ (n + 1) - 1 = n
    BY <1>1, <1>2
  <2>2. Succeeds(p, s, q[n], q[n + 1])
    BY <2>1 DEF Chain
  <2>3. Tail(q)[n] = q[n + 1]
    BY <1>2
  <2>4. (IF n = 1 THEN Head(q) ELSE Tail(q)[n - 1]) = q[n]
    <3>1. n # 1 => n - 1 \in 1..Len(Tail(q)) /\ (n - 1) + 1 = n
      BY <1>1, <1>2
    <3> QED
      BY <1>1, <1>2, <3>1
  <2> QED
    BY <2>2, <2>3, <2>4
<1> QED
  BY <1>3, <1>4 DEF Chain

LEMMA EventChainShrinks ==
  ASSUME NEW p, NEW s, NEW a, NEW q \in Seq(BusEvent), q # <<>>,
         EventChain(p, s, a, q)
  PROVE  /\ Succeeds(p, s, a, Head(q).id)
         /\ EventChain(p, s, Head(q).id, Tail(q))
<1>1. Len(q) \in Nat \ {0} /\ Head(q) = q[1]
  BY EmptySeq
<1>2. Len(Tail(q)) = Len(q) - 1 /\ \A i \in 1..Len(Tail(q)) : Tail(q)[i] = q[i + 1]
  BY HeadTailProperties
<1>3. Succeeds(p, s, a, Head(q).id)
  <2>1. 1 \in 1..Len(q)
    BY <1>1
  <2> QED
    BY <1>1, <2>1 DEF EventChain
<1>4. ASSUME NEW n \in 1..Len(Tail(q))
      PROVE  Succeeds(p, s, IF n = 1 THEN Head(q).id ELSE Tail(q)[n - 1].id,
                      Tail(q)[n].id)
  <2>1. n + 1 \in 1..Len(q) /\ n + 1 # 1 /\ (n + 1) - 1 = n
    BY <1>1, <1>2
  <2>2. Succeeds(p, s, q[n].id, q[n + 1].id)
    BY <2>1 DEF EventChain
  <2>3. Tail(q)[n] = q[n + 1]
    BY <1>2
  <2>4. (IF n = 1 THEN Head(q).id ELSE Tail(q)[n - 1].id) = q[n].id
    <3>1. n # 1 => n - 1 \in 1..Len(Tail(q)) /\ (n - 1) + 1 = n
      BY <1>1, <1>2
    <3> QED
      BY <1>1, <1>2, <3>1
  <2> QED
    BY <2>2, <2>3, <2>4
<1> QED
  BY <1>3, <1>4 DEF EventChain

-----------------------------------------------------------------------------
(* The empty chains. *)
LEMMA NothingFollows ==
  ASSUME NEW p, NEW s, NEW a
  PROVE  Chain(p, s, a, <<>>) /\ EventChain(p, s, a, <<>>)
<1>1. Len(<<>>) = 0
  BY EmptySeq
<1> QED
  BY <1>1 DEF Chain, EventChain

LEMMA LastTyped ==
  ASSUME NEW ids \in Seq(Nat)
  PROVE  LastOf(ids) \in Nat
<1>1. CASE ids = <<>>
  BY <1>1 DEF LastOf
<1>2. CASE ids # <<>>
  <2>1. Len(ids) \in 1..Len(ids)
    BY <1>2, EmptySeq
  <2> QED
    BY <1>2, <2>1, ElementOfSeq DEF LastOf, Last
<1> QED
  BY <1>1, <1>2

LEMMA LastAppended ==
  ASSUME NEW ids \in Seq(Nat), NEW i \in Nat
  PROVE  /\ LastOf(Append(ids, i)) = i
         /\ Append(ids, i)[Len(Append(ids, i))] = i
<1>1. /\ Append(ids, i) # <<>>
      /\ Len(Append(ids, i)) = Len(ids) + 1
      /\ Append(ids, i)[Len(ids) + 1] = i
  BY AppendProperties
<1> QED
  BY <1>1 DEF LastOf, Last

LEMMA FeedInit == Init => FeedInvariant
<1> SUFFICES ASSUME Init PROVE FeedInvariant
  OBVIOUS
<1>1. <<>> \in Seq(Topic) /\ <<>> \in Seq(BusEvent) /\ <<>> \in Seq(Nat) /\ Len(<<>>) = 0
  BY EmptySeq
<1>2. FeedTyped
  BY <1>1 DEF Init, FeedTyped
<1>3. LogOf(published, events)
  <2>1. 0 < Keep
    BY StreamAssumption
  <2> QED
    BY <1>1, <2>1 DEF Init, LogOf
<1>4. ASSUME NEW s \in Stream PROVE Unbroken(s)
  <2>1. wire[s] = <<>> /\ pending[s] = <<>> /\ pc[s] = "off"
    BY DEF Init
  <2> QED
    BY <2>1, NothingFollows DEF Unbroken
<1> QED
  BY <1>2, <1>3, <1>4 DEF FeedInvariant

(* The streams a step does not touch. *)
LEMMA OtherStreams ==
  ASSUME NEW s \in Stream, Unbroken(s),
         published' = published, wire'[s] = wire[s], seen'[s] = seen[s],
         lastSent'[s] = lastSent[s], pending'[s] = pending[s], pc'[s] = pc[s]
  PROVE  Unbroken(s)'
BY DEF Unbroken

LEMMA PublishKeeps ==
  ASSUME FeedInvariant, NEW f \in Topic, Publish(f)
  PROVE  FeedInvariant'
<1> DEFINE e == [id |-> Len(published) + 1, topic |-> f]
<1>1. FeedTyped /\ LogOf(published, events)
  BY DEF FeedInvariant
<1>2. /\ published' = Append(published, f)
      /\ events' = Truncated(Append(events, e))
      /\ UNCHANGED <<pc, pending, lastSent, wire, seen>>
  BY DEF Publish
<1>3. published' \in Seq(Topic)
  BY <1>1, <1>2, AppendProperties DEF FeedTyped
<1>4. events' \in Seq(BusEvent) /\ LogOf(published', events')
  BY <1>1, <1>2, LogMovesOn DEF FeedTyped
<1>5. FeedTyped'
  BY <1>1, <1>2, <1>3, <1>4 DEF FeedTyped
<1>6. ASSUME NEW s \in Stream PROVE Unbroken(s)'
  <2>1. Unbroken(s)
    BY DEF FeedInvariant
  <2>2. /\ wire[s] \in Seq(Nat)
        /\ pending[s] \in Seq(BusEvent)
        /\ lastSent[s] \in Nat
        /\ LastOf(seen[s]) \in Nat
    BY <1>1, LastTyped DEF FeedTyped
  <2>3. Chain(published', s, LastOf(seen[s]), wire[s])
    BY <1>1, <1>2, <2>1, <2>2, StillChained DEF FeedTyped, Unbroken
  <2>4. EventChain(published', s, lastSent[s], pending[s])
    BY <1>1, <1>2, <2>1, <2>2, StillChained DEF FeedTyped, Unbroken
  <2> QED
    BY <1>2, <2>1, <2>3, <2>4 DEF Unbroken
<1> QED
  BY <1>4, <1>5, <1>6 DEF FeedInvariant

(* The steps of one stream: its variables keep their types, and the chain of
   this stream stays unbroken. *)
LEMMA StreamKeeps ==
  ASSUME FeedInvariant, NEW s \in Stream, NEW c, NEW q \in Seq(BusEvent),
         NEW l \in Nat, NEW w \in Seq(Nat), NEW r \in Seq(Nat),
         c \in {"off", "send", "select", "flush"},
         UNCHANGED <<published, events>>,
         pc' = [pc EXCEPT ![s] = c],
         pending' = [pending EXCEPT ![s] = q],
         lastSent' = [lastSent EXCEPT ![s] = l],
         wire' = [wire EXCEPT ![s] = w],
         seen' = [seen EXCEPT ![s] = r],
         Chain(published, s, LastOf(r), w),
         EventChain(published, s, l, q),
         c = "off" => w = <<>> /\ q = <<>>,
         c # "off" => l = IF w = <<>> THEN LastOf(r) ELSE w[Len(w)]
  PROVE  FeedInvariant'
<1>1. FeedTyped /\ LogOf(published, events)
  BY DEF FeedInvariant
<1>2. /\ pc'[s] = c
      /\ pending'[s] = q
      /\ lastSent'[s] = l
      /\ wire'[s] = w
      /\ seen'[s] = r
      /\ published' = published
  BY <1>1 DEF FeedTyped
<1>3. FeedTyped'
  BY <1>1 DEF FeedTyped
<1>4. LogOf(published, events)'
  BY <1>1 DEF LogOf
<1>5. Unbroken(s)'
  BY <1>2 DEF Unbroken
<1>6. ASSUME NEW u \in Stream, u # s PROVE Unbroken(u)'
  <2>1. /\ Unbroken(u)
        /\ wire'[u] = wire[u] /\ seen'[u] = seen[u] /\ pc'[u] = pc[u]
        /\ lastSent'[u] = lastSent[u] /\ pending'[u] = pending[u]
    BY <1>1, <1>6 DEF FeedTyped, FeedInvariant
  <2> QED
    BY <1>2, <2>1, OtherStreams
<1> QED
  BY <1>3, <1>4, <1>5, <1>6 DEF FeedInvariant

(* What is known of one stream. *)
LEMMA StreamTyped ==
  ASSUME FeedInvariant, NEW s \in Stream
  PROVE  /\ Unbroken(s)
         /\ pc[s] \in {"off", "send", "select", "flush"}
         /\ pending[s] \in Seq(BusEvent)
         /\ lastSent[s] \in Nat
         /\ wire[s] \in Seq(Nat)
         /\ seen[s] \in Seq(Nat)
         /\ LastOf(seen[s]) \in Nat
         /\ published \in Seq(Topic)
         /\ events \in Seq(BusEvent)
         /\ LogOf(published, events)
         /\ pc = [pc EXCEPT ![s] = pc[s]]
         /\ pending = [pending EXCEPT ![s] = pending[s]]
         /\ lastSent = [lastSent EXCEPT ![s] = lastSent[s]]
         /\ wire = [wire EXCEPT ![s] = wire[s]]
         /\ seen = [seen EXCEPT ![s] = seen[s]]
BY LastTyped DEF FeedInvariant, FeedTyped

LEMMA ConnectKeeps ==
  ASSUME FeedInvariant, NEW s \in Stream, Connect(s)
  PROVE  FeedInvariant'
<1> DEFINE a == LastOf(seen[s])
           q == Replay(Follows[s], a)
<1>1. pc[s] = "off" /\ wire[s] = <<>> /\ a \in Nat /\ wire[s] \in Seq(Nat)
  BY StreamTyped DEF Connect, Unbroken
<1>2. q \in Seq(BusEvent) /\ EventChain(published, s, a, q)
  BY <1>1, StreamTyped, ReplayRight
<1>3. /\ UNCHANGED <<published, events, wire, seen>>
      /\ pc' = [pc EXCEPT ![s] = "send"]
      /\ pending' = [pending EXCEPT ![s] = q]
      /\ lastSent' = [lastSent EXCEPT ![s] = a]
  BY DEF Connect
<1>4. Chain(published, s, a, wire[s])
  BY <1>1, NothingFollows
<1> HIDE DEF q
<1> QED
  BY <1>1, <1>2, <1>3, <1>4, StreamTyped, StreamKeeps

LEMMA SendKeeps ==
  ASSUME FeedInvariant, NEW s \in Stream, Send(s)
  PROVE  FeedInvariant'
<1>1. /\ Chain(published, s, LastOf(seen[s]), wire[s])
      /\ EventChain(published, s, lastSent[s], pending[s])
      /\ lastSent[s] = IF wire[s] = <<>> THEN LastOf(seen[s])
                                         ELSE wire[s][Len(wire[s])]
  BY StreamTyped DEF Send, Unbroken
<1>2. CASE pending[s] = <<>>
  <2>1. /\ UNCHANGED <<published, events, pending, lastSent, wire, seen>>
        /\ pc' = [pc EXCEPT ![s] = "select"]
    BY <1>2 DEF Send
  <2> QED
    BY <1>1, <2>1, StreamTyped, StreamKeeps
<1>3. CASE pending[s] # <<>>
  <2> DEFINE i == Head(pending[s]).id
             w == Append(wire[s], i)
             q == Tail(pending[s])
  <2>1. /\ UNCHANGED <<published, events, pc, seen>>
        /\ wire' = [wire EXCEPT ![s] = w]
        /\ lastSent' = [lastSent EXCEPT ![s] = i]
        /\ pending' = [pending EXCEPT ![s] = q]
        /\ pc[s] = "send"
    BY <1>3 DEF Send
  <2>2. i \in Nat /\ q \in Seq(BusEvent)
    <3>1. pending[s] \in Seq(BusEvent)
      BY StreamTyped
    <3>2. Head(pending[s]) \in BusEvent /\ q \in Seq(BusEvent)
      BY <1>3, <3>1, HeadTailProperties
    <3> QED
      BY <3>2 DEF BusEvent
  <2>3. /\ Succeeds(published, s, lastSent[s], i)
        /\ EventChain(published, s, i, q)
    BY <1>1, <1>3, StreamTyped, EventChainShrinks
  <2>4. w \in Seq(Nat) /\ w # <<>> /\ w[Len(w)] = i
    <3>1. wire[s] \in Seq(Nat)
      BY StreamTyped
    <3> HIDE DEF i
    <3> QED
      BY <2>2, <3>1, AppendProperties, LastAppended
  <2>5. Chain(published, s, LastOf(seen[s]), w)
    BY <1>1, <2>2, <2>3, StreamTyped, ChainGrows
  <2> HIDE DEF i, w, q
  <2> QED
    BY <2>1, <2>2, <2>3, <2>4, <2>5, StreamTyped, StreamKeeps
<1> QED
  BY <1>2, <1>3

(* Receive and Ping: only where the handler is changes, and it stays
   connected. *)
LEMMA SignalKeeps ==
  ASSUME FeedInvariant, NEW s \in Stream, Receive(s) \/ Ping(s)
  PROVE  FeedInvariant'
<1>1. PICK c \in {"select", "flush"} :
        /\ UNCHANGED <<published, events, pending, lastSent, wire, seen>>
        /\ pc' = [pc EXCEPT ![s] = c]
  <2>1. pc[s] = "select" /\ pc = [pc EXCEPT ![s] = pc[s]]
    BY StreamTyped DEF Receive, Ping
  <2> QED
    BY <2>1 DEF Receive, Ping
<1>2. pc[s] = "select"
  BY DEF Receive, Ping
<1> QED
  BY <1>1, <1>2, StreamTyped, StreamKeeps DEF Unbroken

LEMMA FlushKeeps ==
  ASSUME FeedInvariant, NEW s \in Stream, Flush(s)
  PROVE  FeedInvariant'
<1> DEFINE q == Replay(Follows[s], lastSent[s])
<1>1. /\ UNCHANGED <<published, events, lastSent, wire, seen>>
      /\ pc' = [pc EXCEPT ![s] = "send"]
      /\ pending' = [pending EXCEPT ![s] = q]
      /\ pc[s] = "flush"
  BY DEF Flush
<1>2. q \in Seq(BusEvent) /\ EventChain(published, s, lastSent[s], q)
  BY StreamTyped, ReplayRight
<1> HIDE DEF q
<1> QED
  BY <1>1, <1>2, StreamTyped, StreamKeeps DEF Unbroken

LEMMA HangupKeeps ==
  ASSUME FeedInvariant, NEW s \in Stream, Hangup(s)
  PROVE  FeedInvariant'
<1>1. /\ UNCHANGED <<published, events, seen>>
      /\ pc' = [pc EXCEPT ![s] = "off"]
      /\ pending' = [pending EXCEPT ![s] = <<>>]
      /\ lastSent' = [lastSent EXCEPT ![s] = 0]
      /\ wire' = [wire EXCEPT ![s] = <<>>]
  BY DEF Hangup
<1>2. <<>> \in Seq(BusEvent) /\ <<>> \in Seq(Nat)
  BY EmptySeq
<1> QED
  BY <1>1, <1>2, NothingFollows, StreamTyped, StreamKeeps

LEMMA ReadKeeps ==
  ASSUME FeedInvariant, NEW s \in Stream, Read(s)
  PROVE  FeedInvariant'
<1> DEFINE i == Head(wire[s])
           w == Tail(wire[s])
           r == Append(seen[s], i)
<1>1. /\ UNCHANGED <<published, events, pc, pending, lastSent>>
      /\ wire' = [wire EXCEPT ![s] = w]
      /\ seen' = [seen EXCEPT ![s] = r]
      /\ wire[s] # <<>>
  BY DEF Read
<1>2. /\ i \in Nat
      /\ w \in Seq(Nat)
      /\ Len(w) = Len(wire[s]) - 1
      /\ \A n \in 1..Len(w) : w[n] = wire[s][n + 1]
  BY <1>1, StreamTyped, HeadTailProperties
<1>3. r \in Seq(Nat) /\ LastOf(r) = i
  BY <1>2, StreamTyped, AppendProperties, LastAppended
<1>4. Chain(published, s, i, w)
  BY <1>1, StreamTyped, ChainShrinks DEF Unbroken
<1>5. pc[s] # "off" /\ lastSent[s] = wire[s][Len(wire[s])]
  BY <1>1, StreamTyped DEF Unbroken
<1>6. wire[s][Len(wire[s])] = IF w = <<>> THEN i ELSE w[Len(w)]
  <2>1. Len(wire[s]) \in Nat \ {0} /\ i = wire[s][1]
    BY <1>1, StreamTyped, EmptySeq
  <2>2. CASE w = <<>>
    <3>1. Len(w) = 0
      BY <2>2, EmptySeq
    <3>2. Len(wire[s]) = 1
      BY <1>2, <2>1, <3>1
    <3> QED
      BY <2>1, <2>2, <3>2
  <2>3. CASE w # <<>>
    <3>1. Len(w) \in 1..Len(w) /\ Len(w) + 1 = Len(wire[s])
      BY <1>2, <2>1, <2>3, EmptySeq
    <3> QED
      BY <1>2, <2>3, <3>1
  <2> QED
    BY <2>2, <2>3
<1>7. EventChain(published, s, lastSent[s], pending[s])
  BY StreamTyped DEF Unbroken
<1>8. /\ pc' = [pc EXCEPT ![s] = pc[s]]
      /\ pending' = [pending EXCEPT ![s] = pending[s]]
      /\ lastSent' = [lastSent EXCEPT ![s] = lastSent[s]]
      /\ pc[s] \in {"off", "send", "select", "flush"}
      /\ pending[s] \in Seq(BusEvent)
      /\ lastSent[s] \in Nat
  BY <1>1, StreamTyped
<1> HIDE DEF i, w, r
<1>9. lastSent[s] = IF w = <<>> THEN LastOf(r) ELSE w[Len(w)]
  BY <1>3, <1>5, <1>6
<1>10. Chain(published, s, LastOf(r), w)
  BY <1>3, <1>4
<1> QED
  BY <1>1, <1>2, <1>3, <1>5, <1>7, <1>8, <1>9, <1>10, StreamKeeps

LEMMA FeedStep == FeedInvariant /\ [Next]_vars => FeedInvariant'
<1> SUFFICES ASSUME FeedInvariant, [Next]_vars PROVE FeedInvariant'
  OBVIOUS
<1>1. ASSUME NEW f \in Topic, Publish(f) PROVE FeedInvariant'
  BY <1>1, PublishKeeps
<1>2. ASSUME NEW s \in Stream, Connect(s) PROVE FeedInvariant'
  BY <1>2, ConnectKeeps
<1>3. ASSUME NEW s \in Stream, Handler(s) PROVE FeedInvariant'
  BY <1>3, SendKeeps, SignalKeeps, FlushKeeps DEF Handler
<1>4. ASSUME NEW s \in Stream, Ping(s) PROVE FeedInvariant'
  BY <1>4, SignalKeeps
<1>5. ASSUME NEW s \in Stream, Hangup(s) PROVE FeedInvariant'
  BY <1>5, HangupKeeps
<1>6. ASSUME NEW s \in Stream, Read(s) PROVE FeedInvariant'
  BY <1>6, ReadKeeps
<1>7. CASE UNCHANGED vars
  <2>1. /\ published' = published /\ events' = events /\ pc' = pc
        /\ pending' = pending /\ lastSent' = lastSent
        /\ wire' = wire /\ seen' = seen
    BY <1>7 DEF vars
  <2>2. (FeedTyped /\ LogOf(published, events))'
    BY <2>1 DEF FeedInvariant, FeedTyped, LogOf
  <2>3. ASSUME NEW s \in Stream PROVE Unbroken(s)'
    BY <2>1, OtherStreams DEF FeedInvariant
  <2> QED
    BY <2>2, <2>3 DEF FeedInvariant
<1> QED
  BY <1>1, <1>2, <1>3, <1>4, <1>5, <1>6, <1>7 DEF Next

(* At every moment the log is the last events published, and what a client
   has read, what is on its wire and what the handler has still to send form
   one chain in which only events that have left the log are missing. *)
THEOREM StreamsUnbroken == Spec => []FeedInvariant
BY FeedInit, FeedStep, PTL DEF Spec

-----------------------------------------------------------------------------
(* The refinement, step by step. *)
LEMMA ReadIsRead ==
  ASSUME FeedInvariant, NEW s \in Stream, Read(s)
  PROVE  Feed!Read(s)
<1> DEFINE i == Head(wire[s])
           a == LastOf(seen[s])
<1>1. /\ UNCHANGED published
      /\ seen' = [seen EXCEPT ![s] = Append(seen[s], i)]
      /\ wire[s] # <<>>
  <2>1. seen' = [seen EXCEPT ![s] = Append(@, Head(wire[s]))]
    BY DEF Read
  <2> QED
    BY <2>1 DEF Read
<1>2. Succeeds(published, s, a, i)
  BY <1>1, StreamTyped, ChainShrinks DEF Unbroken
<1>3. a = Feed!LastOf(seen[s])
  BY DEF LastOf, Feed!LastOf, Last, Feed!Last
<1>4. DOMAIN published = 1..Len(published)
  BY StreamTyped, LenProperties
<1> HIDE DEF i, a
<1>5. /\ i \in DOMAIN published
      /\ i > Feed!LastOf(seen[s])
      /\ Feed!Relevant(s, i)
      /\ \A j \in (Feed!LastOf(seen[s]) + 1)..(i - 1) :
           Feed!Relevant(s, j) => ~ Feed!Retained(j)
  BY <1>2, <1>3, <1>4 DEF Succeeds, Feed!Relevant, Feed!Retained
<1> QED
  BY <1>1, <1>5 DEF Feed!Read

LEMMA StepIsFeedStep ==
  FeedInvariant /\ [Next]_vars => [Feed!Next]_<<published, seen>>
<1> SUFFICES ASSUME FeedInvariant, [Next]_vars
             PROVE  Feed!Next \/ UNCHANGED <<published, seen>>
  OBVIOUS
<1>1. ASSUME NEW f \in Topic, Publish(f) PROVE Feed!Next
  BY <1>1 DEF Publish, Feed!Publish, Feed!Next
<1>2. ASSUME NEW s \in Stream, Read(s) PROVE Feed!Next
  BY <1>2, ReadIsRead DEF Feed!Next
<1>3. ASSUME NEW s \in Stream, Connect(s) \/ Handler(s) \/ Ping(s) \/ Hangup(s)
      PROVE  UNCHANGED <<published, seen>>
  BY <1>3 DEF Connect, Handler, Send, Receive, Flush, Ping, Hangup
<1>4. CASE UNCHANGED vars
  BY <1>4 DEF vars
<1> QED
  BY <1>1, <1>2, <1>3, <1>4 DEF Next

(* Through full channels, snapshots, truncation and reconnections the client
   reads its workflow's events in order and once each, and misses none that
   is still in the log. *)
THEOREM HandlerKeepsOrder == Spec => ReadsInOrder
<1>1. Init => Feed!Init
  BY DEF Init, Feed!Init
<1> QED
  BY <1>1, StreamsUnbroken, StepIsFeedStep, PTL DEF Spec, ReadsInOrder, Feed!Spec
=============================================================================
