---------------------------- MODULE ShrinkerProofs ----------------------------
(***************************************************************************)
(* The delta debugger, for all scenarios, ladders and oracles: it never    *)
(* loses the failure, a task that is removed leaves the order of the       *)
(* others, and what a round leaves as it was is minimal.                   *)
(***************************************************************************)
EXTENDS Shrinker, DagProofs

(* q holds the elements of s up to n that are in S; e says where each is. *)
Embeds(e, q, s, S, n) ==
  /\ Len(q) <= n
  /\ e \in [1..Len(q) -> 1..n]
  /\ \A j \in 1..Len(q) : q[j] = s[e[j]] /\ s[e[j]] \in S
  /\ \A j, k \in 1..Len(q) : e[j] = e[k] => j = k
  /\ \A i \in 1..n : s[i] \in S => \E j \in 1..Len(q) : e[j] = i
  /\ (\E i \in 1..n : s[i] \notin S) => Len(q) < n

LEMMA EmbedsMore ==
  ASSUME NEW T, NEW s, NEW S, NEW n \in Nat \ {0}, NEW q \in Seq(T), s[n] \in T,
         NEW e, Embeds(e, q, s, S, n - 1)
  PROVE  \E f : Embeds(f, IF s[n] \in S THEN Append(q, s[n]) ELSE q, s, S, n)
<1>1. Len(q) \in Nat /\ n - 1 \in Nat
  BY LenProperties
<1>2. \A i \in 1..n : i = n \/ i \in 1..(n - 1)
  OBVIOUS
<1>3. \A j \in 1..Len(q) : e[j] \in 1..(n - 1) /\ e[j] # n /\ e[j] \in 1..n
  BY <1>1 DEF Embeds
<1>4. CASE s[n] \notin S
  <2>1. e \in [1..Len(q) -> 1..n]
    BY <1>3 DEF Embeds
  <2>2. Len(q) <= n - 1 /\ Len(q) < n
    BY <1>1 DEF Embeds
  <2>3. Embeds(e, q, s, S, n)
    BY <1>2, <1>4, <2>1, <2>2 DEF Embeds
  <2> QED
    BY <1>4, <2>3
<1>5. CASE s[n] \in S
  <2> DEFINE more == Append(q, s[n])
             L == Len(q) + 1
             f == [j \in 1..L |-> IF j = L THEN n ELSE e[j]]
  <2>1. /\ Len(more) = L /\ more[L] = s[n]
        /\ \A j \in 1..Len(q) : more[j] = q[j]
    BY AppendProperties
  <2>2. \A j \in 1..L : j = L \/ (j \in 1..Len(q) /\ j # L)
    BY <1>1
  <2>3. L \in 1..L /\ L \in Nat /\ 1..Len(q) \in SUBSET (1..L) /\ L <= n
    BY <1>1 DEF Embeds
  <2>4. f[L] = n /\ \A j \in 1..Len(q) : f[j] = e[j]
    BY <2>2, <2>3
  <2>5. f \in [1..L -> 1..n]
    BY <1>3, <2>2
  <2> HIDE DEF f, more, L
  <2>6. \A j \in 1..L : more[j] = s[f[j]] /\ s[f[j]] \in S
    BY <1>5, <2>1, <2>2, <2>4 DEF Embeds
  <2>7. \A j, k \in 1..L : f[j] = f[k] => j = k
    BY <1>3, <2>2, <2>4 DEF Embeds
  <2>8. \A i \in 1..n : s[i] \in S => \E j \in 1..L : f[j] = i
    BY <1>2, <2>3, <2>4 DEF Embeds
  <2>9. (\E i \in 1..n : s[i] \notin S) => L < n
    BY <1>1, <1>2, <1>5 DEF Embeds, L
  <2>10. Embeds(f, more, s, S, n)
    BY <2>1, <2>3, <2>5, <2>6, <2>7, <2>8, <2>9 DEF Embeds
  <2> QED
    BY <1>5, <2>10 DEF more
<1> QED
  BY <1>4, <1>5

LEMMA KeptEmbeds ==
  ASSUME NEW T, NEW s \in Seq(T), NEW S
  PROVE  Kept(s, S) \in Seq(T) /\ \E e : Embeds(e, Kept(s, S), s, S, Len(s))
<1> DEFINE n == Len(s)
           F == [i \in 1..n |-> [q \in Seq(T) |->
                  IF s[i] \in S THEN Append(q, s[i]) ELSE q]]
           To(g) == [i \in 0..n |-> IF i = 0 THEN <<>>
                       ELSE IF s[i] \in S THEN Append(g[i - 1], s[i]) ELSE g[i - 1]]
           kept == CHOOSE g : g = To(g)
<1>1. n \in Nat /\ \A i \in 1..n : s[i] \in T
  BY LenProperties, ElementOfSeq
<1>2. PICK g : Turns(g, Seq(T), <<>>, n, F)
  <2>1. F \in [1..n -> [Seq(T) -> Seq(T)]]
    BY <1>1, AppendProperties
  <2>2. <<>> \in Seq(T)
    BY EmptySeq
  <2> HIDE DEF F, n
  <2> QED
    BY <1>1, <2>1, <2>2, RecursionExists
<1>3. \A i \in 1..n : i \in 0..n /\ i - 1 \in 0..n /\ i # 0
  BY <1>1
<1>4. \A i \in 1..n : g[i] = IF s[i] \in S THEN Append(g[i - 1], s[i]) ELSE g[i - 1]
  BY <1>2, <1>3 DEF Turns
<1>5. g = To(g)
  <2>1. g = [i \in 0..n |-> g[i]]
    BY <1>2 DEF Turns
  <2>2. \A i \in 0..n : g[i] = IF i = 0 THEN <<>>
                  ELSE IF s[i] \in S THEN Append(g[i - 1], s[i]) ELSE g[i - 1]
    <3> TAKE i \in 0..n
    <3>1. CASE i = 0
      BY <1>2, <3>1 DEF Turns
    <3>2. CASE i # 0
      <4>1. i \in 1..n
        BY <1>1, <3>2
      <4> QED
        BY <1>4, <3>2, <4>1
    <3> QED
      BY <3>1, <3>2
  <2> HIDE DEF F, n
  <2> QED
    BY <2>1, <2>2
<1>6. kept = To(kept)
  <2> HIDE DEF To
  <2> QED
    BY <1>5
<1>7. Kept(s, S) = kept[n]
  BY DEF Kept
<1> HIDE DEF kept, F
<1>8. /\ kept[0] = <<>>
      /\ \A i \in 1..n :
           kept[i] = IF s[i] \in S THEN Append(kept[i - 1], s[i]) ELSE kept[i - 1]
  <2>1. To(kept)[0] = <<>>
    BY <1>1
  <2>2. \A i \in 1..n : To(kept)[i] =
          IF s[i] \in S THEN Append(kept[i - 1], s[i]) ELSE kept[i - 1]
    BY <1>3
  <2> HIDE DEF To
  <2> QED
    BY <1>6, <2>1, <2>2
<1> HIDE DEF n
<1>9. \A m \in 0..n : kept[m] \in Seq(T) /\ \E e : Embeds(e, kept[m], s, S, m)
  <2> DEFINE Fits(m) == kept[m] \in Seq(T) /\ \E e : Embeds(e, kept[m], s, S, m)
             Bad == {m \in 0..n : ~ Fits(m)}
  <2>1. Fits(0)
    <3> DEFINE e == [j \in 1..0 |-> 0]
    <3>1. <<>> \in Seq(T) /\ Len(<<>>) = 0
      BY EmptySeq
    <3>2. Embeds(e, <<>>, s, S, 0)
      BY <3>1 DEF Embeds
    <3> HIDE DEF e
    <3> QED
      BY <1>8, <3>1, <3>2
  <2>2. ASSUME NEW m \in 1..n, Fits(m - 1) PROVE Fits(m)
    <3>1. PICK e : Embeds(e, kept[m - 1], s, S, m - 1)
      BY <2>2
    <3>2. m \in Nat \ {0} /\ s[m] \in T /\ kept[m - 1] \in Seq(T)
      BY <1>1, <2>2 DEF n
    <3>3. \E f : Embeds(f, kept[m], s, S, m)
      <4>1. \E f : Embeds(f, IF s[m] \in S THEN Append(kept[m - 1], s[m])
                             ELSE kept[m - 1], s, S, m)
        BY <3>1, <3>2, EmbedsMore
      <4> QED
        BY <1>8, <4>1
    <3>4. kept[m] \in Seq(T)
      <4>1. Append(kept[m - 1], s[m]) \in Seq(T)
        BY <3>2, AppendProperties
      <4>2. kept[m] = IF s[m] \in S THEN Append(kept[m - 1], s[m]) ELSE kept[m - 1]
        BY <1>8
      <4> QED
        BY <3>2, <4>1, <4>2
    <3> QED
      BY <3>3, <3>4
  <2> HIDE DEF Fits
  <2> SUFFICES ASSUME Bad # {} PROVE FALSE
    BY DEF Fits
  <2>3. PICK m \in Bad : \A k \in Bad : m <= k
    <3>1. Bad \in SUBSET Nat
      BY <1>1
    <3> HIDE DEF Bad
    <3> QED
      BY <3>1, LeastNat
  <2>4. m \in 1..n /\ m - 1 \in 0..n /\ m - 1 < m
    BY <1>1, <2>1, <2>3
  <2>5. m - 1 \notin Bad
    BY <2>3, <2>4
  <2> QED
    BY <2>2, <2>3, <2>4, <2>5
<1>10. n \in 0..n
  BY <1>1
<1> QED
  BY <1>7, <1>9, <1>10 DEF n

LEMMA AppendSet ==
  ASSUME NEW T, NEW s \in Seq(T), NEW x \in T
  PROVE  ToSet(Append(s, x)) = ToSet(s) \cup {x}
<1>1. Len(s) \in Nat /\ DOMAIN s = 1..Len(s)
  BY LenProperties
<1>2. /\ Append(s, x) \in Seq(T) /\ Len(Append(s, x)) = Len(s) + 1
      /\ \A i \in 1..Len(s) : Append(s, x)[i] = s[i]
      /\ Append(s, x)[Len(s) + 1] = x
  BY AppendProperties
<1>3. DOMAIN Append(s, x) = 1..(Len(s) + 1)
  BY <1>2, LenProperties
<1>4. \A i \in 1..(Len(s) + 1) : i \in 1..Len(s) \/ i = Len(s) + 1
  BY <1>1
<1>5. \A i \in 1..Len(s) : i \in 1..(Len(s) + 1)
  BY <1>1
<1>6. Len(s) + 1 \in 1..(Len(s) + 1)
  BY <1>1
<1> QED
  BY <1>1, <1>2, <1>3, <1>4, <1>5, <1>6 DEF ToSet

LEMMA ConcatSet ==
  ASSUME NEW T, NEW s \in Seq(T), NEW r \in Seq(T)
  PROVE  s \o r \in Seq(T) /\ ToSet(s \o r) = ToSet(s) \cup ToSet(r)
<1> DEFINE L == Len(s)
           M == Len(r)
<1>1. L \in Nat /\ M \in Nat /\ DOMAIN s = 1..L /\ DOMAIN r = 1..M
  BY LenProperties
<1>2. /\ s \o r \in Seq(T) /\ Len(s \o r) = L + M
      /\ \A i \in 1..(L + M) : (s \o r)[i] = IF i <= L THEN s[i] ELSE r[i - L]
  BY ConcatProperties
<1>3. DOMAIN (s \o r) = 1..(L + M)
  BY <1>2, LenProperties
<1> DEFINE c == s \o r
<1> HIDE DEF c, L, M
<1>4. \A i \in 1..(L + M) : IF i <= L THEN i \in 1..L ELSE i - L \in 1..M
  BY <1>1
<1>5. \A i \in 1..L : i \in 1..(L + M) /\ i <= L
  BY <1>1
<1>6. \A i \in 1..M : i + L \in 1..(L + M) /\ ~ (i + L <= L) /\ (i + L) - L = i
  BY <1>1
<1>7. \A i \in 1..M : c[i + L] = r[i]
  BY <1>2, <1>6 DEF c
<1>8. \A i \in 1..L : c[i] = s[i]
  BY <1>2, <1>5 DEF c
<1>9. \A i \in 1..(L + M) : c[i] = IF i <= L THEN s[i] ELSE r[i - L]
  BY <1>2 DEF c
<1>10. ToSet(c) \subseteq ToSet(s) \cup ToSet(r)
  BY <1>1, <1>3, <1>4, <1>9 DEF ToSet, c
<1>11. ToSet(s) \subseteq ToSet(c)
  BY <1>1, <1>3, <1>5, <1>8 DEF ToSet, c
<1>12. ToSet(r) \subseteq ToSet(c)
  BY <1>1, <1>3, <1>6, <1>7 DEF ToSet, c
<1> QED
  BY <1>2, <1>10, <1>11, <1>12 DEF c

(* dict.fromkeys: the same names, each once. *)
LEMMA UniqueFacts ==
  ASSUME NEW T, NEW s \in Seq(T)
  PROVE  /\ Unique(s) \in Seq(T)
         /\ ToSet(Unique(s)) = ToSet(s)
         /\ \A j, k \in 1..Len(Unique(s)) : Unique(s)[j] = Unique(s)[k] => j = k
<1> DEFINE n == Len(s)
           F == [i \in 1..n |-> [q \in Seq(T) |->
                  IF s[i] \in ToSet(q) THEN q ELSE Append(q, s[i])]]
           To(g) == [i \in 0..n |-> IF i = 0 THEN <<>>
                       ELSE IF s[i] \in ToSet(g[i - 1]) THEN g[i - 1]
                       ELSE Append(g[i - 1], s[i])]
           once == CHOOSE g : g = To(g)
<1>1. n \in Nat /\ DOMAIN s = 1..n /\ \A i \in 1..n : s[i] \in T
  BY LenProperties, ElementOfSeq
<1>2. PICK g : Turns(g, Seq(T), <<>>, n, F)
  <2>1. F \in [1..n -> [Seq(T) -> Seq(T)]]
    BY <1>1, AppendProperties
  <2>2. <<>> \in Seq(T)
    BY EmptySeq
  <2> HIDE DEF F, n
  <2> QED
    BY <1>1, <2>1, <2>2, RecursionExists
<1>3. \A i \in 1..n : i \in 0..n /\ i - 1 \in 0..n /\ i # 0
  BY <1>1
<1>4. \A i \in 1..n :
        g[i] = IF s[i] \in ToSet(g[i - 1]) THEN g[i - 1] ELSE Append(g[i - 1], s[i])
  BY <1>2, <1>3 DEF Turns
<1>5. g = To(g)
  <2>1. g = [i \in 0..n |-> g[i]]
    BY <1>2 DEF Turns
  <2>2. \A i \in 0..n : g[i] = IF i = 0 THEN <<>>
                  ELSE IF s[i] \in ToSet(g[i - 1]) THEN g[i - 1]
                  ELSE Append(g[i - 1], s[i])
    <3> TAKE i \in 0..n
    <3>1. CASE i = 0
      BY <1>2, <3>1 DEF Turns
    <3>2. CASE i # 0
      <4>1. i \in 1..n
        BY <1>1, <3>2
      <4> QED
        BY <1>4, <3>2, <4>1
    <3> QED
      BY <3>1, <3>2
  <2> HIDE DEF F, n
  <2> QED
    BY <2>1, <2>2
<1>6. once = To(once)
  <2> HIDE DEF To
  <2> QED
    BY <1>5
<1>7. Unique(s) = once[n]
  BY DEF Unique
<1> HIDE DEF once, F
<1>8. /\ once[0] = <<>>
      /\ \A i \in 1..n :
           once[i] = IF s[i] \in ToSet(once[i - 1]) THEN once[i - 1]
                     ELSE Append(once[i - 1], s[i])
  <2>1. To(once)[0] = <<>>
    BY <1>1
  <2>2. \A i \in 1..n : To(once)[i] =
          IF s[i] \in ToSet(once[i - 1]) THEN once[i - 1] ELSE Append(once[i - 1], s[i])
    BY <1>3
  <2> HIDE DEF To
  <2> QED
    BY <1>6, <2>1, <2>2
<1> HIDE DEF n
<1> DEFINE Good(q, m) ==
             /\ q \in Seq(T)
             /\ ToSet(q) = {s[i] : i \in 1..m}
             /\ \A j, k \in 1..Len(q) : q[j] = q[k] => j = k
<1>9. \A m \in 0..n : Good(once[m], m)
  <2> DEFINE Bad == {m \in 0..n : ~ Good(once[m], m)}
  <2>1. Good(once[0], 0)
    <3>1. <<>> \in Seq(T) /\ Len(<<>>) = 0 /\ DOMAIN <<>> = 1..0
      BY EmptySeq, LenProperties
    <3>2. ToSet(<<>>) = {s[i] : i \in 1..0}
      BY <3>1 DEF ToSet
    <3> QED
      BY <1>8, <3>1, <3>2
  <2>2. ASSUME NEW m \in 1..n, NEW q, Good(q, m - 1)
        PROVE  Good(IF s[m] \in ToSet(q) THEN q ELSE Append(q, s[m]), m)
    <3>1. s[m] \in T /\ q \in Seq(T) /\ Len(q) \in Nat /\ DOMAIN q = 1..Len(q)
      BY <1>1, <2>2, LenProperties DEF n
    <3>2. \A i \in 1..m : i = m \/ i \in 1..(m - 1)
      OBVIOUS
    <3>3. m \in 1..m /\ \A i \in 1..(m - 1) : i \in 1..m
      BY <1>1, <2>2
    <3>4. {s[i] : i \in 1..m} = {s[i] : i \in 1..(m - 1)} \cup {s[m]}
      BY <3>2, <3>3
    <3>5. CASE s[m] \in ToSet(q)
      BY <2>2, <3>4, <3>5
    <3>6. CASE s[m] \notin ToSet(q)
      <4> DEFINE more == Append(q, s[m])
      <4>1. /\ more \in Seq(T) /\ Len(more) = Len(q) + 1
            /\ \A i \in 1..Len(q) : more[i] = q[i]
            /\ more[Len(q) + 1] = s[m]
        BY <3>1, AppendProperties
      <4>2. ToSet(more) = ToSet(q) \cup {s[m]}
        BY <3>1, AppendSet
      <4>3. \A j \in 1..(Len(q) + 1) : j = Len(q) + 1 \/ j \in 1..Len(q)
        BY <3>1
      <4>4. \A j \in 1..Len(q) : q[j] # s[m]
        BY <3>1, <3>6 DEF ToSet
      <4> HIDE DEF more
      <4>5. \A j, k \in 1..(Len(q) + 1) : more[j] = more[k] => j = k
        BY <2>2, <4>1, <4>3, <4>4
      <4>6. Good(more, m)
        BY <2>2, <3>4, <4>1, <4>2, <4>5
      <4> QED
        BY <3>6, <4>6 DEF more
    <3> QED
      BY <3>5, <3>6
  <2> HIDE DEF Good
  <2>3. ASSUME NEW m \in 1..n, Good(once[m - 1], m - 1) PROVE Good(once[m], m)
    <3>1. Good(IF s[m] \in ToSet(once[m - 1]) THEN once[m - 1]
               ELSE Append(once[m - 1], s[m]), m)
      BY <2>2, <2>3
    <3> QED
      BY <1>8, <3>1
  <2> SUFFICES ASSUME Bad # {} PROVE FALSE
    OBVIOUS
  <2>4. PICK m \in Bad : \A k \in Bad : m <= k
    <3>1. Bad \in SUBSET Nat
      BY <1>1
    <3> HIDE DEF Bad
    <3> QED
      BY <3>1, LeastNat
  <2>5. m \in 1..n /\ m - 1 \in 0..n /\ m - 1 < m
    BY <1>1, <2>1, <2>4
  <2>6. m - 1 \notin Bad
    BY <2>4, <2>5
  <2> QED
    BY <2>3, <2>4, <2>5, <2>6
<1>10. n \in 0..n
  BY <1>1
<1>11. Good(Unique(s), n)
  <2> HIDE DEF Good
  <2> QED
    BY <1>7, <1>9, <1>10
<1> QED
  BY <1>1, <1>11 DEF ToSet

(* The names a dependency stands for once target is taken away. *)
StandsFor(d, target, instead) == IF d = target THEN ToSet(instead) ELSE {d}

LEMMA ExpandedFacts ==
  ASSUME NEW T, NEW s \in Seq(T), NEW target, NEW instead \in Seq(T)
  PROVE  /\ Expanded(s, target, instead) \in Seq(T)
         /\ ToSet(Expanded(s, target, instead)) =
              UNION {StandsFor(d, target, instead) : d \in ToSet(s)}
<1> DEFINE n == Len(s)
           part(i) == IF s[i] = target THEN instead ELSE <<s[i]>>
           F == [i \in 1..n |-> [q \in Seq(T) |-> q \o part(i)]]
           To(g) == [i \in 0..n |-> IF i = 0 THEN <<>> ELSE g[i - 1] \o part(i)]
           all == CHOOSE g : g = To(g)
<1>1. n \in Nat /\ DOMAIN s = 1..n /\ \A i \in 1..n : s[i] \in T
  BY LenProperties, ElementOfSeq
<1>2. \A i \in 1..n : part(i) \in Seq(T) /\ ToSet(part(i)) = StandsFor(s[i], target, instead)
  <2> TAKE i \in 1..n
  <2>1. <<s[i]>> \in Seq(T) /\ ToSet(<<s[i]>>) = {s[i]}
    BY <1>1 DEF ToSet
  <2> QED
    BY <2>1 DEF StandsFor
<1> HIDE DEF part
<1>3. PICK g : Turns(g, Seq(T), <<>>, n, F)
  <2>1. F \in [1..n -> [Seq(T) -> Seq(T)]]
    BY <1>2, ConcatProperties
  <2>2. <<>> \in Seq(T)
    BY EmptySeq
  <2> HIDE DEF F, n
  <2> QED
    BY <1>1, <2>1, <2>2, RecursionExists
<1>4. \A i \in 1..n : i \in 0..n /\ i - 1 \in 0..n /\ i # 0
  BY <1>1
<1>5. \A i \in 1..n : g[i] = g[i - 1] \o part(i)
  BY <1>3, <1>4 DEF Turns
<1>6. g = To(g)
  <2>1. g = [i \in 0..n |-> g[i]]
    BY <1>3 DEF Turns
  <2>2. \A i \in 0..n : g[i] = IF i = 0 THEN <<>> ELSE g[i - 1] \o part(i)
    <3> TAKE i \in 0..n
    <3>1. CASE i = 0
      BY <1>3, <3>1 DEF Turns
    <3>2. CASE i # 0
      <4>1. i \in 1..n
        BY <1>1, <3>2
      <4> QED
        BY <1>5, <3>2, <4>1
    <3> QED
      BY <3>1, <3>2
  <2> HIDE DEF F, n
  <2> QED
    BY <2>1, <2>2
<1>7. all = To(all)
  <2> HIDE DEF To
  <2> QED
    BY <1>6
<1>8. Expanded(s, target, instead) = all[n]
  BY DEF Expanded, part
<1> HIDE DEF all, F
<1>9. all[0] = <<>> /\ \A i \in 1..n : all[i] = all[i - 1] \o part(i)
  <2>1. To(all)[0] = <<>>
    BY <1>1
  <2>2. \A i \in 1..n : To(all)[i] = all[i - 1] \o part(i)
    BY <1>4
  <2> HIDE DEF To
  <2> QED
    BY <1>7, <2>1, <2>2
<1> DEFINE Covered(m) == UNION {StandsFor(s[i], target, instead) : i \in 1..m}
           Good(m) == all[m] \in Seq(T) /\ ToSet(all[m]) = Covered(m)
<1> HIDE DEF n
<1>10. \A m \in 0..n : Good(m)
  <2> DEFINE Bad == {m \in 0..n : ~ Good(m)}
  <2>1. Good(0)
    <3>1. <<>> \in Seq(T) /\ DOMAIN <<>> = 1..0
      BY EmptySeq, LenProperties
    <3>2. ToSet(<<>>) = {}
      BY <3>1 DEF ToSet
    <3>3. Covered(0) = {}
      OBVIOUS
    <3> QED
      BY <1>9, <3>1, <3>2, <3>3
  <2>2. ASSUME NEW m \in 1..n, Good(m - 1) PROVE Good(m)
    <3>1. Covered(m) = Covered(m - 1) \cup StandsFor(s[m], target, instead)
      <4>1. \A i \in 1..m : i = m \/ i \in 1..(m - 1)
        OBVIOUS
      <4>2. m \in 1..m /\ \A i \in 1..(m - 1) : i \in 1..m
        BY <1>1, <2>2 DEF n
      <4> QED
        BY <4>1, <4>2
    <3>2. all[m] = all[m - 1] \o part(m) /\ all[m - 1] \in Seq(T) /\ part(m) \in Seq(T)
      BY <1>2, <1>9, <2>2
    <3> HIDE DEF Covered
    <3>3. all[m] \in Seq(T) /\ ToSet(all[m]) = ToSet(all[m - 1]) \cup ToSet(part(m))
      BY <3>2, ConcatSet
    <3> QED
      BY <1>2, <2>2, <3>1, <3>3
  <2> HIDE DEF Good
  <2> SUFFICES ASSUME Bad # {} PROVE FALSE
    OBVIOUS
  <2>3. PICK m \in Bad : \A k \in Bad : m <= k
    <3>1. Bad \in SUBSET Nat
      BY <1>1
    <3> HIDE DEF Bad
    <3> QED
      BY <3>1, LeastNat
  <2>4. m \in 1..n /\ m - 1 \in 0..n /\ m - 1 < m
    BY <1>1, <2>1, <2>3
  <2>5. m - 1 \notin Bad
    BY <2>3, <2>4
  <2> QED
    BY <2>2, <2>3, <2>4, <2>5
<1>11. n \in 0..n
  BY <1>1
<1>12. Good(n)
  <2> HIDE DEF Good
  <2> QED
    BY <1>10, <1>11
<1>13. Covered(n) = UNION {StandsFor(d, target, instead) : d \in ToSet(s)}
  BY <1>1 DEF ToSet
<1> QED
  BY <1>8, <1>12, <1>13

-----------------------------------------------------------------------------
(* Removing a task. *)

IsValid(tasks) == tasks \in Seq(TaskSpecs) /\ ValidDag(tasks)

(* What validate_dag makes sure of. *)
LEMMA ValidMeans ==
  ASSUME NEW tasks \in Seq(TaskSpecs)
  PROVE  /\ IsGraph(tasks) /\ DOMAIN tasks = 1..Len(tasks)
         /\ \A i \in 1..Len(tasks) : tasks[i] \in TaskSpecs
         /\ ValidDag(tasks) <=>
              /\ Len(tasks) > 0
              /\ Cardinality(Ids(tasks)) = Len(tasks)
              /\ \A i \in 1..Len(tasks) :
                   /\ tasks[i].id \notin ToSet(tasks[i].needs)
                   /\ NoRepeats(tasks[i].needs)
                   /\ ToSet(tasks[i].needs) \subseteq Ids(tasks)
              /\ ToSet(KahnOrder(tasks)) = Ids(tasks)
<1>1. /\ DOMAIN tasks = 1..Len(tasks) /\ Len(tasks) \in Nat
      /\ \A i \in 1..Len(tasks) : tasks[i] \in TaskSpecs
  BY LenProperties, ElementOfSeq
<1>2. IsGraph(tasks)
  BY <1>1 DEF IsGraph, TaskSpecs
<1> QED
  BY <1>1, <1>2, ValidDagMeans

(* One task as _without_task leaves it. *)
Spared(t, target, instead) ==
  IF target \in ToSet(t.needs)
  THEN [t EXCEPT !.needs = Spliced(@, target, instead)] ELSE t

LEMMA SparedFacts ==
  ASSUME NEW t \in TaskSpecs, NEW target, NEW instead \in Seq(Nat)
  PROVE  /\ Spared(t, target, instead) \in TaskSpecs
         /\ Spared(t, target, instead).id = t.id
         /\ ToSet(Spared(t, target, instead).needs) =
              UNION {StandsFor(d, target, instead) : d \in ToSet(t.needs)}
         /\ NoRepeats(t.needs) => NoRepeats(Spared(t, target, instead).needs)
<1> DEFINE s == t.needs
           e == Expanded(s, target, instead)
           r == Spliced(s, target, instead)
           u == Spared(t, target, instead)
<1>1. s \in Seq(Nat)
  BY DEF TaskSpecs
<1>2. e \in Seq(Nat) /\ ToSet(e) = UNION {StandsFor(d, target, instead) : d \in ToSet(s)}
  <2> HIDE DEF s
  <2> QED
    BY <1>1, ExpandedFacts
<1>3. r \in Seq(Nat) /\ ToSet(r) = ToSet(e) /\ NoRepeats(r)
  <2>1. r = Unique(e)
    BY DEF Spliced
  <2> HIDE DEF e, r
  <2>2. r \in Seq(Nat) /\ ToSet(r) = ToSet(e)
        /\ \A j, k \in 1..Len(r) : r[j] = r[k] => j = k
    BY <1>2, <2>1, UniqueFacts
  <2> QED
    BY <2>2, DistinctCount DEF NoRepeats
<1>4. CASE target \in ToSet(s)
  <2>1. u = [t EXCEPT !.needs = r]
    BY <1>4 DEF Spared
  <2> HIDE DEF r, u
  <2>2. u \in TaskSpecs /\ u.id = t.id /\ u.needs = r
    BY <1>3, <2>1 DEF TaskSpecs
  <2> QED
    BY <1>2, <1>3, <2>2 DEF u
<1>5. CASE target \notin ToSet(s)
  <2>1. u = t
    BY <1>5 DEF Spared
  <2>2. ToSet(s) = UNION {StandsFor(d, target, instead) : d \in ToSet(s)}
    BY <1>5 DEF StandsFor
  <2> QED
    BY <2>1, <2>2
<1> QED
  BY <1>4, <1>5

LEMMA WithoutShape ==
  ASSUME NEW tasks \in Seq(TaskSpecs), NEW x \in Ids(tasks)
  PROVE  LET new     == WithoutTask(tasks, x)
             instead == ById(tasks, x).needs
         IN  /\ new \in Seq(TaskSpecs) /\ instead \in Seq(Nat)
             /\ Len(new) < Len(tasks)
             /\ \E e \in [1..Len(new) -> 1..Len(tasks)] :
                  /\ \A j \in 1..Len(new) :
                       tasks[e[j]].id # x /\ new[j] = Spared(tasks[e[j]], x, instead)
                  /\ \A j, k \in 1..Len(new) : e[j] = e[k] => j = k
                  /\ \A i \in 1..Len(tasks) :
                       tasks[i].id # x => \E j \in 1..Len(new) : e[j] = i
<1> DEFINE N == Len(tasks)
           K == {t \in ToSet(tasks) : t.id # x}
           rest == Kept(tasks, K)
           instead == ById(tasks, x).needs
           new == WithoutTask(tasks, x)
<1>1. N \in Nat /\ DOMAIN tasks = 1..N /\ \A i \in 1..N : tasks[i] \in TaskSpecs
  BY ValidMeans, LenProperties
<1>2. PICK p \in 1..N : tasks[p].id = x /\ ById(tasks, x) = tasks[p]
  BY <1>1, ByIdIsTask
<1>3. instead \in Seq(Nat)
  BY <1>1, <1>2 DEF TaskSpecs
<1>4. rest \in Seq(TaskSpecs) /\ \E e : Embeds(e, rest, tasks, K, N)
  <2> HIDE DEF K
  <2> QED
    BY KeptEmbeds
<1>5. PICK e : Embeds(e, rest, tasks, K, N)
  BY <1>4
<1>6. \A i \in 1..N : tasks[i] \in K <=> tasks[i].id # x
  BY <1>1 DEF ToSet
<1>7. new = [i \in DOMAIN rest |-> Spared(rest[i], x, instead)]
  BY DEF WithoutTask, Spared
<1> HIDE DEF rest, K, new, instead
<1>8. Len(rest) \in Nat /\ DOMAIN rest = 1..Len(rest)
      /\ \A i \in 1..Len(rest) : rest[i] \in TaskSpecs
  BY <1>4, LenProperties, ElementOfSeq
<1>9. \A i \in 1..Len(rest) : Spared(rest[i], x, instead) \in TaskSpecs
  BY <1>3, <1>8, SparedFacts
<1>10. new \in Seq(TaskSpecs) /\ Len(new) = Len(rest)
       /\ \A i \in 1..Len(rest) : new[i] = Spared(rest[i], x, instead)
  <2>1. new \in [1..Len(rest) -> TaskSpecs]
    BY <1>7, <1>8, <1>9
  <2>2. new \in Seq(TaskSpecs)
    <3> DEFINE n == Len(rest)
    <3>1. n \in Nat /\ new \in [1..n -> TaskSpecs]
      BY <1>8, <2>1
    <3>2. \A S, f : \A k \in Nat : f \in [1..k -> S] => f \in Seq(S)
      BY SeqDef
    <3> HIDE DEF n
    <3> QED
      BY <3>1, <3>2, Zenon
  <2>3. Len(new) = Len(rest)
    <3>1. DOMAIN new = 1..Len(new) /\ Len(new) \in Nat
      BY <2>2, LenProperties
    <3>2. DOMAIN new = 1..Len(rest)
      BY <1>7, <1>8
    <3>3. 1..Len(new) = 1..Len(rest)
      BY <3>1, <3>2
    <3> QED
      BY <1>8, <3>1, <3>3, IntervalCount
  <2> QED
    BY <1>7, <1>8, <2>2, <2>3
<1>11. Len(rest) < N
  BY <1>2, <1>5, <1>6 DEF Embeds
<1>12. e \in [1..Len(new) -> 1..N]
  BY <1>5, <1>10 DEF Embeds
<1>13. \A j \in 1..Len(new) :
         tasks[e[j]].id # x /\ new[j] = Spared(tasks[e[j]], x, instead)
  <2> TAKE j \in 1..Len(new)
  <2>1. rest[j] = tasks[e[j]] /\ tasks[e[j]] \in K /\ e[j] \in 1..N
    BY <1>5, <1>10 DEF Embeds
  <2> QED
    BY <1>6, <1>10, <2>1
<1>14. /\ \A j, k \in 1..Len(new) : e[j] = e[k] => j = k
       /\ \A i \in 1..N : tasks[i].id # x => \E j \in 1..Len(new) : e[j] = i
  BY <1>5, <1>6, <1>10 DEF Embeds
<1> QED
  BY <1>3, <1>10, <1>11, <1>12, <1>13, <1>14 DEF new, instead

(* The graph that is left: each task needs what it needed, and for target what
   target needed. *)
LEMMA WithoutGraph ==
  ASSUME NEW tasks, IsValid(tasks), NEW x \in Ids(tasks)
  PROVE  LET new == WithoutTask(tasks, x) IN
         /\ Ids(new) = Ids(tasks) \ {x}
         /\ Cardinality(Ids(new)) = Len(new)
         /\ \A i \in 1..Len(new) :
              NoRepeats(new[i].needs) /\ ToSet(new[i].needs) = Needs(new, new[i].id)
         /\ \A t \in Ids(new) :
              Needs(new, t) = UNION {IF d = x THEN Needs(tasks, x) ELSE {d}
                                     : d \in Needs(tasks, t)}
<1> DEFINE N == Len(tasks)
           new == WithoutTask(tasks, x)
           M == Len(new)
           instead == ById(tasks, x).needs
<1>1. /\ N \in Nat /\ DOMAIN tasks = 1..N /\ IsGraph(tasks)
      /\ \A i \in 1..N : tasks[i] \in TaskSpecs /\ NoRepeats(tasks[i].needs)
      /\ Cardinality(Ids(tasks)) = N
  BY ValidMeans DEF IsValid, IsGraph
<1>2. \A i, k \in 1..N : tasks[i].id = tasks[k].id => i = k
  BY <1>1, GraphIds
<1>3. \A i \in 1..N : ById(tasks, tasks[i].id) = tasks[i]
  BY <1>1, <1>2 DEF ById
<1>4. /\ new \in Seq(TaskSpecs) /\ instead \in Seq(Nat)
      /\ \E e \in [1..M -> 1..N] :
           /\ \A j \in 1..M :
                tasks[e[j]].id # x /\ new[j] = Spared(tasks[e[j]], x, instead)
           /\ \A j, k \in 1..M : e[j] = e[k] => j = k
           /\ \A i \in 1..N : tasks[i].id # x => \E j \in 1..M : e[j] = i
  BY WithoutShape DEF IsValid
<1>5. PICK e \in [1..M -> 1..N] :
        /\ \A j \in 1..M :
             tasks[e[j]].id # x /\ new[j] = Spared(tasks[e[j]], x, instead)
        /\ \A j, k \in 1..M : e[j] = e[k] => j = k
        /\ \A i \in 1..N : tasks[i].id # x => \E j \in 1..M : e[j] = i
  BY <1>4
<1>6. ToSet(instead) = Needs(tasks, x)
  BY DEF Needs
<1> HIDE DEF new, instead, N, M
<1>7. ASSUME NEW j \in 1..M
      PROVE  /\ e[j] \in 1..N /\ new[j].id = tasks[e[j]].id
             /\ NoRepeats(new[j].needs)
             /\ ToSet(new[j].needs) =
                  UNION {StandsFor(d, x, instead) : d \in ToSet(tasks[e[j]].needs)}
  <2>1. e[j] \in 1..N /\ new[j] = Spared(tasks[e[j]], x, instead)
    BY <1>5
  <2>2. tasks[e[j]] \in TaskSpecs /\ NoRepeats(tasks[e[j]].needs)
    BY <1>1, <2>1
  <2> DEFINE old == tasks[e[j]]
             u == Spared(old, x, instead)
  <2>0. old \in TaskSpecs
    BY <2>2
  <2> HIDE DEF old
  <2>3. /\ u.id = old.id
        /\ ToSet(u.needs) = UNION {StandsFor(d, x, instead) : d \in ToSet(old.needs)}
        /\ NoRepeats(old.needs) => NoRepeats(u.needs)
    BY <1>4, <2>0, SparedFacts
  <2> HIDE DEF u
  <2> QED
    BY <2>1, <2>2, <2>3 DEF old, u
<1>8. IsGraph(new) /\ DOMAIN new = 1..M /\ M \in Nat
  BY <1>4, ValidMeans, LenProperties DEF M
<1>9. Ids(new) = Ids(tasks) \ {x}
  <2>1. Ids(new) \subseteq Ids(tasks) \ {x}
    BY <1>1, <1>5, <1>7, <1>8 DEF Ids
  <2>2. Ids(tasks) \ {x} \subseteq Ids(new)
    <3> SUFFICES ASSUME NEW t \in Ids(tasks), t # x PROVE t \in Ids(new)
      OBVIOUS
    <3>1. PICK i \in 1..N : tasks[i].id = t
      BY <1>1 DEF Ids
    <3>2. PICK j \in 1..M : e[j] = i
      BY <1>5, <3>1
    <3>3. new[j].id = t
      BY <1>7, <3>1, <3>2
    <3> QED
      BY <1>8, <3>3 DEF Ids
  <2> QED
    BY <2>1, <2>2
<1>10. \A j, k \in 1..M : new[j].id = new[k].id => j = k
  BY <1>2, <1>5, <1>7
<1>11. Cardinality(Ids(new)) = M
  BY <1>8, <1>10, GraphIds DEF M
<1>12. \A j \in 1..M : ById(new, new[j].id) = new[j]
  BY <1>8, <1>10 DEF ById
<1>13. \A j \in 1..M : ToSet(new[j].needs) = Needs(new, new[j].id)
  BY <1>12 DEF Needs
<1>14. ASSUME NEW t \in Ids(new)
       PROVE  Needs(new, t) = UNION {IF d = x THEN Needs(tasks, x) ELSE {d}
                                     : d \in Needs(tasks, t)}
  <2>1. PICK j \in 1..M : new[j].id = t
    BY <1>8 DEF Ids
  <2>2. Needs(new, t) = ToSet(new[j].needs)
    BY <1>13, <2>1
  <2>3. Needs(tasks, t) = ToSet(tasks[e[j]].needs)
    BY <1>3, <1>7, <2>1 DEF Needs
  <2>4. Needs(new, t) = UNION {StandsFor(d, x, instead) : d \in Needs(tasks, t)}
    BY <1>7, <2>2, <2>3
  <2> QED
    BY <1>6, <2>4 DEF StandsFor
<1> QED
  BY <1>7, <1>9, <1>11, <1>13, <1>14 DEF new, M

LEMMA ValidNeeds ==
  ASSUME NEW tasks, IsValid(tasks)
  PROVE  /\ IsGraph(tasks) /\ NoneMissing(tasks)
         /\ \E rank : Ranks(tasks, rank)
<1>1. /\ IsGraph(tasks) /\ DOMAIN tasks = 1..Len(tasks)
      /\ \A i \in 1..Len(tasks) : ToSet(tasks[i].needs) \subseteq Ids(tasks)
      /\ ToSet(KahnOrder(tasks)) = Ids(tasks)
  BY ValidMeans DEF IsValid
<1>2. NoneMissing(tasks)
  <2> SUFFICES ASSUME NEW t \in Ids(tasks) PROVE Needs(tasks, t) \in SUBSET Ids(tasks)
    BY DEF NoneMissing
  <2>1. PICK i \in DOMAIN tasks : ById(tasks, t) = tasks[i]
    BY ByIdIsTask
  <2> QED
    BY <1>1, <2>1 DEF Needs
<1> QED
  BY <1>1, <1>2, KahnSound, OrderRanks

LEMMA WithoutIsValid ==
  ASSUME NEW tasks, IsValid(tasks), Len(tasks) > 1, NEW x \in Ids(tasks)
  PROVE  IsValid(WithoutTask(tasks, x))
<1> DEFINE new == WithoutTask(tasks, x)
<1>1. PICK rank : Ranks(tasks, rank)
  BY ValidNeeds
<1>2. /\ Ids(new) = Ids(tasks) \ {x}
      /\ Cardinality(Ids(new)) = Len(new)
      /\ \A i \in 1..Len(new) :
           NoRepeats(new[i].needs) /\ ToSet(new[i].needs) = Needs(new, new[i].id)
      /\ \A t \in Ids(new) :
           Needs(new, t) = UNION {IF d = x THEN Needs(tasks, x) ELSE {d}
                                  : d \in Needs(tasks, t)}
  BY WithoutGraph
<1>3. new \in Seq(TaskSpecs)
  BY WithoutShape DEF IsValid
<1> HIDE DEF new
<1>4. IsGraph(new) /\ DOMAIN new = 1..Len(new)
  BY <1>3, ValidMeans
<1>5. Len(new) > 0
  <2>1. IsGraph(tasks) /\ Cardinality(Ids(tasks)) = Len(tasks) /\ Len(tasks) \in Nat
    BY ValidMeans DEF IsValid, IsGraph
  <2>2. Cardinality(Ids(new)) = Cardinality(Ids(tasks)) - 1
    BY <1>2, <2>1, GraphIds, FS_RemoveElement
  <2> QED
    BY <1>2, <2>1, <2>2
<1>6. ASSUME NEW t \in Ids(new), NEW d \in Needs(new, t)
      PROVE  d \in Ids(new) /\ rank[d] < rank[t]
  <2>1. t \in Ids(tasks) /\ NoneMissing(tasks) /\ rank[t] \in Nat /\ rank[x] \in Nat
    BY <1>1, <1>2, ValidNeeds DEF Ranks
  <2>2. PICK c \in Needs(tasks, t) : d \in (IF c = x THEN Needs(tasks, x) ELSE {c})
    BY <1>2
  <2>3. c \in Ids(tasks) /\ rank[c] < rank[t]
    BY <1>1, <2>1 DEF NoneMissing, Ranks
  <2>4. CASE c # x
    BY <1>2, <2>2, <2>3, <2>4
  <2>5. CASE c = x
    <3>1. d \in Needs(tasks, x)
      BY <2>2, <2>5
    <3>2. d \in Ids(tasks) /\ rank[d] < rank[x] /\ rank[d] \in Nat
      BY <1>1, <2>1, <3>1 DEF NoneMissing, Ranks
    <3>3. d # x
      BY <2>1, <3>2
    <3> QED
      BY <1>2, <2>1, <2>3, <2>5, <3>2, <3>3
  <2> QED
    BY <2>4, <2>5
<1>7. Ranks(new, rank)
  BY <1>1, <1>2, <1>6 DEF Ranks
<1>8. ToSet(KahnOrder(new)) = Ids(new)
  BY <1>4, <1>7, KahnComplete
<1>9. ASSUME NEW i \in 1..Len(new)
      PROVE  /\ new[i].id \notin ToSet(new[i].needs)
             /\ ToSet(new[i].needs) \subseteq Ids(new)
  <2>1. new[i].id \in Ids(new) /\ ToSet(new[i].needs) = Needs(new, new[i].id)
    BY <1>2, <1>4, Zenon DEF Ids
  <2> DEFINE t == new[i].id
  <2>2. t \in Ids(new) /\ ToSet(new[i].needs) = Needs(new, t)
    BY <2>1
  <2> HIDE DEF t
  <2>3. rank[t] \in Nat
    BY <1>7, <2>2 DEF Ranks
  <2>4. \A d \in Needs(new, t) : d \in Ids(new) /\ rank[d] < rank[t]
    BY <1>6, <2>2
  <2>5. t \notin Needs(new, t)
    BY <2>3, <2>4
  <2>6. new[i].id = t
    BY DEF t
  <2> QED
    BY <2>2, <2>4, <2>5, <2>6
<1>10. ValidDag(new)
  BY <1>2, <1>3, <1>5, <1>8, <1>9, ValidMeans
<1> QED
  BY <1>3, <1>10 DEF IsValid, new

(* The others wait for what they waited for. *)
LEMMA AncestorsWithout ==
  ASSUME NEW tasks, IsValid(tasks), NEW x \in Ids(tasks),
         IsValid(WithoutTask(tasks, x)), NEW t \in Ids(WithoutTask(tasks, x))
  PROVE  Ancestors(WithoutTask(tasks, x), t) = Ancestors(tasks, t) \ {x}
<1> DEFINE new == WithoutTask(tasks, x)
           A == Ancestors(tasks, t)
           B == Ancestors(new, t)
           C == A \ {x}
           D == B \cup (IF Needs(tasks, x) \subseteq B THEN {x} ELSE {})
<1>1. /\ Ids(new) = Ids(tasks) \ {x}
      /\ \A u \in Ids(new) :
           Needs(new, u) = UNION {IF d = x THEN Needs(tasks, x) ELSE {d}
                                  : d \in Needs(tasks, u)}
  BY WithoutGraph
<1>2. IsGraph(tasks) /\ NoneMissing(tasks) /\ IsGraph(new) /\ NoneMissing(new)
  BY ValidNeeds
<1>3. t \in Ids(tasks) /\ t \in Ids(new)
  BY <1>1
<1> HIDE DEF new
<1>4. /\ A \in SUBSET Ids(tasks) /\ Needs(tasks, t) \in SUBSET A
      /\ \A u \in A : Needs(tasks, u) \in SUBSET A
  BY <1>2, <1>3, AncestorsClosed
<1>5. /\ B \in SUBSET Ids(new) /\ Needs(new, t) \in SUBSET B
      /\ \A u \in B : Needs(new, u) \in SUBSET B
  BY <1>2, <1>3, AncestorsClosed
<1>6. B \in SUBSET C
  <2>1. \A u \in Ids(new) : Needs(tasks, u) \in SUBSET A => Needs(new, u) \in SUBSET C
    <3> SUFFICES ASSUME NEW u \in Ids(new), Needs(tasks, u) \in SUBSET A,
                        NEW d \in Needs(new, u)
                 PROVE  d \in C
      OBVIOUS
    <3>1. PICK c \in Needs(tasks, u) : d \in (IF c = x THEN Needs(tasks, x) ELSE {c})
      BY <1>1
    <3>2. c \in A
      OBVIOUS
    <3>3. d \in A
      BY <1>4, <3>1, <3>2
    <3>4. d # x
      BY <1>1, <1>2 DEF NoneMissing
    <3> QED
      BY <3>3, <3>4
  <2>2. Needs(new, t) \in SUBSET C
    BY <1>3, <1>4, <2>1
  <2>3. \A u \in C \cap Ids(new) : Needs(new, u) \in SUBSET C
    BY <1>4, <2>1
  <2> HIDE DEF C
  <2> QED
    BY <1>2, <1>3, <2>2, <2>3, AncestorsLeast
<1>7. A \in SUBSET D
  <2>1. ASSUME NEW u \in Ids(new), Needs(new, u) \in SUBSET B
        PROVE  Needs(tasks, u) \in SUBSET D
    <3> SUFFICES ASSUME NEW d \in Needs(tasks, u) PROVE d \in D
      OBVIOUS
    <3>1. CASE d = x
      <4>1. Needs(tasks, x) \subseteq Needs(new, u)
        BY <1>1, <3>1
      <4> QED
        BY <2>1, <3>1, <4>1
    <3>2. CASE d # x
      <4>1. d \in Needs(new, u)
        BY <1>1, <3>2
      <4> QED
        BY <2>1, <4>1
    <3> QED
      BY <3>1, <3>2
  <2>2. Needs(tasks, t) \in SUBSET D
    BY <1>3, <1>5, <2>1
  <2>3. \A u \in D \cap Ids(tasks) : Needs(tasks, u) \in SUBSET D
    <3> TAKE u \in D \cap Ids(tasks)
    <3>1. CASE u \in B
      BY <1>5, <2>1, <3>1
    <3>2. CASE u \notin B
      BY <3>2
    <3> QED
      BY <3>1, <3>2
  <2> HIDE DEF D
  <2> QED
    BY <1>2, <1>3, <2>2, <2>3, AncestorsLeast
<1>8. x \notin B
  BY <1>1, <1>5
<1> QED
  BY <1>6, <1>7, <1>8 DEF new

-----------------------------------------------------------------------------
(* The invariants.  What a pass has tried is no use without its place, so each
   pass has its own. *)

Passes == {"actions", "simplify", "workers", "tasks", "over"}

Shapes ==
  /\ original \in AllScenarios /\ current \in AllScenarios /\ trial \in AllScenarios
  /\ variants \in Seq(Actions)
  /\ pass \in Passes
  /\ cursor \in Nat /\ granularity \in Nat /\ granularity >= 2
  /\ changed \in BOOLEAN /\ outcome \in {"running", "shrunk", "lost", "raised"}

Places ==
  /\ pass = "simplify" => cursor >= 1
  /\ variants # <<>> => pass = "simplify" /\ cursor \in DOMAIN trial.actions
  /\ pass = "workers" => cursor >= 1
  /\ pass = "tasks" => cursor <= Len(trial.tasks)
  /\ outcome # "running" => pass = "over" /\ (~ changed \/ round = MaxRounds)

Alive ==
  /\ Fails(oracle, trial) /\ Fails(oracle, current)
  /\ outcome # "lost"
  /\ outcome = "shrunk" => Satisfies(oracle, current)
  /\ Total => outcome # "raised"

InOrder ==
  ValidDag(original.tasks) =>
    /\ ValidDag(trial.tasks)
    /\ Ids(trial.tasks) \in SUBSET Ids(original.tasks)
    /\ \A t \in Ids(trial.tasks) :
         Ancestors(trial.tasks, t) =
           Ancestors(original.tasks, t) \cap Ids(trial.tasks)

(* ddmin with chunks of one has tried each action up to the cursor. *)
ChunksTried ==
  ChunkSize = 1 =>
    \A i \in DOMAIN trial.actions :
      i <= cursor => Needed([trial EXCEPT !.actions = RemoveAt(@, i)])

Shorter(sc, i, v) == [sc EXCEPT !.actions[i].amount = v]

Deviates(i) == \E k \in 1..i : trial.actions[k] # current.actions[k]

(* Simplifying changes actions up to the cursor.  A shorter time step is still
   to be tried, or the failure needs the longer one, unless something up to
   there was simplified. *)
SimplerTried ==
  LET now == current.actions IN
  /\ trial = [current EXCEPT !.actions = trial.actions]
  /\ Len(trial.actions) = Len(now)
  /\ \A k \in 1..Len(now) : k > cursor => trial.actions[k] = now[k]
  /\ variants # <<>> => ToSet(variants) \in SUBSET ToSet(Variants(now[cursor]))
  /\ \A i \in 1..Len(now) :
       i <= cursor /\ now[i].kind = "advance_time" =>
         \A v \in {u \in ToSet(Ladder) : u < now[i].amount} :
           \/ i = cursor /\ [now[i] EXCEPT !.amount = v] \in ToSet(variants)
           \/ Deviates(i)
           \/ Needed(Shorter(current, i, v))

WorkerStays(sc, i) ==
  \/ Len(sc.workers) = 1 \/ RefersToWorker(sc, sc.workers[i].id)
  \/ Needed([sc EXCEPT !.workers = RemoveAt(@, i)])

WorkersTried ==
  /\ trial = current \/ Len(trial.workers) < Len(current.workers)
  /\ trial = current =>
       \A i \in 1..Len(current.workers) : i < cursor => WorkerStays(current, i)

TaskStays(sc, t) ==
  \/ Len(sc.tasks) = 1 \/ RefersToTask(sc, t)
  \/ Needed([sc EXCEPT !.tasks = WithoutTask(@, t)])

TasksTried ==
  /\ trial = current \/ Len(trial.tasks) < Len(current.tasks)
  /\ trial = current /\ ValidDag(original.tasks) =>
       \A i \in 1..Len(current.tasks) :
         i > cursor => TaskStays(current, current.tasks[i].id)

Tried ==
  Total =>
    /\ pass = "actions" => ChunksTried
    /\ pass = "simplify" => SimplerTried
    /\ pass = "workers" => WorkersTried
    /\ pass = "tasks" => TasksTried

(* What the passes of a round that changed nothing so far have made sure of. *)
Settled ==
  Total =>
    /\ pass \in {"simplify"} => NoSpareAction(current)
    /\ pass \in {"workers", "tasks", "over"} /\ ~ changed =>
         NoSpareAction(current) /\ TimesAreShort(current)
    /\ pass \in {"tasks", "over"} /\ ~ changed => NoIdleWorker(current)
    /\ pass = "over" /\ ~ changed => NoIdleTask(current)

-----------------------------------------------------------------------------
(* Chunks and single elements. *)

LEMMA ChunkFacts ==
  ASSUME NEW T, NEW s \in Seq(T), NEW start \in Nat, NEW size \in Nat \ {0},
         start < Len(s)
  PROVE  /\ WithoutChunk(s, start, size) \in Seq(T)
         /\ Len(WithoutChunk(s, start, size)) < Len(s)
<1> DEFINE L == Len(s)
           p == SubSeq(s, 1, start)
           q == SubSeq(s, start + size + 1, L)
<1>1. L \in Nat /\ \A i \in 1..L : s[i] \in T
  BY LenProperties, ElementOfSeq
<1> HIDE DEF L
<1>2. p \in Seq(T) /\ Len(p) = start
  <2>1. \A i \in 1..start : s[i] \in T
    BY <1>1 DEF L
  <2> DEFINE m == 1
  <2>2. m \in Int /\ start \in Int /\ p = SubSeq(s, m, start)
        /\ \A i \in m..start : s[i] \in T
    BY <2>1
  <2> HIDE DEF m, p
  <2>3. p \in Seq(T) /\ Len(p) = IF m <= start THEN start - m + 1 ELSE 0
    BY <2>2, SubSeqProperties
  <2> QED
    BY <2>3 DEF m
<1>3. q \in Seq(T) /\ Len(q) < L - start
  <2> DEFINE m == start + size + 1
  <2>1. m \in Int /\ L \in Int /\ m > start + 1
    BY <1>1
  <2>2. \A i \in m..L : s[i] \in T
    BY <1>1
  <2>3. q = SubSeq(s, m, L)
    OBVIOUS
  <2> HIDE DEF m, q
  <2>4. q \in Seq(T) /\ Len(q) = IF m <= L THEN L - m + 1 ELSE 0
    BY <2>1, <2>2, <2>3, SubSeqProperties
  <2> QED
    BY <1>1, <2>1, <2>4 DEF L
<1>4. WithoutChunk(s, start, size) = p \o q
  BY DEF WithoutChunk, L
<1> HIDE DEF p, q
<1> QED
  BY <1>1, <1>2, <1>3, <1>4, ConcatProperties DEF L

LEMMA RemovedIsChunk ==
  ASSUME NEW s, NEW i \in Nat
  PROVE  RemoveAt(s, i + 1) = WithoutChunk(s, i, 1)
<1>1. (i + 1) - 1 = i /\ (i + 1) + 1 = i + 1 + 1
  OBVIOUS
<1> QED
  BY <1>1 DEF RemoveAt, WithoutChunk

LEMMA RemovedFacts ==
  ASSUME NEW T, NEW s \in Seq(T), NEW i \in 1..Len(s)
  PROVE  RemoveAt(s, i) \in Seq(T) /\ Len(RemoveAt(s, i)) < Len(s)
<1> DEFINE k == i - 1
<1>1. Len(s) \in Nat
  BY LenProperties
<1>2. k \in Nat /\ k < Len(s) /\ i = k + 1 /\ 1 \in Nat \ {0}
  BY <1>1
<1> HIDE DEF k
<1>3. RemoveAt(s, i) = WithoutChunk(s, k, 1)
  BY <1>2, RemovedIsChunk
<1> QED
  BY <1>2, <1>3, ChunkFacts

LEMMA MostOfTwo ==
  ASSUME NEW a \in Int, NEW b \in Int
  PROVE  /\ Max({a, b}) = IF a <= b THEN b ELSE a
         /\ Min({a, b}) = IF a <= b THEN a ELSE b
<1>1. \E x \in {a, b} : \A y \in {a, b} : x >= y
  OBVIOUS
<1>2. \E x \in {a, b} : \A y \in {a, b} : x <= y
  OBVIOUS
<1>3. Max({a, b}) \in {a, b} /\ \A y \in {a, b} : Max({a, b}) >= y
  BY <1>1 DEF Max
<1>4. Min({a, b}) \in {a, b} /\ \A y \in {a, b} : Min({a, b}) <= y
  BY <1>2 DEF Min
<1> QED
  BY <1>3, <1>4

LEMMA ChunkSizeFacts ==
  ASSUME Shapes
  PROVE  /\ ChunkSize \in Nat \ {0}
         /\ Finest /\ Len(trial.actions) >= 2 => ChunkSize = 1
<1> DEFINE L == Len(trial.actions)
           d == (L + granularity - 1) \div granularity
<1>1. L \in Nat /\ granularity \in Nat \ {0}
  BY LenProperties DEF Shapes, AllScenarios
<1> HIDE DEF L
<1>2. d \in Int
  BY <1>1
<1>3. L <= granularity /\ L >= 2 => d <= 1
  BY <1>1
<1>4. ChunkSize = Max({1, d})
  BY DEF ChunkSize, L
<1> HIDE DEF d
<1>5. 1 \in Int
  OBVIOUS
<1>6. ChunkSize = IF 1 <= d THEN d ELSE 1
  BY <1>2, <1>4, <1>5, MostOfTwo, Zenon
<1> QED
  BY <1>1, <1>2, <1>3, <1>6 DEF Finest, L

-----------------------------------------------------------------------------
(* The variants of an action. *)

LEMMA RungsFacts ==
  ASSUME NEW x \in Int
  PROVE  /\ Rungs(x) \in Seq(Nat \ {0})
         /\ ToSet(Rungs(x)) = {v \in ToSet(Ladder) : v < x}
<1> DEFINE S == {v \in ToSet(Ladder) : v < x}
           r == Kept(Ladder, S)
<1>1. Ladder \in Seq(Nat \ {0}) /\ DOMAIN Ladder = 1..Len(Ladder) /\ Len(Ladder) \in Nat
  BY LadderAssumption, LenProperties
<1>2. r \in Seq(Nat \ {0}) /\ \E e : Embeds(e, r, Ladder, S, Len(Ladder))
  <2> HIDE DEF S
  <2> QED
    BY <1>1, KeptEmbeds
<1>3. PICK e : Embeds(e, r, Ladder, S, Len(Ladder))
  BY <1>2
<1> HIDE DEF r
<1>4. DOMAIN r = 1..Len(r)
  BY <1>2, LenProperties
<1>5. ToSet(r) \subseteq S
  <2> HIDE DEF S
  <2> QED
    BY <1>3, <1>4 DEF ToSet, Embeds
<1>6. S \subseteq ToSet(r)
  <2> SUFFICES ASSUME NEW v \in S PROVE v \in ToSet(r)
    OBVIOUS
  <2>1. PICK i \in 1..Len(Ladder) : Ladder[i] = v
    BY <1>1 DEF ToSet
  <2> HIDE DEF S
  <2>2. PICK j \in 1..Len(r) : e[j] = i
    BY <1>3, <2>1 DEF Embeds
  <2>3. r[j] = v
    BY <1>3, <2>1, <2>2 DEF Embeds
  <2> QED
    BY <1>4, <2>3 DEF ToSet
<1> QED
  BY <1>2, <1>5, <1>6 DEF Rungs, r

LEMMA Amended ==
  ASSUME NEW a \in Actions
  PROVE  /\ \A v \in Int : /\ WithAmount(a, v) \in Actions
                           /\ WithAmount(a, v) = a => v = a.amount
         /\ \A v \in Nat \cup {TextX} :
                           /\ WithText(a, v) \in Actions
                           /\ WithText(a, v) = a => v = a.text
<1>1. \A v \in Int : WithAmount(a, v) \in Actions /\ WithAmount(a, v).amount = v
  BY DEF Actions, WithAmount
<1>2. \A v \in Nat \cup {TextX} : WithText(a, v) \in Actions /\ WithText(a, v).text = v
  BY DEF Actions, WithText
<1> QED
  BY <1>1, <1>2

LEMMA SingleFacts ==
  ASSUME NEW T, NEW x \in T
  PROVE  <<x>> \in Seq(T) /\ ToSet(<<x>>) = {x}
  BY DEF ToSet

LEMMA WhenFacts ==
  ASSUME NEW b \in BOOLEAN, NEW s \in Seq(Actions)
  PROVE  /\ When(b, s) \in Seq(Actions)
         /\ ToSet(When(b, s)) = IF b THEN ToSet(s) ELSE {}
<1>1. <<>> \in Seq(Actions) /\ ToSet(<<>>) = {}
  <2>1. <<>> \in Seq(Actions) /\ Len(<<>>) = 0
    BY EmptySeq
  <2>2. DOMAIN <<>> = 1..0
    BY <2>1, LenProperties
  <2> QED
    BY <2>1, <2>2 DEF ToSet
<1> QED
  BY <1>1 DEF When

LEMMA VariantFacts ==
  ASSUME NEW a \in Actions
  PROVE  /\ Variants(a) \in Seq(Actions)
         /\ a.kind = "advance_time" =>
              /\ a \notin ToSet(Variants(a))
              /\ \A v \in {u \in ToSet(Ladder) : u < a.amount} :
                   WithAmount(a, v) \in ToSet(Variants(a))
<1> DEFINE rungs == [i \in DOMAIN Rungs(a.amount) |-> WithAmount(a, Rungs(a.amount)[i])]
           both == WithText(WithAmount(a, 1), TextX)
           timed == a.kind = "advance_time"
           p1 == When(a.amount \notin {0, 1}, <<WithAmount(a, 1)>>)
           p2 == When(a.text # NoText, <<WithText(a, 0)>>)
           p3 == When(a.text > 1, <<WithText(a, 1)>>)
           p4 == When(timed /\ a.amount > 1, rungs)
           p5 == When(a.kind = "log" /\ a.text > 2, <<WithText(a, 2)>>)
           p6 == When(a.kind = "complete_failure", <<both>>)
<1>1. a.amount \in Int /\ a.text \in Int
  BY DEF Actions, TextX
<1>2. WithAmount(a, 1) \in Actions
  BY Amended
<1>3. WithText(a, 0) \in Actions /\ WithText(a, 1) \in Actions /\ WithText(a, 2) \in Actions
  BY Amended
<1>4. both \in Actions
  <2> DEFINE b == WithAmount(a, 1)
  <2> HIDE DEF b
  <2>1. b \in Actions
    BY <1>2 DEF b
  <2>2. WithText(b, TextX) \in Actions
    BY <2>1, Amended
  <2> QED
    BY <2>2 DEF b
<1>5. /\ rungs \in Seq(Actions)
      /\ ToSet(rungs) = {WithAmount(a, v) : v \in {u \in ToSet(Ladder) : u < a.amount}}
  <2> DEFINE r == Rungs(a.amount)
  <2>1. r \in Seq(Nat \ {0}) /\ ToSet(r) = {u \in ToSet(Ladder) : u < a.amount}
    BY <1>1, RungsFacts
  <2> HIDE DEF r
  <2>2. Len(r) \in Nat /\ DOMAIN r = 1..Len(r) /\ \A i \in 1..Len(r) : r[i] \in Int
    BY <2>1, LenProperties, ElementOfSeq
  <2> DEFINE m == [i \in DOMAIN r |-> WithAmount(a, r[i])]
  <2>3. m \in [1..Len(r) -> Actions]
    BY <2>2, Amended
  <2>4. m \in Seq(Actions)
    BY <2>2, <2>3, SeqDef
  <2>5. ToSet(m) = {WithAmount(a, v) : v \in ToSet(r)}
    BY <2>2 DEF ToSet
  <2> QED
    BY <2>1, <2>4, <2>5 DEF r
<1>6. Variants(a) = ((((p1 \o p2) \o p3) \o p4) \o p5) \o p6
  <2>1. ((((p1 \o p2) \o p3) \o p4) \o p5) \o p6 = Variants(a)
    BY DEF Variants, NoText
  <2> QED
    BY <2>1
<1> HIDE DEF rungs, both
<1>7. p1 \in Seq(Actions)
      /\ ToSet(p1) = IF a.amount \notin {0, 1} THEN {WithAmount(a, 1)} ELSE {}
  BY <1>2, SingleFacts, WhenFacts
<1>8. p2 \in Seq(Actions) /\ ToSet(p2) = IF a.text # NoText THEN {WithText(a, 0)} ELSE {}
  <2>1. <<WithText(a, 0)>> \in Seq(Actions) /\ ToSet(<<WithText(a, 0)>>) = {WithText(a, 0)}
    BY <1>3, SingleFacts
  <2> DEFINE b == a.text # NoText
             x == <<WithText(a, 0)>>
  <2>2. b \in BOOLEAN /\ x \in Seq(Actions) /\ ToSet(x) = {WithText(a, 0)}
    BY <1>1, <2>1
  <2>3. p2 = When(b, x)
    OBVIOUS
  <2> HIDE DEF b, x, p2
  <2>4. When(b, x) \in Seq(Actions) /\ ToSet(When(b, x)) = IF b THEN ToSet(x) ELSE {}
    BY <2>2, WhenFacts
  <2> QED
    BY <2>2, <2>3, <2>4 DEF b
<1>9. p3 \in Seq(Actions) /\ ToSet(p3) = IF a.text > 1 THEN {WithText(a, 1)} ELSE {}
  <2>1. <<WithText(a, 1)>> \in Seq(Actions) /\ ToSet(<<WithText(a, 1)>>) = {WithText(a, 1)}
    BY <1>3, SingleFacts
  <2> DEFINE b == a.text > 1
             x == <<WithText(a, 1)>>
  <2>2. b \in BOOLEAN /\ x \in Seq(Actions) /\ ToSet(x) = {WithText(a, 1)}
    BY <1>1, <2>1
  <2>3. p3 = When(b, x)
    OBVIOUS
  <2> HIDE DEF b, x, p3
  <2>4. When(b, x) \in Seq(Actions) /\ ToSet(When(b, x)) = IF b THEN ToSet(x) ELSE {}
    BY <2>2, WhenFacts
  <2> QED
    BY <2>2, <2>3, <2>4 DEF b
<1>10. p4 \in Seq(Actions)
       /\ ToSet(p4) = IF timed /\ a.amount > 1 THEN ToSet(rungs) ELSE {}
  BY <1>1, <1>5, WhenFacts
<1>11. p5 \in Seq(Actions)
       /\ ToSet(p5) = IF a.kind = "log" /\ a.text > 2 THEN {WithText(a, 2)} ELSE {}
  BY <1>1, <1>3, SingleFacts, WhenFacts
<1>12. p6 \in Seq(Actions)
       /\ ToSet(p6) = IF a.kind = "complete_failure" THEN {both} ELSE {}
  BY <1>4, SingleFacts, WhenFacts
<1> HIDE DEF p1, p2, p3, p4, p5, p6
<1>13. /\ Variants(a) \in Seq(Actions)
       /\ ToSet(Variants(a)) = (((((ToSet(p1) \cup ToSet(p2)) \cup ToSet(p3))
                                  \cup ToSet(p4)) \cup ToSet(p5)) \cup ToSet(p6))
  <2>1. p1 \o p2 \in Seq(Actions) /\ ToSet(p1 \o p2) = ToSet(p1) \cup ToSet(p2)
    BY <1>7, <1>8, ConcatSet
  <2> DEFINE q2 == p1 \o p2
             q3 == q2 \o p3
             q4 == q3 \o p4
             q5 == q4 \o p5
  <2>0. q2 \in Seq(Actions) /\ ToSet(q2) = ToSet(p1) \cup ToSet(p2)
    BY <2>1
  <2> HIDE DEF q2
  <2>2. q3 \in Seq(Actions) /\ ToSet(q3) = ToSet(q2) \cup ToSet(p3)
    BY <1>9, <2>0, ConcatSet
  <2> HIDE DEF q3
  <2>3. q4 \in Seq(Actions) /\ ToSet(q4) = ToSet(q3) \cup ToSet(p4)
    BY <1>10, <2>2, ConcatSet
  <2> HIDE DEF q4
  <2>4. q5 \in Seq(Actions) /\ ToSet(q5) = ToSet(q4) \cup ToSet(p5)
    BY <1>11, <2>3, ConcatSet
  <2> HIDE DEF q5
  <2>5. q5 \o p6 \in Seq(Actions) /\ ToSet(q5 \o p6) = ToSet(q5) \cup ToSet(p6)
    BY <1>12, <2>4, ConcatSet
  <2>6. Variants(a) = q5 \o p6
    BY <1>6 DEF q2, q3, q4, q5
  <2> QED
    BY <2>0, <2>2, <2>3, <2>4, <2>5, <2>6
<1>14. ASSUME timed, a \in ToSet(Variants(a)) PROVE FALSE
  <2>1. ToSet(p5) = {} /\ ToSet(p6) = {}
    BY <1>11, <1>12, <1>14
  <2>2. a \notin ToSet(p1)
    BY <1>1, <1>2, <1>7, Amended
  <2>3. a \notin ToSet(p2) /\ a \notin ToSet(p3)
    <3>1. WithText(a, 0) = a => 0 = a.text
      BY Amended
    <3>2. WithText(a, 1) = a => 1 = a.text
      BY Amended
    <3>3. a.text # NoText => WithText(a, 0) # a
      BY <3>1 DEF NoText
    <3>4. a.text > 1 => WithText(a, 1) # a
      BY <1>1, <3>2
    <3> QED
      BY <1>8, <1>9, <3>3, <3>4
  <2>4. a \notin ToSet(p4)
    <3>1. \A v \in ToSet(Ladder) : v \in Int
      BY LadderAssumption, LenProperties, ElementOfSeq DEF ToSet
    <3> QED
      BY <1>1, <1>5, <1>10, <3>1, Amended
  <2> QED
    BY <1>13, <1>14, <2>1, <2>2, <2>3, <2>4
<1>15. ASSUME timed, NEW v \in {u \in ToSet(Ladder) : u < a.amount}
       PROVE  WithAmount(a, v) \in ToSet(Variants(a))
  <2>1. v \in Nat \ {0}
    BY LadderAssumption, LenProperties, ElementOfSeq DEF ToSet
  <2>2. a.amount > 1
    BY <1>1, <2>1
  <2> QED
    BY <1>5, <1>10, <1>13, <1>15, <2>2
<1> QED
  BY <1>13, <1>14, <1>15

-----------------------------------------------------------------------------
(* Shapes and places. *)

Steps == Next \/ Over \/ UNCHANGED vars

LEMMA VariantsAtFacts ==
  ASSUME NEW sc \in AllScenarios, NEW i
  PROVE  /\ VariantsAt(sc, i) \in Seq(Actions)
         /\ i \notin DOMAIN sc.actions => VariantsAt(sc, i) = <<>>
<1>1. sc.actions \in Seq(Actions)
  BY DEF AllScenarios
<1>2. CASE i \in DOMAIN sc.actions
  <2>1. sc.actions[i] \in Actions
    BY <1>1, <1>2, LenProperties, ElementOfSeq
  <2> DEFINE a == sc.actions[i]
  <2> HIDE DEF a
  <2>2. Variants(a) \in Seq(Actions)
    BY <2>1, VariantFacts DEF a
  <2> QED
    BY <1>2, <2>2 DEF VariantsAt, a
<1>3. CASE i \notin DOMAIN sc.actions
  BY <1>3, EmptySeq DEF VariantsAt
<1> QED
  BY <1>2, <1>3

LEMMA ScenarioFields ==
  ASSUME NEW sc \in AllScenarios
  PROVE  /\ sc.tasks \in Seq(TaskSpecs) /\ sc.workers \in Seq(WorkerSpecs)
         /\ sc.actions \in Seq(Actions)
         /\ Len(sc.tasks) \in Nat /\ DOMAIN sc.tasks = 1..Len(sc.tasks)
         /\ Len(sc.workers) \in Nat /\ DOMAIN sc.workers = 1..Len(sc.workers)
         /\ Len(sc.actions) \in Nat /\ DOMAIN sc.actions = 1..Len(sc.actions)
         /\ sc = [tasks |-> sc.tasks, workers |-> sc.workers, actions |-> sc.actions]
<1>1. /\ sc.tasks \in Seq(TaskSpecs) /\ sc.workers \in Seq(WorkerSpecs)
      /\ sc.actions \in Seq(Actions)
      /\ sc = [tasks |-> sc.tasks, workers |-> sc.workers, actions |-> sc.actions]
  BY DEF AllScenarios
<1> QED
  BY <1>1, LenProperties

(* What the passes put in the place of a part of the scenario. *)
WithActions(sc, s) == [sc EXCEPT !.actions = s]
WithWorkers(sc, s) == [sc EXCEPT !.workers = s]
WithTasks(sc, s)   == [sc EXCEPT !.tasks = s]

LEMMA PartsFacts ==
  ASSUME NEW sc \in AllScenarios
  PROVE  /\ \A s \in Seq(Actions) :
              /\ WithActions(sc, s) \in AllScenarios /\ WithActions(sc, s).actions = s
              /\ WithActions(sc, s).tasks = sc.tasks
              /\ WithActions(sc, s).workers = sc.workers
         /\ \A s \in Seq(WorkerSpecs) :
              /\ WithWorkers(sc, s) \in AllScenarios /\ WithWorkers(sc, s).workers = s
              /\ WithWorkers(sc, s).tasks = sc.tasks
              /\ WithWorkers(sc, s).actions = sc.actions
         /\ \A s \in Seq(TaskSpecs) :
              /\ WithTasks(sc, s) \in AllScenarios /\ WithTasks(sc, s).tasks = s
              /\ WithTasks(sc, s).workers = sc.workers
              /\ WithTasks(sc, s).actions = sc.actions
  BY DEF AllScenarios, WithActions, WithWorkers, WithTasks

Amend(s, i, a) == [s EXCEPT ![i] = a]

LEMMA AmendFacts ==
  ASSUME NEW T, NEW s \in Seq(T), NEW i \in DOMAIN s, NEW a \in T
  PROVE  /\ Amend(s, i, a) \in Seq(T) /\ Len(Amend(s, i, a)) = Len(s)
         /\ Amend(s, i, a)[i] = a
         /\ \A k \in DOMAIN s \ {i} : Amend(s, i, a)[k] = s[k]
  BY DEF Amend

-----------------------------------------------------------------------------
(* What each step that shortens or simplifies makes of the scenario. *)
LEMMA ChunkStep ==
  ASSUME Shapes, TryChunk
  PROVE  LET s == WithoutChunk(trial.actions, cursor, ChunkSize) IN
         /\ s \in Seq(Actions) /\ Len(s) < Len(trial.actions)
         /\ \/ Fails(oracle, WithActions(trial, s)) /\ trial' = WithActions(trial, s)
                 /\ cursor' = 0
                 /\ granularity' \in Nat /\ granularity' >= 2
            \/ ~ Fails(oracle, WithActions(trial, s)) /\ trial' = trial
                 /\ cursor' = cursor + ChunkSize
                 /\ granularity' = granularity
<1> DEFINE s == WithoutChunk(trial.actions, cursor, ChunkSize)
           g == granularity - 1
           two == 2
<1>1. s \in Seq(Actions) /\ Len(s) < Len(trial.actions)
  BY ScenarioFields, ChunkSizeFacts, ChunkFacts DEF Shapes, TryChunk
<1>2. two \in Int /\ g \in Int
  BY DEF Shapes
<1> HIDE DEF g, two
<1>3. Max({two, g}) = IF two <= g THEN g ELSE two
  BY <1>2, MostOfTwo
<1>4. Max({two, g}) \in Nat /\ Max({two, g}) >= 2
  BY <1>2, <1>3 DEF two
<1>5. WithActions(trial, s) = [trial EXCEPT !.actions = WithoutChunk(@, cursor, ChunkSize)]
  BY DEF WithActions
<1>6. \/ Fails(oracle, WithActions(trial, s)) /\ trial' = WithActions(trial, s)
           /\ cursor' = 0 /\ granularity' = Max({two, g})
      \/ ~ Fails(oracle, WithActions(trial, s)) /\ trial' = trial
           /\ cursor' = cursor + ChunkSize /\ granularity' = granularity
  BY <1>5, Zenon DEF TryChunk, two, g
<1> QED
  BY <1>1, <1>4, <1>6

LEMMA TailSet ==
  ASSUME NEW T, NEW s \in Seq(T), s # <<>>
  PROVE  ToSet(s) = {Head(s)} \cup ToSet(Tail(s))
<1> DEFINE L == Len(s)
           t == Tail(s)
           m == 1
<1>1. /\ L \in Nat \ {0} /\ DOMAIN s = m..L /\ Head(s) = s[m]
      /\ t \in Seq(T) /\ Len(t) = L - 1
      /\ \A i \in 1..Len(t) : t[i] = s[i + 1]
  BY LenProperties, HeadTailProperties, EmptySeq
<1>2. DOMAIN t = 1..(L - 1)
  BY <1>1, LenProperties
<1>3. \A i \in m..L : i = m \/ (i - 1 \in 1..(L - 1) /\ (i - 1) + 1 = i)
  BY <1>1
<1>4. m \in m..L /\ \A i \in 1..(L - 1) : i + 1 \in m..L
  BY <1>1
<1> HIDE DEF t, L, m
<1>5. \A i \in 1..(L - 1) : t[i] = s[i + 1]
  BY <1>1
<1> DEFINE h == Head(s)
<1>6. h = s[m]
  BY <1>1
<1> HIDE DEF h
<1>7. ToSet(s) \subseteq {h} \cup ToSet(t)
  <2> SUFFICES ASSUME NEW i \in m..L, i # m PROVE s[i] \in ToSet(t)
    BY <1>1, <1>6 DEF ToSet
  <2> DEFINE k == i - 1
  <2>1. k \in 1..(L - 1) /\ k + 1 = i
    BY <1>3
  <2> HIDE DEF k
  <2>2. t[k] = s[i]
    BY <1>5, <2>1
  <2> QED
    BY <1>2, <2>1, <2>2 DEF ToSet
<1>8. h \in ToSet(s)
  BY <1>1, <1>4, <1>6 DEF ToSet
<1>9. ToSet(t) \subseteq ToSet(s)
  BY <1>1, <1>2, <1>4, <1>5 DEF ToSet
<1> QED
  BY <1>7, <1>8, <1>9 DEF h, t

LEMMA VariantStep ==
  ASSUME Shapes, Places, TryVariant
  PROVE  LET s == Amend(trial.actions, cursor, Head(variants)) IN
         /\ cursor \in DOMAIN trial.actions
         /\ Head(variants) \in Actions /\ Tail(variants) \in Seq(Actions)
         /\ ToSet(variants) = {Head(variants)} \cup ToSet(Tail(variants))
         /\ s \in Seq(Actions)
         /\ variants' = Tail(variants)
         /\ trial' = IF WithActions(trial, s) # trial /\ Fails(oracle, WithActions(trial, s))
                     THEN WithActions(trial, s) ELSE trial
<1> DEFINE s == Amend(trial.actions, cursor, Head(variants))
<1>1. cursor \in DOMAIN trial.actions /\ variants # <<>> /\ variants \in Seq(Actions)
  BY DEF TryVariant, Places, Shapes
<1>2. /\ Head(variants) \in Actions /\ Tail(variants) \in Seq(Actions)
      /\ Len(variants) \in Nat \ {0} /\ DOMAIN variants = 1..Len(variants)
      /\ Head(variants) = variants[1] /\ Len(Tail(variants)) = Len(variants) - 1
      /\ \A i \in 1..Len(Tail(variants)) : Tail(variants)[i] = variants[i + 1]
  BY <1>1, LenProperties, HeadTailProperties, EmptySeq
<1>3. ToSet(variants) = {Head(variants)} \cup ToSet(Tail(variants))
  BY <1>1, TailSet
<1>4. s \in Seq(Actions)
  BY <1>1, <1>2, ScenarioFields, AmendFacts DEF Shapes
<1>5. WithActions(trial, s) = [trial EXCEPT !.actions[cursor] = Head(variants)]
  BY DEF WithActions, Amend
<1> QED
  BY <1>1, <1>2, <1>3, <1>4, <1>5, Zenon DEF TryVariant

LEMMA WorkerStep ==
  ASSUME Shapes, Places, TryWorker
  PROVE  LET s == RemoveAt(trial.workers, cursor) IN
         /\ cursor \in 1..Len(trial.workers)
         /\ s \in Seq(WorkerSpecs) /\ Len(s) < Len(trial.workers)
         /\ \/ /\ ~ RefersToWorker(trial, trial.workers[cursor].id)
               /\ Len(trial.workers) > 1 /\ Fails(oracle, WithWorkers(trial, s))
               /\ trial' = WithWorkers(trial, s) /\ cursor' = cursor
            \/ /\ \/ RefersToWorker(trial, trial.workers[cursor].id)
                  \/ ~ Len(trial.workers) > 1 \/ ~ Fails(oracle, WithWorkers(trial, s))
               /\ trial' = trial /\ cursor' = cursor + 1
<1> DEFINE s == RemoveAt(trial.workers, cursor)
<1>1. cursor \in 1..Len(trial.workers)
  BY ScenarioFields DEF Shapes, Places, TryWorker
<1>2. s \in Seq(WorkerSpecs) /\ Len(s) < Len(trial.workers)
  BY <1>1, ScenarioFields, RemovedFacts DEF Shapes
<1>3. WithWorkers(trial, s) = [trial EXCEPT !.workers = RemoveAt(@, cursor)]
  BY DEF WithWorkers
<1> QED
  BY <1>1, <1>2, <1>3, Zenon DEF TryWorker

LEMMA TaskStep ==
  ASSUME Shapes, Places, TryTask
  PROVE  LET x == trial.tasks[cursor].id
             s == WithoutTask(trial.tasks, x) IN
         /\ cursor \in 1..Len(trial.tasks) /\ x \in Ids(trial.tasks)
         /\ s \in Seq(TaskSpecs) /\ Len(s) < Len(trial.tasks)
         /\ \/ /\ ~ RefersToTask(trial, x) /\ ValidDag(s)
               /\ Fails(oracle, WithTasks(trial, s))
               /\ trial' = WithTasks(trial, s)
               /\ cursor' \in Nat /\ cursor' <= Len(s)
            \/ /\ \/ RefersToTask(trial, x) \/ ~ ValidDag(s)
                  \/ ~ Fails(oracle, WithTasks(trial, s))
               /\ trial' = trial /\ cursor' = cursor - 1
<1> DEFINE x == trial.tasks[cursor].id
           s == WithoutTask(trial.tasks, x)
           c == cursor - 1
           L == Len(s)
<1>1. cursor \in 1..Len(trial.tasks) /\ DOMAIN trial.tasks = 1..Len(trial.tasks)
  BY ScenarioFields DEF Shapes, Places, TryTask
<1>2. x \in Ids(trial.tasks)
  BY <1>1 DEF Ids
<1>3. trial.tasks \in Seq(TaskSpecs)
  BY ScenarioFields DEF Shapes
<1> HIDE DEF x
<1>4. s \in Seq(TaskSpecs) /\ L < Len(trial.tasks) /\ L \in Nat
  BY <1>2, <1>3, WithoutShape, LenProperties
<1>5. WithTasks(trial, s) = [trial EXCEPT !.tasks = s]
  BY DEF WithTasks
<1>6. \/ /\ ~ RefersToTask(trial, x) /\ ValidDag(s)
         /\ Fails(oracle, WithTasks(trial, s))
         /\ trial' = WithTasks(trial, s)
         /\ cursor' = Min({c, L})
      \/ /\ \/ RefersToTask(trial, x) \/ ~ ValidDag(s)
            \/ ~ Fails(oracle, WithTasks(trial, s))
         /\ trial' = trial /\ cursor' = cursor - 1
  BY <1>5, Zenon DEF TryTask, x, c, L
<1>7. c \in Nat
  BY <1>1
<1> HIDE DEF c, L, s
<1>8. Min({c, L}) \in Nat /\ Min({c, L}) <= L
  <2>1. c \in Int /\ L \in Int
    BY <1>4, <1>7
  <2>2. Min({c, L}) = IF c <= L THEN c ELSE L
    BY <2>1, MostOfTwo
  <2> QED
    BY <1>4, <1>7, <2>2
<1> QED
  BY <1>1, <1>2, <1>4, <1>6, <1>8 DEF x, s, L

LEMMA TypesInit ==
  ASSUME Init
  PROVE  Shapes /\ Places
<1>1. original \in AllScenarios
  BY ScenariosAssumption DEF Init
<1>2. <<>> \in Seq(Actions)
  BY EmptySeq
<1>3. changed \in BOOLEAN
  BY Zenon DEF Init
<1>4. Shapes
  BY <1>1, <1>2, <1>3 DEF Init, Shapes, Passes
<1>5. Places
  BY DEF Init, Places
<1> QED
  BY <1>4, <1>5

LEMMA TypesStep ==
  ASSUME Shapes, Places, Steps
  PROVE  Shapes' /\ Places'
<1>1. CASE TryChunk
  <2> DEFINE s == WithoutChunk(trial.actions, cursor, ChunkSize)
  <2>1. s \in Seq(Actions) /\ WithActions(trial, s) \in AllScenarios
    BY <1>1, ChunkStep, PartsFacts DEF Shapes
  <2> HIDE DEF s
  <2>2. trial' \in AllScenarios /\ cursor' \in Nat /\ granularity' \in Nat /\ granularity' >= 2
    BY <1>1, <2>1, ChunkStep, ChunkSizeFacts DEF Shapes, s
  <2>3. variants' = <<>> /\ pass' = "actions"
    BY <1>1 DEF TryChunk, InPass, Places
  <2> QED
    BY <1>1, <2>2, <2>3 DEF TryChunk, InPass, Shapes, Places
<1>2. CASE RefineChunks
  <2> DEFINE L == Len(trial.actions)
             g == 2 * granularity
  <2>1. L \in Int /\ g \in Int /\ g >= 2 /\ L >= 2
    BY <1>2, ScenarioFields DEF Shapes, RefineChunks
  <2>2. granularity' = Min({L, g})
    BY <1>2 DEF RefineChunks
  <2> HIDE DEF L, g
  <2>3. granularity' \in Nat /\ granularity' >= 2
    <3>1. L \in Int /\ g \in Int
      BY <2>1
    <3>2. Min({L, g}) = IF L <= g THEN L ELSE g
      BY <3>1, MostOfTwo
    <3>3. granularity' = L \/ granularity' = g
      BY <2>2, <3>2
    <3> QED
      BY <2>1, <3>3
  <2>4. variants' = <<>> /\ pass' = "actions"
    <3>1. variants' = variants /\ pass' = pass /\ pass = "actions"
      BY <1>2 DEF RefineChunks, InPass
    <3> QED
      BY <3>1 DEF Places
  <2> QED
    BY <1>2, <2>3, <2>4 DEF RefineChunks, InPass, Shapes, Places
<1>3. CASE EndChunks
  <2>1. /\ variants' \in Seq(Actions) /\ pass' = "simplify" /\ cursor' = 1
        /\ variants' # <<>> => 1 \in DOMAIN trial.actions
    BY <1>3, VariantsAtFacts DEF EndChunks, EndPass, Shapes
  <2> QED
    BY <1>3, <2>1 DEF EndChunks, EndPass, Shapes, Places, Passes
<1>4. CASE TryVariant
  <2> DEFINE s == Amend(trial.actions, cursor, Head(variants))
  <2>1. s \in Seq(Actions) /\ Len(s) = Len(trial.actions) /\ DOMAIN s = DOMAIN trial.actions
    <3> DEFINE a == Head(variants)
               was == trial.actions
    <3>1. cursor \in DOMAIN was /\ a \in Actions
      BY <1>4, VariantStep
    <3>2. was \in Seq(Actions)
      BY ScenarioFields DEF Shapes
    <3> HIDE DEF a, was
    <3>3. Amend(was, cursor, a) \in Seq(Actions) /\ Len(Amend(was, cursor, a)) = Len(was)
      BY <3>1, <3>2, AmendFacts
    <3> QED
      BY <3>2, <3>3, LenProperties DEF a, was
  <2>2. WithActions(trial, s) \in AllScenarios /\ WithActions(trial, s).actions = s
    BY <2>1, PartsFacts DEF Shapes
  <2> HIDE DEF s
  <2>3. trial' \in AllScenarios /\ DOMAIN trial'.actions = DOMAIN trial.actions
        /\ variants' \in Seq(Actions)
    BY <1>4, <2>1, <2>2, VariantStep DEF Shapes, s
  <2>4. cursor \in DOMAIN trial.actions /\ pass = "simplify"
    BY <1>4, VariantStep DEF TryVariant
  <2> QED
    BY <1>4, <2>3, <2>4 DEF TryVariant, InPass, Shapes, Places
<1>5. CASE NextAction
  <2>1. /\ variants' \in Seq(Actions) /\ cursor' = cursor + 1 /\ pass = "simplify"
        /\ variants' # <<>> => cursor' \in DOMAIN trial.actions
    BY <1>5, VariantsAtFacts DEF NextAction, Shapes
  <2> QED
    BY <1>5, <2>1 DEF NextAction, InPass, Shapes, Places
<1>6. CASE EndSimplify
  <2>1. <<>> \in Seq(Actions)
    BY EmptySeq
  <2> QED
    BY <1>6, <2>1 DEF EndSimplify, EndPass, Shapes, Places, Passes
<1>7. CASE TryWorker
  <2> DEFINE s == RemoveAt(trial.workers, cursor)
  <2>1. s \in Seq(WorkerSpecs) /\ WithWorkers(trial, s) \in AllScenarios
    BY <1>7, WorkerStep, PartsFacts DEF Shapes
  <2> HIDE DEF s
  <2>2. trial' \in AllScenarios /\ cursor' \in Nat /\ cursor' >= 1
    BY <1>7, <2>1, WorkerStep DEF Shapes, s
  <2>3. variants' = <<>> /\ pass' = "workers"
    BY <1>7 DEF TryWorker, InPass, Places
  <2> QED
    BY <1>7, <2>2, <2>3 DEF TryWorker, InPass, Shapes, Places
<1>8. CASE EndWorkers
  <2>1. <<>> \in Seq(Actions) /\ Len(trial.tasks) \in Nat
    BY EmptySeq, ScenarioFields DEF Shapes
  <2> QED
    BY <1>8, <2>1 DEF EndWorkers, EndPass, Shapes, Places, Passes
<1>9. CASE TryTask
  <2> DEFINE s == WithoutTask(trial.tasks, trial.tasks[cursor].id)
  <2>1. /\ s \in Seq(TaskSpecs) /\ WithTasks(trial, s) \in AllScenarios
        /\ WithTasks(trial, s).tasks = s
    BY <1>9, TaskStep, PartsFacts DEF Shapes
  <2> HIDE DEF s
  <2>2. trial' \in AllScenarios /\ cursor' \in Nat /\ cursor' <= Len(trial'.tasks)
    BY <1>9, <2>1, TaskStep DEF Shapes, s, Places, TryTask
  <2>3. variants' = <<>> /\ pass' = "tasks"
    BY <1>9 DEF TryTask, InPass, Places
  <2> QED
    BY <1>9, <2>2, <2>3 DEF TryTask, InPass, Shapes, Places
<1>10. CASE EndTasks
  <2>1. <<>> \in Seq(Actions)
    BY EmptySeq
  <2> QED
    BY <1>10, <2>1 DEF EndTasks, EndPass, Shapes, Places, Passes
<1>11. CASE NextRound
  <2>1. outcome = "running"
    BY <1>11, RoundAssumption DEF NextRound, Places, Shapes
  <2>2. variants = <<>>
    BY <1>11 DEF NextRound, Places
  <2> QED
    <3>1. changed' \in BOOLEAN
      BY <1>11, Zenon DEF NextRound
    <3>2. Shapes'
      BY <1>11, <3>1 DEF NextRound, Shapes, Passes
    <3>3. Places'
      BY <1>11, <2>1, <2>2 DEF NextRound, Places
    <3> QED
      BY <3>2, <3>3
<1>12. CASE Finish
  BY <1>12 DEF Finish, Shapes, Places
<1>13. CASE UNCHANGED vars
  BY <1>13 DEF vars, Shapes, Places
<1> QED
  BY <1>1, <1>2, <1>3, <1>4, <1>5, <1>6, <1>7, <1>8, <1>9, <1>10, <1>11, <1>12, <1>13
     DEF Steps, Next, Over

(* The scenarios stay scenarios, and each pass keeps its place in them: a
   cursor or a variant never outlives the part of the scenario it is about,
   although every pass shortens what it walks over. *)
THEOREM ShrinkerTypes == Spec => [](Shapes /\ Places)
<1>1. Init => Shapes /\ Places
  BY TypesInit
<1>2. Shapes /\ Places /\ [Next \/ Over]_vars => (Shapes /\ Places)'
  BY TypesStep DEF Steps
<1> QED
  BY <1>1, <1>2, PTL DEF Spec

-----------------------------------------------------------------------------
(* The failure is kept. *)

LEMMA AcceptedSatisfies ==
  ASSUME Total, NEW sc
  PROVE  Fails(oracle, sc) <=> Satisfies(oracle, sc)
  BY DEF Total, Fails, Accepted, Raising, Satisfies

LEMMA AliveInit ==
  ASSUME Init
  PROVE  Alive
<1>1. /\ oracle.expected = Replay(original, oracle.strict).failure
      /\ oracle.predicate \in Predicates
  BY DEF Init
<1> DEFINE f == Replay(original, oracle.strict).failure
<1>2. f # NoFailure /\ oracle.expected = f
  BY <1>1 DEF Init
<1> HIDE DEF f
<1>3. Judged(oracle, f)
  BY <1>1, <1>2 DEF Judged, SameFailure, Predicates
<1>4. Fails(oracle, original)
  BY <1>3 DEF Fails, Accepted, f
<1> QED
  BY <1>4 DEF Init, Alive

LEMMA AliveStep ==
  ASSUME Shapes, Places, Alive, Steps
  PROVE  Alive'
<1>1. oracle' = oracle
  BY DEF Steps, Next, Over, vars, InPass, EndPass, TryChunk, RefineChunks, EndChunks,
         TryVariant, NextAction, EndSimplify, TryWorker, EndWorkers, TryTask, EndTasks,
         NextRound, Finish
<1>2. Total' <=> Total
  BY <1>1 DEF Total
<1>3. /\ Fails(oracle, trial) /\ Fails(oracle, current) /\ outcome # "lost"
      /\ outcome = "shrunk" => Satisfies(oracle, current)
      /\ Total => outcome # "raised"
  BY DEF Alive
<1>4. ASSUME UNCHANGED <<current, outcome>>, trial' = trial \/ Fails(oracle, trial')
      PROVE  Alive'
  BY <1>1, <1>2, <1>3, <1>4 DEF Alive
<1>5. CASE TryChunk
  BY <1>4, <1>5, ChunkStep DEF TryChunk, InPass
<1>6. CASE TryVariant
  BY <1>4, <1>6, VariantStep DEF TryVariant, InPass
<1>7. CASE TryWorker
  BY <1>4, <1>7, WorkerStep DEF TryWorker, InPass
<1>8. CASE TryTask
  BY <1>4, <1>8, TaskStep DEF TryTask, InPass
<1>9. CASE EndChunks \/ EndSimplify \/ EndWorkers \/ EndTasks
  <2>1. pass # "over" /\ current' = trial /\ UNCHANGED <<trial, outcome>>
    BY <1>9 DEF EndPass, EndChunks, EndSimplify, EndWorkers, EndTasks
  <2>2. outcome = "running"
    BY <2>1 DEF Places
  <2> QED
    BY <1>1, <1>3, <2>1, <2>2 DEF Alive
<1>10. CASE RefineChunks \/ NextAction \/ NextRound \/ UNCHANGED vars
  BY <1>4, <1>10 DEF InPass, RefineChunks, NextAction, NextRound, vars
<1>11. CASE Finish
  <2> DEFINE f == Replay(current, oracle.strict).failure
  <2>1. /\ outcome' = IF Raising(oracle, f) THEN "raised"
                      ELSE IF Judged(oracle, f) THEN "shrunk" ELSE "lost"
        /\ UNCHANGED <<trial, current>>
    BY <1>11 DEF Finish
  <2>2. Judged(oracle, f) \/ Raising(oracle, f)
    BY <1>3 DEF Fails, Accepted
  <2>3. Judged(oracle, f) => Satisfies(oracle, current)
    BY DEF Satisfies
  <2>4. Total => ~ Raising(oracle, f)
    BY DEF Total, Raising
  <2> HIDE DEF f
  <2> QED
    BY <1>1, <1>2, <1>3, <2>1, <2>2, <2>3, <2>4 DEF Alive
<1> QED
  BY <1>5, <1>6, <1>7, <1>8, <1>9, <1>10, <1>11 DEF Steps, Next, Over

(* shrink never loses the failure it was given: each scenario a pass takes over
   satisfies the predicate or makes it raise, what is returned satisfies it,
   and shrink's own RuntimeError is out of reach of every predicate. *)
THEOREM FailureIsKept == Spec => []NothingLost
<1> DEFINE I == Shapes /\ Places /\ Alive
<1>1. Init => I
  BY TypesInit, AliveInit
<1>2. I /\ [Next \/ Over]_vars => I'
  BY TypesStep, AliveStep DEF Steps
<1>3. I => NothingLost
  BY AcceptedSatisfies DEF Alive, NothingLost
<1> QED
  BY <1>1, <1>2, <1>3, PTL DEF Spec

-----------------------------------------------------------------------------
(* The order of the tasks. *)

LEMMA OrderStep ==
  ASSUME Shapes, Places, InOrder, Steps
  PROVE  InOrder'
<1>1. original' = original
  BY DEF Steps, Next, Over, vars, InPass, EndPass, TryChunk, RefineChunks, EndChunks,
         TryVariant, NextAction, EndSimplify, TryWorker, EndWorkers, TryTask, EndTasks,
         NextRound, Finish
<1>2. ASSUME trial'.tasks = trial.tasks PROVE InOrder'
  BY <1>1, <1>2 DEF InOrder
<1>3. CASE TryChunk
  <2>1. trial'.tasks = trial.tasks
    BY <1>3, ChunkStep, PartsFacts DEF Shapes
  <2> QED
    BY <1>2, <2>1
<1>4. CASE TryVariant
  <2>1. trial'.tasks = trial.tasks
    BY <1>4, VariantStep, PartsFacts DEF Shapes
  <2> QED
    BY <1>2, <2>1
<1>5. CASE TryWorker
  <2>1. trial'.tasks = trial.tasks
    BY <1>5, WorkerStep, PartsFacts DEF Shapes
  <2> QED
    BY <1>2, <2>1
<1>6. CASE TryTask
  <2> DEFINE x == trial.tasks[cursor].id
             s == WithoutTask(trial.tasks, x)
  <2> SUFFICES ASSUME trial'.tasks # trial.tasks, ValidDag(original.tasks)
               PROVE  /\ ValidDag(trial'.tasks)
                      /\ Ids(trial'.tasks) \in SUBSET Ids(original.tasks)
                      /\ \A t \in Ids(trial'.tasks) :
                           Ancestors(trial'.tasks, t) =
                             Ancestors(original.tasks, t) \cap Ids(trial'.tasks)
    BY <1>1, <1>2 DEF InOrder
  <2>1. /\ x \in Ids(trial.tasks) /\ s \in Seq(TaskSpecs) /\ ValidDag(s)
        /\ trial'.tasks = s
    <3>1. trial' # trial
      OBVIOUS
    <3>2. x \in Ids(trial.tasks) /\ s \in Seq(TaskSpecs)
      BY <1>6, TaskStep
    <3>3. ValidDag(s) /\ trial' = WithTasks(trial, s)
      BY <1>6, <3>1, TaskStep
    <3> QED
      BY <3>2, <3>3, PartsFacts DEF Shapes
  <2>2. IsValid(trial.tasks) /\ IsValid(s)
    BY <2>1, ScenarioFields DEF IsValid, InOrder, Shapes
  <2> HIDE DEF x
  <2>3. Ids(s) = Ids(trial.tasks) \ {x}
    BY <2>1, <2>2, WithoutGraph
  <2>4. ASSUME NEW t \in Ids(s)
        PROVE  Ancestors(s, t) = Ancestors(original.tasks, t) \cap Ids(s)
    <3>1. Ancestors(s, t) = Ancestors(trial.tasks, t) \ {x}
      BY <2>1, <2>2, <2>4, AncestorsWithout
    <3>2. Ancestors(trial.tasks, t) =
            Ancestors(original.tasks, t) \cap Ids(trial.tasks)
      BY <2>3, <2>4 DEF InOrder
    <3> QED
      BY <2>3, <3>1, <3>2
  <2>5. Ids(s) \in SUBSET Ids(original.tasks)
    BY <2>3 DEF InOrder
  <2> HIDE DEF s
  <2> QED
    BY <2>1, <2>4, <2>5
<1>7. CASE EndChunks \/ EndSimplify \/ EndWorkers \/ EndTasks
  BY <1>2, <1>7 DEF EndPass, EndChunks, EndSimplify, EndWorkers, EndTasks
<1>8. CASE RefineChunks \/ NextAction \/ NextRound \/ Finish
  BY <1>2, <1>8 DEF RefineChunks, NextAction, NextRound, Finish
<1>9. CASE UNCHANGED vars
  BY <1>2, <1>9 DEF vars
<1> QED
  BY <1>3, <1>4, <1>5, <1>6, <1>7, <1>8, <1>9 DEF Steps, Next, Over

LEMMA OrderInit ==
  ASSUME Init
  PROVE  InOrder
<1>1. original.tasks \in Seq(TaskSpecs) /\ trial = original
  BY ScenariosAssumption, ScenarioFields DEF Init
<1> DEFINE tasks == original.tasks
<1> HIDE DEF tasks
<1>2. ASSUME ValidDag(tasks), NEW t \in Ids(tasks)
      PROVE  Ancestors(tasks, t) \in SUBSET Ids(tasks)
  <2>1. IsValid(tasks)
    BY <1>1, <1>2 DEF IsValid, tasks
  <2> QED
    BY <1>2, <2>1, ValidNeeds, AncestorsClosed
<1>3. ValidDag(tasks) => \A t \in Ids(tasks) :
        Ancestors(tasks, t) = Ancestors(tasks, t) \cap Ids(tasks)
  BY <1>2
<1> QED
  BY <1>1, <1>3 DEF InOrder, tasks

(* A task that is removed leaves the order of the others: each waits for just
   those it waited for in the scenario that was given, directly or not, and
   the graph stays one that validate_dag accepts. *)
THEOREM OrderIsKept == Spec => []OrderSurvives
<1> DEFINE I == Shapes /\ Places /\ InOrder
<1>1. Init => I
  BY TypesInit, OrderInit
<1>2. I /\ [Next \/ Over]_vars => I'
  BY TypesStep, OrderStep DEF Steps
<1>3. I => OrderSurvives
  BY DEF InOrder, OrderSurvives
<1> QED
  BY <1>1, <1>2, <1>3, PTL DEF Spec

-----------------------------------------------------------------------------
(* What each pass has tried. *)

LEMMA RejectedIsNeeded ==
  ASSUME Total, NEW sc, ~ Fails(oracle, sc)
  PROVE  Needed(sc)
  BY AcceptedSatisfies DEF Needed

(* What is said of a scenario is said of it when it becomes the current one. *)
LEMMA Carried ==
  ASSUME NEW sc, current' = sc, oracle' = oracle, original' = original
  PROVE  /\ NoSpareAction(sc) => NoSpareAction(current)'
         /\ TimesAreShort(sc) => TimesAreShort(current)'
         /\ NoIdleWorker(sc) => NoIdleWorker(current)'
         /\ NoIdleTask(sc) => NoIdleTask(current)'
<1>1. NoSpareAction(sc) => NoSpareAction(current)'
  BY DEF NoSpareAction, Needed
<1>2. TimesAreShort(sc) => TimesAreShort(current)'
  BY DEF TimesAreShort, Needed
<1>3. NoIdleWorker(sc) => NoIdleWorker(current)'
  BY DEF NoIdleWorker, Needed, RefersToWorker
<1>4. NoIdleTask(sc) => NoIdleTask(current)'
  BY DEF NoIdleTask, Needed, RefersToTask
<1> QED
  BY <1>1, <1>2, <1>3, <1>4

LEMMA ChunksTriedStep ==
  ASSUME Shapes, Places, Total, ChunksTried, TryChunk
  PROVE  ChunksTried'
<1>1. Shapes' /\ oracle' = oracle
  BY TypesStep DEF Steps, Next, TryChunk, InPass
<1>2. DOMAIN trial'.actions = 1..Len(trial'.actions) /\ Len(trial'.actions) \in Nat
  <2>1. trial' \in AllScenarios
    BY <1>1 DEF Shapes
  <2> QED
    BY <2>1, ScenarioFields
<1>3. CASE cursor' = 0
  BY <1>2, <1>3 DEF ChunksTried
<1>4. CASE cursor' # 0
  <2> DEFINE s == WithoutChunk(trial.actions, cursor, ChunkSize)
  <2>1. /\ ~ Fails(oracle, WithActions(trial, s))
        /\ trial' = trial /\ granularity' = granularity
        /\ cursor' = cursor + ChunkSize
    BY <1>4, ChunkStep
  <2>2. ChunkSize' = ChunkSize
    BY <2>1 DEF ChunkSize
  <2> SUFFICES ASSUME ChunkSize = 1, NEW i \in DOMAIN trial.actions, i <= cursor + 1
               PROVE  ~ Satisfies(oracle, [trial EXCEPT !.actions = RemoveAt(@, i)])
    BY <1>1, <2>1, <2>2 DEF ChunksTried, Needed
  <2>3. i \in Nat /\ cursor \in Nat
    BY ScenarioFields DEF Shapes
  <2>4. CASE i <= cursor
    BY <2>4 DEF ChunksTried, Needed
  <2>5. CASE i = cursor + 1
    <3>1. s = RemoveAt(trial.actions, cursor + 1)
      BY <2>3, RemovedIsChunk
    <3> HIDE DEF s
    <3>2. WithActions(trial, s) = [trial EXCEPT !.actions = RemoveAt(@, i)]
      BY <2>5, <3>1 DEF WithActions
    <3>3. Needed(WithActions(trial, s))
      BY <2>1, RejectedIsNeeded
    <3> QED
      BY <3>2, <3>3 DEF Needed
  <2> QED
    BY <2>3, <2>4, <2>5
<1> QED
  BY <1>3, <1>4

LEMMA ChunksDone ==
  ASSUME Shapes, ChunksTried, EndChunks
  PROVE  NoSpareAction(trial)
<1>1. DOMAIN trial.actions = 1..Len(trial.actions) /\ Len(trial.actions) \in Nat
      /\ cursor \in Nat
  BY ScenarioFields DEF Shapes
<1> SUFFICES ASSUME Len(trial.actions) >= 2, NEW i \in DOMAIN trial.actions
             PROVE  Needed([trial EXCEPT !.actions = RemoveAt(@, i)])
  BY DEF NoSpareAction
<1>2. cursor >= Len(trial.actions) /\ Finest
  BY <1>1 DEF EndChunks
<1>3. ChunkSize = 1
  BY <1>2, ChunkSizeFacts
<1>4. i <= cursor
  BY <1>1, <1>2
<1> QED
  BY <1>3, <1>4, Zenon DEF ChunksTried

(* The pass has come to an action and has all its variants to try. *)
LEMMA VariantsReady ==
  ASSUME NEW sc \in AllScenarios, NEW i \in DOMAIN sc.actions,
         sc.actions[i].kind = "advance_time",
         NEW v \in {u \in ToSet(Ladder) : u < sc.actions[i].amount}
  PROVE  [sc.actions[i] EXCEPT !.amount = v] \in ToSet(VariantsAt(sc, i))
<1> DEFINE a == sc.actions[i]
<1>1. a \in Actions
  BY ScenarioFields, ElementOfSeq
<1>2. VariantsAt(sc, i) = Variants(a)
  BY DEF VariantsAt
<1>3. a.kind = "advance_time" /\ v \in {u \in ToSet(Ladder) : u < a.amount}
  OBVIOUS
<1>4. WithAmount(a, v) = [sc.actions[i] EXCEPT !.amount = v]
  BY DEF WithAmount
<1> HIDE DEF a
<1>5. WithAmount(a, v) \in ToSet(Variants(a))
  BY <1>1, <1>3, VariantFacts
<1> QED
  BY <1>2, <1>4, <1>5

LEMMA SimplerStarts ==
  ASSUME Shapes, Places, EndChunks
  PROVE  SimplerTried'
<1>1. /\ trial' = trial /\ current' = trial /\ oracle' = oracle /\ cursor' = 1
      /\ variants' = VariantsAt(trial, 1)
  BY DEF EndChunks, EndPass
<1> DEFINE now == trial.actions
<1>2. DOMAIN now = 1..Len(now) /\ Len(now) \in Nat /\ trial \in AllScenarios
  BY ScenarioFields DEF Shapes
<1>3. trial = [trial EXCEPT !.actions = now]
  BY ScenarioFields DEF Shapes
<1>4. variants' # <<>> => ToSet(variants') \in SUBSET ToSet(Variants(now[1]))
  BY <1>1 DEF VariantsAt
<1>5. ASSUME NEW i \in 1..Len(now), i <= 1, now[i].kind = "advance_time",
             NEW v \in {u \in ToSet(Ladder) : u < now[i].amount}
      PROVE  i = 1 /\ [now[i] EXCEPT !.amount = v] \in ToSet(VariantsAt(trial, 1))
  <2>1. i = 1
    BY <1>5
  <2> QED
    BY <1>2, <1>5, <2>1, VariantsReady
<1> QED
  BY <1>1, <1>3, <1>4, <1>5 DEF SimplerTried

LEMMA SimplerNext ==
  ASSUME Shapes, Places, SimplerTried, NextAction
  PROVE  SimplerTried'
<1> DEFINE now == current.actions
           c == cursor + 1
<1>1. /\ trial' = trial /\ current' = current /\ oracle' = oracle /\ cursor' = c
      /\ variants = <<>> /\ variants' = VariantsAt(trial, c)
  BY DEF NextAction, InPass
<1>2. /\ DOMAIN now = 1..Len(now) /\ Len(now) \in Nat /\ cursor \in Nat
      /\ DOMAIN trial.actions = 1..Len(trial.actions) /\ trial \in AllScenarios
  BY ScenarioFields DEF Shapes
<1>3. /\ trial = [current EXCEPT !.actions = trial.actions]
      /\ Len(trial.actions) = Len(now)
      /\ \A k \in 1..Len(now) : k > cursor => trial.actions[k] = now[k]
  BY DEF SimplerTried
<1>4. c \in 1..Len(now) /\ c \in DOMAIN trial.actions
  BY <1>2, <1>3 DEF NextAction
<1>5. trial.actions[c] = now[c]
  BY <1>2, <1>3, <1>4
<1>6. variants' # <<>> => ToSet(variants') \in SUBSET ToSet(Variants(now[c]))
  BY <1>1, <1>4, <1>5 DEF VariantsAt
<1>7. \A k \in 1..Len(now) : k > c => trial.actions[k] = now[k]
  BY <1>2, <1>3
<1>8. ASSUME NEW i \in 1..Len(now), i <= c, now[i].kind = "advance_time",
             NEW v \in {u \in ToSet(Ladder) : u < now[i].amount}
      PROVE  \/ i = c /\ [now[i] EXCEPT !.amount = v] \in ToSet(VariantsAt(trial, c))
             \/ Deviates(i)
             \/ Needed(Shorter(current, i, v))
  <2>1. CASE i = c
    BY <1>2, <1>4, <1>5, <1>8, <2>1, VariantsReady
  <2>2. CASE i # c
    <3>1. i <= cursor
      BY <1>2, <1>8, <2>2
    <3>2. ToSet(variants) = {}
      <4>1. Len(<<>>) = 0 /\ <<>> \in Seq(Actions)
        BY EmptySeq
      <4>2. DOMAIN <<>> = 1..0
        BY <4>1, LenProperties
      <4> QED
        BY <1>1, <4>2 DEF ToSet
    <3> QED
      BY <1>8, <3>1, <3>2 DEF SimplerTried
  <2> QED
    BY <2>1, <2>2
<1> HIDE DEF c
<1> QED
  BY <1>1, <1>3, <1>6, <1>7, <1>8 DEF SimplerTried, Deviates, Needed, Shorter

LEMMA SimplerStep ==
  ASSUME Shapes, Places, Total, SimplerTried, TryVariant
  PROVE  SimplerTried'
<1> DEFINE now == current.actions
           was == trial.actions
           h   == Head(variants)
           s   == Amend(was, cursor, h)
           N   == Len(now)
<1>1. /\ now \in Seq(Actions) /\ was \in Seq(Actions)
      /\ N \in Nat /\ DOMAIN now = 1..N /\ DOMAIN was = 1..Len(was)
      /\ cursor \in Nat /\ current \in AllScenarios /\ trial \in AllScenarios
  BY ScenarioFields DEF Shapes
<1>2. /\ trial = WithActions(current, was) /\ Len(was) = N
      /\ \A k \in 1..N : k > cursor => was[k] = now[k]
  BY Zenon DEF SimplerTried, WithActions
<1>3. ToSet(variants) \in SUBSET ToSet(Variants(now[cursor]))
  BY DEF SimplerTried, TryVariant
<1>4. /\ cursor \in 1..N /\ h \in Actions
      /\ ToSet(variants) = {h} \cup ToSet(Tail(variants))
      /\ variants' = Tail(variants)
      /\ trial' = IF WithActions(trial, s) # trial /\ Fails(oracle, WithActions(trial, s))
                  THEN WithActions(trial, s) ELSE trial
  BY <1>1, <1>2, VariantStep
<1>5. /\ s \in Seq(Actions) /\ Len(s) = N /\ s[cursor] = h
      /\ \A k \in 1..N : k # cursor => s[k] = was[k]
  <2> HIDE DEF was, h
  <2>1. cursor \in DOMAIN was /\ DOMAIN was = 1..N
    BY <1>1, <1>2, <1>4
  <2>2. /\ Amend(was, cursor, h) \in Seq(Actions)
        /\ Len(Amend(was, cursor, h)) = Len(was)
        /\ Amend(was, cursor, h)[cursor] = h
        /\ \A k \in DOMAIN was \ {cursor} : Amend(was, cursor, h)[k] = was[k]
    <3>1. was \in Seq(Actions) /\ cursor \in DOMAIN was /\ h \in Actions
      BY <1>1, <1>4, <2>1
    <3> HIDE DEF s, N, now
    <3> QED
      BY <3>1, AmendFacts
  <2> QED
    BY <1>2, <2>1, <2>2
<1>6. current' = current /\ oracle' = oracle /\ cursor' = cursor
  BY DEF TryVariant, InPass
<1>7. ToSet(variants') \in SUBSET ToSet(Variants(now[cursor]))
  BY <1>3, <1>4
<1> DEFINE Timed(i) == now[i].kind = "advance_time"
           Sooner(i) == {u \in ToSet(Ladder) : u < now[i].amount}
<1>8. \A i \in 1..N : i <= cursor /\ Timed(i) => \A v \in Sooner(i) :
        \/ i = cursor /\ WithAmount(now[i], v) \in ToSet(variants)
        \/ Deviates(i)
        \/ Needed(Shorter(current, i, v))
  BY Zenon DEF SimplerTried, WithAmount
<1>9. SUFFICES /\ trial' = WithActions(current, trial'.actions)
               /\ Len(trial'.actions) = N
               /\ \A k \in 1..N : k > cursor => trial'.actions[k] = now[k]
               /\ \A i \in 1..N : i <= cursor /\ Timed(i) => \A v \in Sooner(i) :
                    \/ i = cursor /\ WithAmount(now[i], v) \in ToSet(variants')
                    \/ \E k \in 1..i : trial'.actions[k] # now[k]
                    \/ ~ Satisfies(oracle, Shorter(current, i, v))
  BY <1>6, <1>7, Zenon DEF SimplerTried, WithActions, WithAmount, Deviates, Needed, Shorter
<1>10. ASSUME NEW i \in 1..N
       PROVE  now[i] \in Actions /\ now[i].amount \in Int
  <2> HIDE DEF now
  <2>1. now[i] \in Actions
    BY <1>1, ElementOfSeq
  <2> QED
    BY <2>1 DEF Actions
<1>11. \A v \in ToSet(Ladder) : v \in Int
  BY LadderAssumption, LenProperties, ElementOfSeq DEF ToSet
<1> HIDE DEF now, was, s, N, h
<1>12. CASE trial' = trial
  <2>1. WithActions(trial, s) = trial \/ ~ Fails(oracle, WithActions(trial, s))
    BY <1>4, <1>12
  <2>2. ASSUME NEW v \in Sooner(cursor), Timed(cursor), h = WithAmount(now[cursor], v),
               ~ Deviates(cursor)
        PROVE  ~ Satisfies(oracle, Shorter(current, cursor, v))
    <3>1. \A k \in 1..N : was[k] = now[k]
      <4> TAKE k \in 1..N
      <4>1. CASE k > cursor
        BY <1>2, <4>1
      <4>2. CASE ~ k > cursor
        <5>1. k \in 1..cursor
          BY <1>1, <4>2
        <5> QED
          BY <2>2, <5>1 DEF Deviates, was, now
      <4> QED
        BY <4>1, <4>2
    <3>2. was = now
      <4>1. was = [k \in 1..N |-> was[k]] /\ now = [k \in 1..N |-> now[k]]
        BY <1>1, <1>2
      <4> QED
        BY <3>1, <4>1
    <3>3. trial = current
      <4>1. current = WithActions(current, now)
        BY <1>1, ScenarioFields DEF WithActions, now
      <4> QED
        BY <1>2, <3>2, <4>1
    <3>4. WithActions(trial, s) = Shorter(current, cursor, v)
      BY <2>2, <3>2, <3>3 DEF WithActions, Shorter, s, Amend, WithAmount, now, was
    <3>5. WithActions(trial, s) # trial
      <4>1. WithActions(trial, s).actions = s
        BY <1>1, <1>5, PartsFacts
      <4>2. h # now[cursor]
        <5> DEFINE a == now[cursor]
        <5>1. a \in Actions /\ v \in Int /\ v # a.amount
          BY <1>4, <1>10, <1>11
        <5> HIDE DEF a
        <5>2. WithAmount(a, v) # a
          BY <5>1, Amended
        <5> QED
          BY <2>2, <5>2 DEF a
      <4>3. s # was
        BY <1>5, <3>2, <4>2
      <4> QED
        BY <4>1, <4>3 DEF was
    <3>6. Needed(WithActions(trial, s))
      BY <2>1, <3>5, RejectedIsNeeded
    <3> QED
      BY <3>4, <3>6 DEF Needed
  <2>3. ASSUME NEW i \in 1..N, i <= cursor, Timed(i), NEW v \in Sooner(i)
        PROVE  \/ i = cursor /\ WithAmount(now[i], v) \in ToSet(variants')
               \/ Deviates(i)
               \/ ~ Satisfies(oracle, Shorter(current, i, v))
    <3>1. \/ i = cursor /\ WithAmount(now[i], v) \in ToSet(variants)
          \/ Deviates(i)
          \/ Needed(Shorter(current, i, v))
      BY <1>8, <2>3
    <3>2. CASE i = cursor /\ WithAmount(now[i], v) = h
      BY <2>2, <2>3, <3>2
    <3> QED
      BY <1>4, <3>1, <3>2 DEF Needed
  <2> QED
    BY <1>2, <1>12, <2>3 DEF Deviates, was, now
<1>13. CASE trial' = WithActions(trial, s)
  <2>1. trial'.actions = s
    BY <1>1, <1>5, <1>13, PartsFacts
  <2>2. trial' = WithActions(current, s)
    <3>1. WithActions(WithActions(current, was), s) = WithActions(current, s)
      BY <1>1 DEF WithActions, AllScenarios
    <3> QED
      BY <1>2, <1>13, <3>1
  <2>3. \A k \in 1..N : k > cursor => s[k] = now[k]
    BY <1>1, <1>2, <1>5
  <2>4. ASSUME NEW i \in 1..N, i <= cursor, Timed(i), NEW v \in Sooner(i),
               \A k \in 1..i : s[k] = now[k]
        PROVE  ~ Satisfies(oracle, Shorter(current, i, v))
    <3>1. i # cursor
      <4> SUFFICES ASSUME i = cursor PROVE FALSE
        OBVIOUS
      <4>1. s[cursor] = now[cursor]
        BY <1>4, <2>4
      <4> DEFINE a == now[cursor]
      <4>2. a \in Actions /\ a.kind = "advance_time" /\ a \in ToSet(Variants(a))
        BY <1>3, <1>4, <1>5, <1>10, <2>4, <4>1
      <4> HIDE DEF a
      <4> QED
        BY <4>2, VariantFacts
    <3>2. \A k \in 1..i : k \in 1..N /\ k # cursor
      BY <1>1, <1>4, <2>4, <3>1
    <3>3. ~ Deviates(i)
      BY <1>5, <2>4, <3>2 DEF Deviates, was, now
    <3> QED
      BY <1>8, <2>4, <3>1, <3>3 DEF Needed
  <2> QED
    BY <1>5, <2>1, <2>2, <2>3, <2>4
<1> QED
  BY <1>4, <1>12, <1>13

LEMMA SimplerDone ==
  ASSUME Shapes, SimplerTried, EndSimplify, trial = current
  PROVE  TimesAreShort(current)
<1> DEFINE now == current.actions
<1>1. DOMAIN now = 1..Len(now) /\ Len(now) \in Nat /\ cursor \in Nat
  BY ScenarioFields DEF Shapes
<1>2. variants = <<>> /\ cursor >= Len(now)
  BY DEF EndSimplify
<1>3. ToSet(variants) = {}
  <2>1. Len(<<>>) = 0 /\ <<>> \in Seq(Actions)
    BY EmptySeq
  <2>2. DOMAIN <<>> = 1..0
    BY <2>1, LenProperties
  <2> QED
    BY <1>2, <2>2 DEF ToSet
<1>4. ASSUME NEW i \in 1..Len(now), now[i].kind = "advance_time",
             NEW v \in {u \in ToSet(Ladder) : u < now[i].amount}
      PROVE  Needed(Shorter(current, i, v))
  <2>1. i <= cursor
    BY <1>1, <1>2
  <2>2. ~ Deviates(i)
    BY DEF Deviates
  <2> QED
    BY <1>3, <1>4, <2>1, <2>2 DEF SimplerTried
<1> QED
  BY <1>1, <1>4 DEF TimesAreShort, Shorter

LEMMA WorkersTriedStep ==
  ASSUME Shapes, Places, Total, WorkersTried, TryWorker
  PROVE  WorkersTried'
<1> DEFINE s == RemoveAt(trial.workers, cursor)
<1>1. current' = current /\ oracle' = oracle
  BY DEF TryWorker, InPass
<1>2. /\ Len(trial.workers) \in Nat /\ Len(current.workers) \in Nat /\ cursor \in Nat
      /\ cursor \in 1..Len(trial.workers)
      /\ s \in Seq(WorkerSpecs) /\ Len(s) < Len(trial.workers) /\ Len(s) \in Nat
      /\ trial \in AllScenarios
  BY ScenarioFields, WorkerStep, LenProperties DEF Shapes
<1>3. CASE trial' = trial
  <2>1. /\ cursor' = cursor + 1
        /\ \/ RefersToWorker(trial, trial.workers[cursor].id)
           \/ ~ Len(trial.workers) > 1 \/ ~ Fails(oracle, WithWorkers(trial, s))
    <3>1. WithWorkers(trial, s).workers = s
      BY <1>2, PartsFacts
    <3>2. s # trial.workers
      BY <1>2
    <3>3. WithWorkers(trial, s) # trial
      BY <3>1, <3>2
    <3> QED
      BY <1>3, <3>3, WorkerStep
  <2>2. ASSUME trial = current PROVE WorkerStays(current, cursor)
    <3>1. WithWorkers(trial, s) = [current EXCEPT !.workers = RemoveAt(@, cursor)]
      BY <2>2 DEF WithWorkers
    <3>2. ~ Len(trial.workers) > 1 => Len(current.workers) = 1
      <4> DEFINE n == Len(trial.workers)
      <4>1. n \in Nat /\ cursor \in 1..n
        BY <1>2
      <4>2. n = Len(current.workers)
        BY <2>2
      <4> HIDE DEF n
      <4>3. ~ n > 1 => n = 1
        BY <4>1
      <4> QED
        BY <4>2, <4>3 DEF n
    <3>3. ~ Fails(oracle, WithWorkers(trial, s))
             => Needed([current EXCEPT !.workers = RemoveAt(@, cursor)])
      BY <3>1, RejectedIsNeeded
    <3> QED
      BY <2>1, <2>2, <3>2, <3>3 DEF WorkerStays
  <2>3. ASSUME trial = current, NEW i \in 1..Len(current.workers), i < cursor + 1
        PROVE  WorkerStays(current, i)
    <3>1. i < cursor \/ i = cursor
      BY <1>2, <2>3
    <3> QED
      BY <2>2, <2>3, <3>1 DEF WorkersTried
  <2> QED
    BY <1>1, <1>3, <2>1, <2>3 DEF WorkersTried, WorkerStays, Needed, RefersToWorker
<1>4. CASE trial' # trial
  <2>1. trial' = WithWorkers(trial, s)
    BY <1>4, WorkerStep
  <2>2. trial'.workers = s
    BY <1>2, <2>1, PartsFacts
  <2>3. Len(trial'.workers) < Len(current.workers)
    BY <1>2, <2>2 DEF WorkersTried
  <2>4. trial' # current
    BY <1>2, <2>2, <2>3
  <2> QED
    BY <1>1, <2>3, <2>4 DEF WorkersTried
<1> QED
  BY <1>3, <1>4

LEMMA WorkersDone ==
  ASSUME Shapes, WorkersTried, EndWorkers, trial = current
  PROVE  NoIdleWorker(current)
<1>1. DOMAIN current.workers = 1..Len(current.workers) /\ Len(current.workers) \in Nat
      /\ cursor \in Nat /\ cursor > Len(current.workers)
  BY ScenarioFields DEF Shapes, EndWorkers
<1>2. ASSUME NEW i \in 1..Len(current.workers) PROVE WorkerStays(current, i)
  <2>1. i < cursor
    BY <1>1
  <2> QED
    BY <2>1 DEF WorkersTried
<1> QED
  BY <1>1, <1>2 DEF NoIdleWorker, WorkerStays

LEMMA TasksTriedStep ==
  ASSUME Shapes, Places, Total, InOrder, TasksTried, TryTask
  PROVE  TasksTried'
<1> DEFINE x == trial.tasks[cursor].id
           s == WithoutTask(trial.tasks, x)
<1>1. current' = current /\ oracle' = oracle /\ original' = original
  BY DEF TryTask, InPass
<1>2. /\ Len(trial.tasks) \in Nat /\ Len(current.tasks) \in Nat /\ cursor \in Nat
      /\ Len(trial.tasks) > 1
      /\ cursor \in 1..Len(trial.tasks) /\ x \in Ids(trial.tasks)
      /\ s \in Seq(TaskSpecs) /\ Len(s) < Len(trial.tasks) /\ Len(s) \in Nat
      /\ trial \in AllScenarios /\ trial.tasks \in Seq(TaskSpecs)
  BY ScenarioFields, TaskStep, LenProperties DEF Shapes, TryTask
<1>3. CASE trial' = trial
  <2>1. /\ cursor' = cursor - 1
        /\ \/ RefersToTask(trial, x) \/ ~ ValidDag(s)
           \/ ~ Fails(oracle, WithTasks(trial, s))
    <3>1. WithTasks(trial, s).tasks = s
      BY <1>2, PartsFacts
    <3>2. s # trial.tasks
      BY <1>2
    <3>3. WithTasks(trial, s) # trial
      BY <3>1, <3>2
    <3> QED
      BY <1>3, <3>3, TaskStep
  <2>2. ASSUME trial = current, ValidDag(original.tasks)
        PROVE  TaskStays(current, current.tasks[cursor].id)
    <3>1. WithTasks(trial, s) = [current EXCEPT !.tasks = WithoutTask(@, x)]
      BY <2>2 DEF WithTasks
    <3>2. ValidDag(s)
      <4>1. IsValid(trial.tasks)
        BY <1>2, <2>2 DEF InOrder, IsValid
      <4> HIDE DEF x
      <4>2. IsValid(WithoutTask(trial.tasks, x))
        BY <1>2, <4>1, WithoutIsValid
      <4> QED
        BY <4>2 DEF IsValid
    <3>3. ~ Fails(oracle, WithTasks(trial, s))
             => Needed([current EXCEPT !.tasks = WithoutTask(@, x)])
      BY <3>1, RejectedIsNeeded
    <3> QED
      BY <2>1, <2>2, <3>2, <3>3 DEF TaskStays
  <2>3. ASSUME trial = current, ValidDag(original.tasks),
               NEW i \in 1..Len(current.tasks), i > cursor - 1
        PROVE  TaskStays(current, current.tasks[i].id)
    <3>1. i > cursor \/ i = cursor
      BY <1>2, <2>3
    <3> QED
      BY <2>2, <2>3, <3>1 DEF TasksTried
  <2> QED
    BY <1>1, <1>3, <2>1, <2>3 DEF TasksTried, TaskStays, Needed, RefersToTask
<1>4. CASE trial' # trial
  <2>1. trial' = WithTasks(trial, s)
    BY <1>4, TaskStep
  <2>2. trial'.tasks = s
    BY <1>2, <2>1, PartsFacts
  <2>3. Len(trial'.tasks) < Len(current.tasks)
    BY <1>2, <2>2 DEF TasksTried
  <2>4. trial' # current
    BY <1>2, <2>2, <2>3
  <2> QED
    BY <1>1, <2>3, <2>4 DEF TasksTried
<1> QED
  BY <1>3, <1>4

LEMMA TasksDone ==
  ASSUME Shapes, TasksTried, EndTasks, trial = current
  PROVE  NoIdleTask(current)
<1>1. DOMAIN current.tasks = 1..Len(current.tasks) /\ Len(current.tasks) \in Nat
      /\ cursor \in Nat
  BY ScenarioFields DEF Shapes
<1>2. ASSUME ValidDag(original.tasks), NEW t \in Ids(current.tasks)
      PROVE  TaskStays(current, t)
  <2>1. PICK i \in 1..Len(current.tasks) : current.tasks[i].id = t
    BY <1>1 DEF Ids
  <2>2. CASE cursor = 0
    <3>1. i > cursor
      BY <2>2
    <3> QED
      BY <1>2, <2>1, <3>1 DEF TasksTried
  <2>3. CASE Len(trial.tasks) <= 1
    <3>1. Len(current.tasks) = 1
      <4> DEFINE n == Len(current.tasks)
      <4>1. n \in Nat /\ i \in 1..n /\ n <= 1
        BY <1>1, <2>1, <2>3
      <4> HIDE DEF n
      <4>2. n = 1
        BY <4>1
      <4> QED
        BY <4>2 DEF n
    <3> QED
      BY <3>1 DEF TaskStays
  <2> QED
    BY <2>2, <2>3 DEF EndTasks
<1> QED
  BY <1>2 DEF NoIdleTask, TaskStays

-----------------------------------------------------------------------------
(* The result is minimal. *)

IInv == Shapes /\ Places /\ Alive /\ InOrder /\ Tried /\ Settled

LEMMA TriedInit ==
  ASSUME Init
  PROVE  Tried /\ Settled
<1>1. DOMAIN trial.actions = 1..Len(trial.actions) /\ Len(trial.actions) \in Nat
      /\ cursor = 0 /\ pass = "actions"
  BY TypesInit, ScenarioFields DEF Init, Shapes
<1>2. ChunksTried
  BY <1>1 DEF ChunksTried
<1> QED
  BY <1>1, <1>2 DEF Tried, Settled

(* A step within a pass leaves what the passes before it made sure of. *)
LEMMA SettledInPass ==
  ASSUME Settled, InPass
  PROVE  Settled'
<1>1. /\ current' = current /\ oracle' = oracle /\ original' = original
      /\ pass' = pass /\ changed' = changed
  BY DEF InPass
<1>2. Total' <=> Total
  BY <1>1 DEF Total
<1> DEFINE sc == current
<1>3. /\ NoSpareAction(sc) => NoSpareAction(current)'
      /\ TimesAreShort(sc) => TimesAreShort(current)'
      /\ NoIdleWorker(sc) => NoIdleWorker(current)'
      /\ NoIdleTask(sc) => NoIdleTask(current)'
  <2> HIDE DEF sc
  <2>1. current' = sc
    BY <1>1 DEF sc
  <2> QED
    BY <1>1, <2>1, Carried
<1> QED
  BY <1>1, <1>2, <1>3 DEF Settled

LEMMA TriedStep ==
  ASSUME IInv, Steps
  PROVE  Tried' /\ Settled'
<1> SUFFICES ASSUME Total' PROVE Tried' /\ Settled'
  BY DEF Tried, Settled
<1>1. oracle' = oracle /\ original' = original
  BY DEF Steps, Next, Over, vars, InPass, EndPass, TryChunk, RefineChunks, EndChunks,
         TryVariant, NextAction, EndSimplify, TryWorker, EndWorkers, TryTask, EndTasks,
         NextRound, Finish
<1>2. /\ Total /\ Shapes /\ Places /\ InOrder /\ Settled
      /\ Shapes'
      /\ pass = "actions" => ChunksTried
      /\ pass = "simplify" => SimplerTried
      /\ pass = "workers" => WorkersTried
      /\ pass = "tasks" => TasksTried
  BY <1>1, TypesStep DEF IInv, Tried, Total
<1>3. /\ DOMAIN trial'.actions = 1..Len(trial'.actions) /\ Len(trial'.actions) \in Nat
      /\ Len(trial'.tasks) \in Nat
  <2>1. trial' \in AllScenarios
    BY <1>2 DEF Shapes
  <2> QED
    BY <2>1, ScenarioFields
<1>4. CASE TryChunk
  BY <1>2, <1>4, ChunksTriedStep, SettledInPass DEF TryChunk, InPass, Tried
<1>5. CASE RefineChunks
  <2>1. ChunksTried'
    BY <1>3, <1>5 DEF RefineChunks, ChunksTried
  <2> QED
    BY <1>2, <1>5, <2>1, SettledInPass DEF RefineChunks, InPass, Tried
<1>6. CASE TryVariant
  BY <1>2, <1>6, SimplerStep, SettledInPass DEF TryVariant, InPass, Tried
<1>7. CASE NextAction
  BY <1>2, <1>7, SimplerNext, SettledInPass DEF NextAction, InPass, Tried
<1>8. CASE TryWorker
  BY <1>2, <1>8, WorkersTriedStep, SettledInPass DEF TryWorker, InPass, Tried
<1>9. CASE TryTask
  BY <1>2, <1>9, TasksTriedStep, SettledInPass DEF TryTask, InPass, Tried
<1> DEFINE sc == trial
<1>10. ASSUME current' = trial
       PROVE  /\ NoSpareAction(trial) => NoSpareAction(current)'
              /\ TimesAreShort(trial) => TimesAreShort(current)'
              /\ NoIdleWorker(trial) => NoIdleWorker(current)'
              /\ NoIdleTask(trial) => NoIdleTask(current)'
  <2>1. current' = sc
    BY <1>10
  <2> HIDE DEF sc
  <2>2. /\ NoSpareAction(sc) => NoSpareAction(current)'
        /\ TimesAreShort(sc) => TimesAreShort(current)'
        /\ NoIdleWorker(sc) => NoIdleWorker(current)'
        /\ NoIdleTask(sc) => NoIdleTask(current)'
    BY <1>1, <2>1, Carried
  <2> QED
    BY <2>2 DEF sc
<1>11. CASE EndChunks
  <2>1. NoSpareAction(trial)
    BY <1>2, <1>11, ChunksDone DEF EndChunks
  <2>2. current' = trial /\ pass' = "simplify"
    BY <1>11 DEF EndChunks, EndPass
  <2>3. SimplerTried'
    BY <1>2, <1>11, SimplerStarts
  <2> QED
    BY <1>10, <2>1, <2>2, <2>3 DEF Tried, Settled
<1>12. CASE EndSimplify
  <2>1. /\ current' = trial /\ trial' = trial /\ pass' = "workers" /\ cursor' = 1
        /\ ~ changed' => trial = current
        /\ pass = "simplify"
    BY <1>12 DEF EndSimplify, EndPass
  <2>2. trial = current => NoSpareAction(trial) /\ TimesAreShort(trial)
    BY <1>2, <1>12, <2>1, SimplerDone DEF Settled
  <2>3. WorkersTried'
    BY <2>1 DEF WorkersTried
  <2> QED
    BY <1>10, <2>1, <2>2, <2>3 DEF Tried, Settled
<1>13. CASE EndWorkers
  <2>1. /\ current' = trial /\ trial' = trial /\ pass' = "tasks"
        /\ cursor' = Len(trial.tasks)
        /\ ~ changed' => trial = current /\ ~ changed
        /\ pass = "workers"
    BY <1>13 DEF EndWorkers, EndPass
  <2>2. ~ changed' => NoSpareAction(trial) /\ TimesAreShort(trial) /\ NoIdleWorker(trial)
    BY <1>2, <1>13, <2>1, WorkersDone DEF Settled
  <2>3. TasksTried'
    BY <1>3, <2>1 DEF TasksTried
  <2> QED
    BY <1>10, <2>1, <2>2, <2>3 DEF Tried, Settled
<1>14. CASE EndTasks
  <2>1. /\ current' = trial /\ trial' = trial /\ pass' = "over"
        /\ ~ changed' => trial = current /\ ~ changed
        /\ pass = "tasks"
    BY <1>14 DEF EndTasks, EndPass
  <2>2. ~ changed' => /\ NoSpareAction(trial) /\ TimesAreShort(trial)
                      /\ NoIdleWorker(trial) /\ NoIdleTask(trial)
    BY <1>2, <1>14, <2>1, TasksDone DEF Settled
  <2> QED
    BY <1>10, <2>1, <2>2 DEF Tried, Settled
<1>15. CASE NextRound
  <2>1. cursor' = 0 /\ pass' = "actions"
    BY <1>15 DEF NextRound
  <2>2. ChunksTried'
    BY <1>3, <2>1 DEF ChunksTried
  <2> QED
    BY <2>1, <2>2 DEF Tried, Settled
<1> DEFINE kept == current
<1>16. ASSUME current' = current
       PROVE  /\ NoSpareAction(current) => NoSpareAction(current)'
              /\ TimesAreShort(current) => TimesAreShort(current)'
              /\ NoIdleWorker(current) => NoIdleWorker(current)'
              /\ NoIdleTask(current) => NoIdleTask(current)'
  <2>1. current' = kept
    BY <1>16
  <2> HIDE DEF kept
  <2>2. /\ NoSpareAction(kept) => NoSpareAction(current)'
        /\ TimesAreShort(kept) => TimesAreShort(current)'
        /\ NoIdleWorker(kept) => NoIdleWorker(current)'
        /\ NoIdleTask(kept) => NoIdleTask(current)'
    BY <1>1, <2>1, Carried
  <2> QED
    BY <2>2 DEF kept
<1>17. CASE Finish
  <2>1. current' = current /\ pass' = "over" /\ pass = "over" /\ changed' = changed
    BY <1>17 DEF Finish
  <2> QED
    BY <1>2, <1>16, <2>1 DEF Tried, Settled
<1>18. CASE UNCHANGED vars
  <2>1. /\ current' = current /\ pass' = pass /\ changed' = changed /\ trial' = trial
        /\ cursor' = cursor /\ variants' = variants /\ granularity' = granularity
    BY <1>18 DEF vars
  <2>2. Settled'
    BY <1>2, <1>16, <2>1 DEF Settled
  <2>3. ChunksTried => ChunksTried'
    BY <1>1, <2>1 DEF ChunksTried, ChunkSize, Needed
  <2>4. SimplerTried => SimplerTried'
    BY <1>1, <2>1 DEF SimplerTried, Deviates, Needed, Shorter
  <2>5. WorkersTried => WorkersTried'
    BY <1>1, <2>1 DEF WorkersTried, WorkerStays, Needed, RefersToWorker
  <2>6. TasksTried => TasksTried'
    BY <1>1, <2>1 DEF TasksTried, TaskStays, Needed, RefersToTask
  <2> QED
    BY <1>2, <2>1, <2>2, <2>3, <2>4, <2>5, <2>6 DEF Tried
<1> QED
  BY <1>4, <1>5, <1>6, <1>7, <1>8, <1>9, <1>11, <1>12, <1>13, <1>14, <1>15, <1>17, <1>18
     DEF Steps, Next, Over

LEMMA IInvHolds == Spec => []IInv
<1>1. Init => IInv
  BY TypesInit, AliveInit, OrderInit, TriedInit DEF IInv
<1>2. IInv /\ [Next \/ Over]_vars => IInv'
  BY TypesStep, AliveStep, OrderStep, TriedStep DEF IInv, Steps
<1> QED
  BY <1>1, <1>2, PTL DEF Spec

(* What shrink returns after a round that changed nothing is minimal, whatever
   order its passes accepted things in before: no single action, no idle
   worker, no idle task and no shorter time step is left that the failure
   could do without. *)
THEOREM SettledIsMinimal == Spec => []ResultIsMinimal
<1>1. IInv => ResultIsMinimal
  BY DEF IInv, Places, Settled, ResultIsMinimal
<1> QED
  BY <1>1, IInvHolds, PTL
=============================================================================
