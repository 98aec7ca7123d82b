---------------------------- MODULE TraceProofs ----------------------------
(***************************************************************************)
(* What is proved of POST /log's two halves, the trace database that it    *)
(* writes to and the rate limiter that it asks first, for all degrees,     *)
(* ids, values, API keys, limits and bounds.                               *)
(*                                                                         *)
(* Readers see exactly the visible traces, each once, and a new process    *)
(* finds the oldest of them.                                               *)
(*                                                                         *)
(* No bucket of the limiter holds more than its capacity or is ahead of    *)
(* the clock.  So each operation changes the levels that the buckets show  *)
(* as an action of Throttle does, or not at all: the limiter implements    *)
(* Throttle.  And the meters of Throttle keep their rate and recover, by   *)
(* an invariant that adds up what they hold, what they let pass and when;  *)
(* so do the limiter's buckets.                                            *)
(***************************************************************************)
EXTENDS TraceDB, RateLimiter, TreeProofs

-----------------------------------------------------------------------------
(* Traces in the order of their ids.                                         *)

\* No two entries of S have the same key.
Unique(S) == \A x, y \in S : x.key = y.key => x = y

\* The keys of S are 1, 2 and so on, up to some number.
FromOne(S) == \A x \in S : x.key >= 1 /\ \A k \in 1..x.key : \E y \in S : y.key = k

\* Entry i has key i.
Numbered(s) == \A i \in 1..Len(s) : s[i].key = i

\* What an ascending sequence holds has its keys once each.
LEMMA AscendingUnique ==
  ASSUME NEW s \in Seq(Entry), Ascending(1, s)
  PROVE  Unique(ToSet(s))
<1> SUFFICES ASSUME NEW x \in ToSet(s), NEW y \in ToSet(s), x.key = y.key PROVE x = y
  BY DEF Unique
<1>1. PICK i \in 1..Len(s) : s[i] = x
  BY ToSetIs
<1>2. PICK j \in 1..Len(s) : s[j] = y
  BY ToSetIs
<1>3. i \in Int /\ j \in Int /\ (i < j \/ j < i \/ i = j)
  OBVIOUS
<1>4. /\ i < j => s[i].key < s[j].key
      /\ j < i => s[j].key < s[i].key
  BY Distinct
<1>5. s[i].key \in Int /\ s[j].key \in Int /\ s[i].key = s[j].key
  BY <1>1, <1>2, Distinct
<1> QED BY <1>1, <1>2, <1>3, <1>4, <1>5

\* An ascending sequence whose keys leave no gap from 1 on is numbered.
LEMMA GaplessNumbered ==
  ASSUME NEW s \in Seq(Entry), Ascending(1, s), FromOne(ToSet(s))
  PROVE  Numbered(s)
<1> DEFINE S == {n \in Nat : \A i \in 1..Len(s) : i <= n => s[i].key = i}
<1>1. /\ Len(s) \in Nat
      /\ \A i, j \in 1..Len(s) : i < j => s[i].key < s[j].key
      /\ \A i \in 1..Len(s) : s[i].key \in Int
  BY Distinct
<1>2. \A i \in 1..Len(s) :
        s[i].key >= 1 /\ \A k \in 1..s[i].key : \E j \in 1..Len(s) : s[j].key = k
  <2> TAKE i \in 1..Len(s)
  <2>1. s[i] \in ToSet(s)
    BY ToSetIs
  <2>2. s[i].key >= 1 /\ \A k \in 1..s[i].key : \E y \in ToSet(s) : y.key = k
    BY <2>1 DEF FromOne
  <2>3. \A y \in ToSet(s) : \E j \in 1..Len(s) : s[j] = y
    BY ToSetIs
  <2> QED BY <2>2, <2>3
<1>3. 0 \in S
  BY <1>1
<1>4. ASSUME NEW n \in S PROVE n + 1 \in S
  <2> SUFFICES ASSUME NEW i \in 1..Len(s), i <= n + 1 PROVE s[i].key = i
    OBVIOUS
  <2>1. n \in Nat /\ i \in Int /\ s[i].key \in Int
    BY <1>1
  <2>2. \A j \in 1..Len(s) : j < i => s[j].key = j
    BY <2>1, <1>1
  <2>3. CASE s[i].key < i
    <3>1. s[i].key \in 1..Len(s)
      BY <1>1, <1>2, <2>1, <2>3
    <3>2. s[s[i].key].key = s[i].key
      BY <2>2, <2>3, <3>1
    <3>3. s[s[i].key].key < s[i].key
      BY <1>1, <2>3, <3>1
    <3> QED BY <3>2, <3>3, <2>1
  <2>4. CASE s[i].key > i
    <3>1. i \in 1..s[i].key
      BY <2>1, <2>4
    <3>2. PICK j \in 1..Len(s) : s[j].key = i
      BY <1>2, <3>1
    <3>3. j \in Int /\ (j < i \/ j = i \/ i < j)
      OBVIOUS
    <3>4. CASE j < i
      BY <2>2, <3>2, <3>4
    <3>5. CASE j = i
      BY <2>1, <2>4, <3>2, <3>5
    <3>6. CASE i < j
      <4>1. s[i].key < s[j].key
        BY <1>1, <3>6
      <4> QED BY <4>1, <3>2, <2>1, <2>4
    <3> QED BY <3>3, <3>4, <3>5, <3>6
  <2> QED BY <2>1, <2>3, <2>4
<1>5. S = Nat
  <2> HIDE DEF S
  <2>1. S \in SUBSET Nat
    BY DEF S
  <2> QED BY <1>3, <1>4, <2>1, NatInd
<1>6. Len(s) \in S
  <2> HIDE DEF S
  <2> QED BY <1>1, <1>5
<1> QED BY <1>6, <1>1 DEF Numbered

\* What a numbered sequence holds has the keys from 1 to its length, once each.
LEMMA NumberedSet ==
  ASSUME NEW s \in Seq(Entry), Numbered(s)
  PROVE  /\ Unique(ToSet(s)) /\ FromOne(ToSet(s))
         /\ \A x \in ToSet(s) : x.key \in 1..Len(s)
         /\ \A k \in 1..Len(s) : \E x \in ToSet(s) : x.key = k
<1>1. Len(s) \in Nat /\ \A i \in 1..Len(s) : s[i].key = i /\ s[i] \in ToSet(s)
  BY ToSetIs DEF Numbered
<1>2. \A x \in ToSet(s) : x.key \in 1..Len(s) /\ s[x.key] = x
  <2> TAKE x \in ToSet(s)
  <2>1. PICK i \in 1..Len(s) : s[i] = x
    BY ToSetIs
  <2>2. x.key = i
    BY <1>1, <2>1
  <2> QED BY <2>1, <2>2
<1>3. \A k \in 1..Len(s) : \E x \in ToSet(s) : x.key = k
  BY <1>1
<1>4. Unique(ToSet(s))
  <2>1. ASSUME NEW x \in ToSet(s), NEW y \in ToSet(s), x.key = y.key PROVE x = y
    BY <1>2, <2>1
  <2> QED BY <2>1 DEF Unique
<1>5. FromOne(ToSet(s))
  <2> SUFFICES ASSUME NEW x \in ToSet(s)
               PROVE  x.key >= 1 /\ \A k \in 1..x.key : \E y \in ToSet(s) : y.key = k
    BY DEF FromOne
  <2>1. x.key \in 1..Len(s)
    BY <1>2
  <2>2. \A k \in 1..x.key : k \in 1..Len(s)
    BY <1>1, <2>1
  <2> QED BY <1>3, <2>1, <2>2
<1> QED BY <1>2, <1>3, <1>4, <1>5

\* The picks from an ascending sequence ascend.
LEMMA PicksAscend ==
  ASSUME NEW s \in Seq(Entry), Ascending(1, s), NEW I, NEW u, Picking(s, I, u)
  PROVE  u[Len(s)] \in Seq(Entry) /\ Ascending(1, u[Len(s)])
<1>1. /\ Len(s) \in Nat
      /\ \A i, j \in 1..Len(s) : i < j => s[i].key < s[j].key
      /\ \A i \in 1..Len(s) : s[i] \in Entry /\ s[i].key \in Int
  BY Distinct
<1>2. /\ u[0] = <<>>
      /\ \A i \in 1..Len(s) : u[i] = u[i - 1] \o IF i \in I THEN <<s[i]>> ELSE <<>>
  <2>1. 0 \in 0..Len(s) /\ \A i \in 1..Len(s) : i \in 0..Len(s) /\ i # 0
    BY <1>1
  <2> QED BY <2>1 DEF Picking
<1> DEFINE Done(i) == /\ u[i] \in Seq(Entry) /\ Ascending(1, u[i])
                      /\ \A j \in 1..Len(u[i]) : \E m \in 1..i : u[i][j] = s[m]
           S == {i \in Nat : i <= Len(s) => Done(i)}
<1>3. 0 \in S
  <2>1. u[0] \in Seq(Entry) /\ Len(u[0]) = 0
    BY <1>2
  <2> QED BY <2>1 DEF Ascending
<1>4. ASSUME NEW i \in S PROVE i + 1 \in S
  <2>0. i + 1 \in Nat
    OBVIOUS
  <2> SUFFICES ASSUME i + 1 <= Len(s) PROVE Done(i + 1)
    BY <2>0, Zenon
  <2>1. i \in Nat /\ i + 1 \in 1..Len(s) /\ (i + 1) - 1 = i /\ i <= Len(s)
    BY <1>1
  <2>2. Done(i)
    BY <2>1
  <2>3. PICK v : v = u[i]
    OBVIOUS
  <2>4. /\ v \in Seq(Entry) /\ Ascending(1, v) /\ Len(v) \in Nat
        /\ \A j \in 1..Len(v) : \E m \in 1..i : v[j] = s[m]
    BY <2>2, <2>3
  <2>5. CASE i + 1 \notin I
    <3>1. u[i + 1] = v \o <<>>
      BY <1>2, <2>1, <2>3, <2>5
    <3>2. v \o <<>> = v
      BY <2>4
    <3>3. u[i + 1] = v
      BY <3>1, <3>2
    <3>4. \A m \in 1..i : m \in 1..i + 1
      BY <2>1
    <3> QED BY <2>4, <3>3, <3>4
  <2>6. CASE i + 1 \in I
    <3>1. PICK t : t = <<s[i + 1]>>
      OBVIOUS
    <3>2. u[i + 1] = v \o t
      BY <1>2, <2>1, <2>3, <2>6, <3>1
    <3>3. t \in Seq(Entry) /\ Len(t) = 1 /\ t[1] = s[i + 1]
      BY <1>1, <2>1, <3>1
    <3>4. Ascending(1, t)
      BY <3>3 DEF Ascending
    <3>5. \A a \in 1..Len(v), b \in 1..Len(t) : v[a].key + 1 <= t[b].key
      <4> TAKE a \in 1..Len(v), b \in 1..Len(t)
      <4>1. PICK m \in 1..i : v[a] = s[m]
        BY <2>4
      <4>2. m \in 1..Len(s) /\ m < i + 1
        BY <2>1
      <4>3. s[m].key < s[i + 1].key /\ s[m].key \in Int /\ s[i + 1].key \in Int
        BY <4>2, <2>1, <1>1
      <4>4. b = 1
        BY <3>3
      <4>5. s[m].key + 1 <= s[i + 1].key
        BY <4>3
      <4> QED BY <4>1, <4>4, <4>5, <3>3
    <3>6. Ascending(1, v \o t)
      BY <2>4, <3>3, <3>4, <3>5, ConcatAscends
    <3>7. v \o t \in Seq(Entry)
      BY <2>4, <3>3, Concat
    <3>8. \A j \in 1..Len(v \o t) : \E m \in 1..i + 1 : (v \o t)[j] = s[m]
      <4> TAKE j \in 1..Len(v \o t)
      <4>1. \/ j \in 1..Len(v) /\ (v \o t)[j] = v[j]
            \/ j - Len(v) \in 1..Len(t) /\ (v \o t)[j] = t[j - Len(v)]
        BY <2>4, <3>3, Concat
      <4>2. CASE j \in 1..Len(v) /\ (v \o t)[j] = v[j]
        <5>1. \A m \in 1..i : m \in 1..i + 1
          BY <2>1
        <5> QED BY <4>2, <5>1, <2>4
      <4>3. CASE j - Len(v) \in 1..Len(t) /\ (v \o t)[j] = t[j - Len(v)]
        <5>1. j - Len(v) = 1
          BY <4>3, <3>3
        <5>2. (v \o t)[j] = s[i + 1] /\ i + 1 \in 1..i + 1
          BY <4>3, <5>1, <3>3, <2>1
        <5> QED BY <5>2
      <4> QED BY <4>1, <4>2, <4>3
    <3> QED BY <3>2, <3>6, <3>7, <3>8
  <2> QED BY <2>5, <2>6
<1>5. S = Nat
  <2> HIDE DEF S
  <2>1. S \in SUBSET Nat
    BY DEF S
  <2> QED BY <1>3, <1>4, <2>1, NatInd
<1>6. Done(Len(s))
  <2>1. Len(s) \in S
    <3> HIDE DEF S
    <3> QED BY <1>1, <1>5
  <2>2. Len(s) <= Len(s)
    BY <1>1
  <2> HIDE DEF Done
  <2> QED BY <2>1, <2>2
<1> QED BY <1>6

\* The copying loop of the readers: it takes the entries at the positions I, in order.
LEMMA ChosenIs ==
  ASSUME NEW s \in Seq(Entry), Ascending(1, s), NEW I
  PROVE  /\ Chosen(s, I) \in Seq(Entry) /\ Ascending(1, Chosen(s, I))
         /\ \A x : x \in ToSet(Chosen(s, I)) <=> \E i \in 1..Len(s) : i \in I /\ s[i] = x
<1>a. \A v : Picking(s, I, v) =>
        \A x : x \in ToSet(v[Len(s)]) <=> \E i \in 1..Len(s) : i \in I /\ s[i] = x
  BY PickingIs
<1>1. PICK u0 : Picking(s, I, u0)
  BY PickingIs
<1>2. PICK u : Picking(s, I, u) /\ Chosen(s, I) = u[Len(s)]
  BY <1>1 DEF Chosen, Picking
<1>3. u[Len(s)] \in Seq(Entry) /\ Ascending(1, u[Len(s)])
  BY <1>2, PicksAscend
<1>4. \A x : x \in ToSet(u[Len(s)]) <=> \E i \in 1..Len(s) : i \in I /\ s[i] = x
  BY <1>a, <1>2
<1> QED BY <1>2, <1>3, <1>4

-----------------------------------------------------------------------------
(* A search returns one trace at most.                                       *)

\* When one part of a concatenation at most is not empty, the whole is that part.
LEMMA JoinedOne ==
  ASSUME NEW N, NEW s0, NEW piece, Pieces(N, s0, piece), NEW u, Joined(N, s0, piece, u),
         NEW M \in 0..N, M # 0 => s0 = <<>>, \A i \in 1..N : i # M => piece[i] = <<>>
  PROVE  u[N] = IF M = 0 THEN s0 ELSE piece[M]
<1>0. N \in Nat /\ s0 \in Seq(Entry) /\ piece \in [1..N -> Seq(Entry)]
  BY DEF Pieces
<1>a. u[0] = s0 /\ \A i \in 1..N : u[i] = u[i - 1] \o piece[i]
  <2>1. 0 \in 0..N /\ \A i \in 1..N : i \in 0..N /\ i # 0
    BY <1>0
  <2> QED BY <2>1 DEF Joined
<1> DEFINE Part == IF M = 0 THEN s0 ELSE piece[M]
           S == {i \in Nat : i <= N => u[i] = IF i < M THEN <<>> ELSE Part}
<1>b. Part \in Seq(Entry)
  <2>1. M # 0 => M \in 1..N
    BY <1>0
  <2> QED BY <1>0, <2>1
<1>1. 0 \in S
  <2>1. M = 0 => Part = s0
    OBVIOUS
  <2>2. M # 0 => 0 < M
    BY <1>0
  <2> HIDE DEF Part
  <2> QED BY <2>1, <2>2, <1>a
<1>2. ASSUME NEW i \in S PROVE i + 1 \in S
  <2> SUFFICES ASSUME i + 1 <= N PROVE u[i + 1] = IF i + 1 < M THEN <<>> ELSE Part
    OBVIOUS
  <2>1. i \in Nat /\ i + 1 \in 1..N /\ (i + 1) - 1 = i /\ i <= N /\ M \in Nat
    BY <1>0
  <2>2. u[i + 1] = u[i] \o piece[i + 1] /\ piece[i + 1] \in Seq(Entry)
    BY <2>1, <1>0, <1>a
  <2>3. u[i] = IF i < M THEN <<>> ELSE Part
    BY <2>1
  <2>4. CASE i + 1 = M
    <3>1. u[i] = <<>> /\ piece[i + 1] = Part
      BY <2>1, <2>3, <2>4
    <3> HIDE DEF Part
    <3>2. <<>> \o Part = Part
      BY <1>b
    <3> QED BY <3>1, <3>2, <2>1, <2>2, <2>4
  <2>5. CASE i + 1 # M
    <3>1. piece[i + 1] = <<>>
      BY <2>1, <2>5
    <3>2. u[i] \in Seq(Entry)
      <4> HIDE DEF Part
      <4> QED BY <2>3, <1>b
    <3>3. u[i] \o <<>> = u[i]
      BY <3>2
    <3>4. i < M <=> i + 1 < M
      BY <2>1, <2>5
    <3> HIDE DEF Part
    <3> QED BY <3>1, <3>3, <3>4, <2>2, <2>3
  <2> QED BY <2>4, <2>5
<1>3. S = Nat
  <2> HIDE DEF S
  <2>1. S \in SUBSET Nat
    BY DEF S
  <2> QED BY <1>1, <1>2, <2>1, NatInd
<1>4. N \in S
  <2> HIDE DEF S
  <2> QED BY <1>0, <1>3
<1>5. N <= N /\ ~(N < M)
  BY <1>0
<1> HIDE DEF Part
<1>6. u[N] = Part
  BY <1>4, <1>5
<1> QED BY <1>6 DEF Part

\* A node whose entries ascend has one hit of its own at most.
LEMMA OwnHitsOne ==
  ASSUME NEW n \in Node, Ascending(1, n.ents), NEW k
  PROVE  /\ OwnHits(n, k) \in Seq(Entry) /\ Len(OwnHits(n, k)) <= 1
         /\ Lacks(n, k) => OwnHits(n, k) = <<>>
<1>0. n.ents \in Seq(Entry)
  BY NodeProps
<1>1. PICK s : s = n.ents
  OBVIOUS
<1>2. PICK I : I = {i \in 1..Len(s) : s[i].key = k}
  OBVIOUS
<1> DEFINE isHere(u) == u = [i \in 0..Len(s) |->
             IF i = 0 THEN <<>> ELSE u[i - 1] \o IF s[i].key = k THEN <<s[i]>> ELSE <<>>]
<1>3. s \in Seq(Entry) /\ Len(s) \in Nat /\ Ascending(1, s)
  BY <1>0, <1>1
<1>4. \A i \in 0..Len(s) : i # 0 => (i \in I <=> s[i].key = k)
  BY <1>2, <1>3
<1>5. \A u : isHere(u) <=> Picking(s, I, u)
  <2> TAKE u
  <2>1. [i \in 0..Len(s) |->
           IF i = 0 THEN <<>> ELSE u[i - 1] \o IF s[i].key = k THEN <<s[i]>> ELSE <<>>]
        = [i \in 0..Len(s) |->
             IF i = 0 THEN <<>> ELSE u[i - 1] \o IF i \in I THEN <<s[i]>> ELSE <<>>]
    BY <1>4
  <2> QED BY <2>1 DEF Picking
<1>6. PICK u0 : isHere(u0)
  BY <1>3, <1>5, PickingIs
<1>7. PICK u : isHere(u) /\ OwnHits(n, k) = u[Len(s)]
  BY <1>1, <1>6 DEF OwnHits
<1>8. Picking(s, I, u)
  BY <1>5, <1>7
<1>9. PICK v : v = u[Len(s)]
  OBVIOUS
<1>10. v \in Seq(Entry) /\ Ascending(1, v)
  BY <1>3, <1>8, <1>9, PicksAscend
<1>11. \A j \in 1..Len(v) : v[j].key = k /\ v[j].key \in Int
  <2>1. \A x : x \in ToSet(v) <=> \E i \in 1..Len(s) : i \in I /\ s[i] = x
    <3>1. \A w : Picking(s, I, w) =>
            \A x : x \in ToSet(w[Len(s)]) <=> \E i \in 1..Len(s) : i \in I /\ s[i] = x
      BY <1>3, PickingIs
    <3> QED BY <3>1, <1>8, <1>9
  <2> TAKE j \in 1..Len(v)
  <2>2. v[j] \in ToSet(v)
    BY <1>10, ToSetIs
  <2>3. v[j].key = k
    BY <2>1, <2>2, <1>2
  <2>4. v[j].key \in Int
    BY <1>10, Distinct
  <2> QED BY <2>3, <2>4
<1>12. Len(v) <= 1
  <2>1. Len(v) \in Nat
    BY <1>10
  <2>2. SUFFICES ASSUME Len(v) > 1 PROVE FALSE
    BY <2>1
  <2>3. 1 \in 1..Len(v) /\ 2 \in 1..Len(v) /\ 1 < 2
    BY <2>1, <2>2
  <2>4. v[1].key < v[2].key
    BY <2>3, <1>10, Distinct
  <2> QED BY <2>3, <2>4, <1>11
<1>13. Lacks(n, k) => v = <<>>
  <2> HAVE Lacks(n, k)
  <2>1. \A j \in 1..Len(v) : FALSE
    <3> TAKE j \in 1..Len(v)
    <3>1. v[j] \in ToSet(v)
      BY <1>10, ToSetIs
    <3>2. \A w : Picking(s, I, w) =>
            \A x : x \in ToSet(w[Len(s)]) <=> \E i \in 1..Len(s) : i \in I /\ s[i] = x
      BY <1>3, PickingIs
    <3>3. \E i \in 1..Len(s) : i \in I
      BY <3>1, <3>2, <1>8, <1>9
    <3> QED BY <3>3, <1>1, <1>2 DEF Lacks
  <2>2. Len(v) \in Nat
    BY <1>10
  <2>3. Len(v) = 0
    <3>1. Len(v) # 0 => 1 \in 1..Len(v)
      BY <2>2
    <3> QED BY <3>1, <2>1
  <2> QED BY <2>3, <1>10, EmptySequence
<1> HIDE DEF isHere
<1> QED BY <1>7, <1>9, <1>10, <1>12, <1>13

\* The node's entries ascend within X, and what is found below a child has one entry
\* at most, and none when the child's range excludes k.
OneEach(n, k, X, found) ==
  /\ Ascending(1, n.ents) /\ Within(n.ents, X)
  /\ \A i \in 1..Len(n.kids) :
       /\ found[n.kids[i]] \in Seq(Entry) /\ Len(found[n.kids[i]]) <= 1
       /\ k \notin Span(1, X, n.ents, i) => found[n.kids[i]] = <<>>

\* The node has an entry with key k, or one child's range at most has k in it.
LEMMA OnePlace ==
  ASSUME NEW n \in Node, Sound(n), Ascending(1, n.ents), NEW X, NEW k \in Int
  PROVE  /\ ~Lacks(n, k) => \A i \in 1..Len(n.kids) : k \notin Span(1, X, n.ents, i)
         /\ \A i, j \in 1..Len(n.kids) :
              k \in Span(1, X, n.ents, i) /\ k \in Span(1, X, n.ents, j) => i = j
<1>1. PICK s : s = n.ents
  OBVIOUS
<1>2. s \in Seq(Entry) /\ Len(s) \in Nat /\ Len(n.kids) \in Nat
  BY <1>1, NodeProps
<1>3. Len(n.kids) <= Len(s) + 1
  <2>1. n.leaf => Len(n.kids) = 0
    BY DEF Sound
  <2>2. ~n.leaf => Len(n.kids) = Len(s) + 1
    BY <1>1 DEF Sound
  <2> QED BY <2>1, <2>2, <1>2
<1>4. /\ \A i, j \in 1..Len(s) : i < j => s[i].key < s[j].key
      /\ \A i \in 1..Len(s) : s[i].key \in Int
  BY <1>1, <1>2, Distinct
<1>5. \A i \in 1..Len(n.kids) : k \in Span(1, X, s, i) =>
        /\ i > 1 => s[i - 1].key < k /\ i - 1 \in 1..Len(s)
        /\ i <= Len(s) => k < s[i].key /\ i \in 1..Len(s)
  <2> TAKE i \in 1..Len(n.kids)
  <2> HAVE k \in Span(1, X, s, i)
  <2>1. i \in Nat /\ i >= 1 /\ i <= Len(s) + 1
    BY <1>2, <1>3
  <2>2. i > 1 => s[i - 1].key + 1 <= k
    BY DEF Span
  <2>3. i <= Len(s) => k + 1 <= s[i].key
    BY DEF Span
  <2>4. i > 1 => i - 1 \in 1..Len(s)
    BY <2>1, <1>2
  <2>5. i <= Len(s) => i \in 1..Len(s)
    BY <2>1, <1>2
  <2>6. i > 1 => s[i - 1].key < k
    BY <2>2, <2>4, <1>4
  <2>7. i <= Len(s) => k < s[i].key
    BY <2>3, <2>5, <1>4
  <2> QED BY <2>4, <2>5, <2>6, <2>7
<1>6. ASSUME NEW j \in 1..Len(s), s[j].key = k, NEW i \in 1..Len(n.kids)
      PROVE  k \notin Span(1, X, s, i)
  <2> SUFFICES ASSUME k \in Span(1, X, s, i) PROVE FALSE
    OBVIOUS
  <2>1. i \in Nat /\ j \in Nat /\ j <= Len(s)
    BY <1>2
  <2>2. CASE i <= j
    <3>1. k < s[i].key /\ i \in 1..Len(s) /\ s[i].key \in Int
      BY <2>1, <2>2, <1>2, <1>4, <1>5
    <3>2. i = j \/ s[i].key < s[j].key
      BY <3>1, <2>1, <2>2, <1>4
    <3> QED BY <3>1, <3>2, <1>6
  <2>3. CASE j < i
    <3>1. s[i - 1].key < k /\ i - 1 \in 1..Len(s) /\ s[i - 1].key \in Int
      BY <2>1, <2>3, <1>4, <1>5
    <3>2. j = i - 1 \/ s[j].key < s[i - 1].key
      BY <3>1, <2>1, <2>3, <1>4
    <3> QED BY <3>1, <3>2, <1>6
  <2> QED BY <2>1, <2>2, <2>3
<1>7. ASSUME NEW i \in 1..Len(n.kids), NEW j \in 1..Len(n.kids),
             k \in Span(1, X, s, i), k \in Span(1, X, s, j), i < j
      PROVE  FALSE
  <2>1. i \in Nat /\ j \in Nat /\ i <= Len(s) /\ j > 1
    BY <1>2, <1>3, <1>7
  <2>2. k < s[i].key /\ i \in 1..Len(s) /\ s[i].key \in Int
    BY <2>1, <1>4, <1>5, <1>7
  <2>3. s[j - 1].key < k /\ j - 1 \in 1..Len(s) /\ s[j - 1].key \in Int
    BY <2>1, <1>4, <1>5, <1>7
  <2>4. i = j - 1 \/ s[i].key < s[j - 1].key
    BY <2>1, <2>2, <2>3, <1>4, <1>7
  <2> QED BY <2>2, <2>3, <2>4
<1>8. ~Lacks(n, k) => \E j \in 1..Len(s) : s[j].key = k
  BY <1>1 DEF Lacks
<1>9. \A i, j \in 1..Len(n.kids) : i < j \/ j < i \/ i = j
  OBVIOUS
<1>10. ~Lacks(n, k) => \A i \in 1..Len(n.kids) : k \notin Span(1, X, s, i)
  BY <1>6, <1>8
<1>11. \A i, j \in 1..Len(n.kids) :
         k \in Span(1, X, s, i) /\ k \in Span(1, X, s, j) => i = j
  BY <1>7, <1>9
<1> QED BY <1>1, <1>10, <1>11

\* search_node: a node's hits and those below it are one at most, and none when the
\* node's own range excludes the key.
LEMMA HitsOne ==
  ASSUME NEW n \in Node, Sound(n), NEW k \in Int, NEW X, NEW found, OneEach(n, k, X, found)
  PROVE  /\ Hits(n, k, found) \in Seq(Entry) /\ Len(Hits(n, k, found)) <= 1
         /\ k \notin X => Hits(n, k, found) = <<>>
<1>1. /\ Ascending(1, n.ents) /\ Within(n.ents, X)
      /\ \A i \in 1..Len(n.kids) : found[n.kids[i]] \in Seq(Entry)
  BY DEF OneEach
<1>2. PICK N : N = Len(n.kids)
  OBVIOUS
<1>3. PICK own : own = OwnHits(n, k)
  OBVIOUS
<1>4. PICK piece : piece = KidHits(n, found)
  OBVIOUS
<1>5. Pieces(N, own, piece)
  BY <1>1, <1>2, <1>3, <1>4, HitsIs
<1>6. PICK b : Joined(N, own, piece, b) /\ Hits(n, k, found) = b[N]
  <2>1. \E b : Joined(Len(n.kids), OwnHits(n, k), KidHits(n, found), b)
               /\ Hits(n, k, found) = b[Len(n.kids)]
    BY <1>1, HitsIs
  <2> QED BY <2>1, <1>2, <1>3, <1>4
<1>7. /\ own \in Seq(Entry) /\ Len(own) <= 1
      /\ Lacks(n, k) => own = <<>>
  BY <1>1, <1>3, OwnHitsOne
<1>8. \A i \in 1..N : /\ piece[i] \in Seq(Entry) /\ Len(piece[i]) <= 1
                      /\ k \notin Span(1, X, n.ents, i) => piece[i] = <<>>
  <2>1. \A i \in 1..N : piece[i] = found[n.kids[i]]
    BY <1>2, <1>4 DEF KidHits
  <2> QED BY <2>1, <1>2 DEF OneEach
<1>9. N \in Nat
  BY <1>5 DEF Pieces
<1>10. k \notin X => Lacks(n, k) /\ \A i \in 1..N : k \notin Span(1, X, n.ents, i)
  BY DEF Lacks, Within, Span, OneEach
<1>11. \A M \in 0..N : (M # 0 => own = <<>>) /\ (\A i \in 1..N : i # M => piece[i] = <<>>)
                         => b[N] = IF M = 0 THEN own ELSE piece[M]
  BY <1>5, <1>6, JoinedOne
<1>12. CASE \A i \in 1..N : k \notin Span(1, X, n.ents, i)
  <2>1. 0 \in 0..N /\ \A i \in 1..N : piece[i] = <<>>
    BY <1>8, <1>9, <1>12
  <2>2. b[N] = own
    BY <2>1, <1>11
  <2> QED BY <2>2, <1>6, <1>7, <1>10
<1>13. CASE \E M \in 1..N : k \in Span(1, X, n.ents, M)
  <2>1. PICK M \in 1..N : k \in Span(1, X, n.ents, M)
    BY <1>13
  <2>2. Lacks(n, k) /\ \A i \in 1..N : i # M => k \notin Span(1, X, n.ents, i)
    BY <2>1, <1>1, <1>2, OnePlace
  <2>3. own = <<>> /\ M \in 0..N /\ M # 0
    BY <2>1, <2>2, <1>7, <1>9
  <2>4. b[N] = piece[M]
    BY <2>2, <2>3, <1>8, <1>11
  <2>5. k \in X
    BY <2>1, <1>10
  <2> QED BY <2>1, <2>4, <2>5, <1>6, <1>8
<1> QED BY <1>12, <1>13

\* A search in a tree without double keys returns one entry at most.
LEMMA SearchOne ==
  ASSUME IInv, NEW T, NEW h, NEW R, Tree(1, T, h, R), writes = <<>>, NEW k \in Int
  PROVE  Search(disk, root_page_id, k) \in Seq(Entry) /\ Len(Search(disk, root_page_id, k)) <= 1
<1>1. /\ T \in SUBSET Page /\ h \in [Page -> Nat] /\ Shape(Cur, root_page_id, T, h)
      /\ Keyed(1, Cur, root_page_id, T, R) /\ root_page_id \in T /\ root_page_id \in Page
  BY TreeTyped DEF Shape
<1>2. Above(h) /\ CurFacts /\ Cur \in [Page -> Node]
  BY TreeAbove, CurIs DEF CurFacts
<1>3. PICK f : Searched(k, f) /\ Search(disk, root_page_id, k) = f[root_page_id]
  BY <1>1, <1>2, SearchIs
<1>4. f \in [Page -> Seq(Entry)] /\ \A p \in Page : f[p] = Hits(Cur[p], k, f)
  BY <1>3 DEF Searched
<1> DEFINE S == {p \in Page : p \in T => Len(f[p]) <= 1 /\ (k \notin R[p] => f[p] = <<>>)}
<1>5. ASSUME NEW p \in Page, \A q \in Page : h[q] < h[p] => q \in S
      PROVE  p \in S
  <2> SUFFICES ASSUME p \in T PROVE Len(f[p]) <= 1 /\ (k \notin R[p] => f[p] = <<>>)
    OBVIOUS
  <2>1. Cur[p] \in Node /\ Sound(Cur[p])
    BY <1>2 DEF CurFacts
  <2>2. Ascending(1, Cur[p].ents) /\ Within(Cur[p].ents, R[p])
    BY <1>1 DEF Keyed, Within
  <2>3. ASSUME NEW i \in 1..Len(Cur[p].kids)
        PROVE  /\ f[Cur[p].kids[i]] \in Seq(Entry) /\ Len(f[Cur[p].kids[i]]) <= 1
               /\ k \notin Span(1, R[p], Cur[p].ents, i) => f[Cur[p].kids[i]] = <<>>
    <3>1. PICK q : Kid(Cur, p, i, q)
      BY DEF Kid
    <3>2. q \in T /\ q \in Page /\ h[q] + 1 = h[p] /\ h[q] \in Nat
      BY <3>1, <1>1, <1>2, KidOf
    <3>3. h[q] < h[p]
      BY <3>2
    <3>4. R[q] = Span(1, R[p], Cur[p].ents, i)
      BY <3>1, <1>1 DEF Keyed
    <3>5. Len(f[q]) <= 1 /\ (k \notin R[q] => f[q] = <<>>) /\ f[q] \in Seq(Entry)
      BY <3>2, <3>3, <1>4, <1>5
    <3>6. Cur[p].kids[i] = q
      BY <3>1 DEF Kid
    <3> QED BY <3>4, <3>5, <3>6
  <2>4. OneEach(Cur[p], k, R[p], f)
    BY <2>2, <2>3 DEF OneEach
  <2>5. f[p] = Hits(Cur[p], k, f)
    BY <1>4
  <2> QED BY <2>1, <2>4, <2>5, HitsOne
<1>6. Page \subseteq S
  <2> HIDE DEF S
  <2>1. Inherited(Page, S, h)
    BY <1>1, <1>5 DEF Inherited
  <2> QED BY <2>1, RankInd
<1>7. Len(f[root_page_id]) <= 1 /\ f[root_page_id] \in Seq(Entry)
  BY <1>1, <1>4, <1>6
<1> QED BY <1>3, <1>7

\* search returns the one entry that has the key.
LEMMA SearchFinds ==
  ASSUME AnyInv, TreeInv(1), writes = <<>>, Unique(Stored), NEW t \in Stored
  PROVE  Search(disk, root_page_id, t.key) = <<t>>
<1>1. PICK T, h, R : Tree(1, T, h, R)
  BY DEF TreeInv
<1>2. IInv
  BY DEF AnyInv
<1>3. t \in Entry /\ t.key \in Int
  BY AnyIs, KeyAssumption DEF AnyFact, Entry
<1>4. PICK s : s = Search(disk, root_page_id, t.key)
  OBVIOUS
<1>5. s \in Seq(Entry) /\ Len(s) <= 1
  BY <1>1, <1>2, <1>3, <1>4, SearchOne
<1>6. \A x \in ToSet(s) : x \in Stored /\ x.key = t.key
  BY <1>4, AnySearch
<1>7. s # <<>>
  <2> SUFFICES ASSUME s = <<>> PROVE FALSE
    OBVIOUS
  <2>1. ~Known(t.key)
    BY <1>4 DEF Known
  <2>2. Absent(Cur, T, t.key)
    BY <2>1, <1>1, <1>2, UnknownAbsent
  <2>3. t \in Items(Cur, T)
    BY <1>1, <1>2, StoredIs DEF StoredFact
  <2>4. T \in SUBSET Page /\ Cur \in [Page -> Node]
    BY <1>1, <1>2, TreeTyped, CurIs DEF CurFacts
  <2>5. PICK p \in T : t \in ToSet(Cur[p].ents)
    BY <2>3 DEF Items
  <2>6. Cur[p].ents \in Seq(Entry)
    BY <2>4, NodeProps
  <2>7. PICK i \in 1..Len(Cur[p].ents) : Cur[p].ents[i] = t
    BY <2>5, <2>6, ToSetIs
  <2> QED BY <2>2, <2>7 DEF Absent
<1>8. Len(s) = 1
  <2>1. Len(s) \in Nat /\ Len(s) # 0
    <3>1. s \in Seq(Entry)
      BY <1>5
    <3>2. Len(s) \in Nat /\ (s = <<>> <=> Len(s) = 0)
      BY <3>1, EmptySequence
    <3> QED BY <3>2, <1>7
  <2>2. PICK m : m = Len(s)
    OBVIOUS
  <2>3. m \in Nat /\ m # 0 /\ m <= 1
    BY <2>1, <2>2, <1>5
  <2>4. m = 1
    BY <2>3
  <2> QED BY <2>2, <2>4
<1>9. s[1] = t
  <2>1. s[1] \in ToSet(s)
    BY <1>5, <1>8, ToSetIs
  <2> QED BY <2>1, <1>6 DEF Unique
<1>10. s = <<t>>
  BY <1>5, <1>8, <1>9
<1> QED BY <1>4, <1>10

-----------------------------------------------------------------------------
(* The invariant.                                                            *)

\* This process logged one trace under each id it has given out.
Logged ==
  /\ next_id \in Nat \ {0}
  /\ mine \subseteq Entry /\ Unique(mine)
  /\ \A x \in mine : x.key \in 1..next_id - 1
  /\ \A k \in 1..next_id - 1 : \E x \in mine : x.key = k

\* It found one page of traces at most, under ids without a gap.
Found ==
  /\ survived \subseteq Entry /\ Unique(survived) /\ FromOne(survived)
  /\ \A x \in survived : x.key <= MaxKeys

\* The running insert is of the trace with the last id given out.
Running == \A e \in todo : todo = {e} /\ e \in mine /\ e.key = next_id - 1

\* The tree has the visible traces, but for the running insert's: until that is
\* placed, the tree has the trace it is going to overwrite.
Holding ==
  Stored = (Visible \ todo) \cup {t \in survived : \E e \in todo : t.key = e.key}

\* Page 0 of the file has traces of this process or of the ones before it, the first
\* ids without a gap.
Oldest ==
  /\ Numbered(disk[0].ents)
  /\ ToSet(disk[0].ents) \subseteq mine \cup survived

TraceInv ==
  /\ AnyInv /\ TreeInv(1)
  /\ Logged /\ Found /\ Running
  /\ Holding /\ Oldest

\* A trace's id is a positive number.
LEMMA EntryIds == \A x \in Entry : x.key \in Nat \ {0} /\ x.key \in Int
<1> TAKE x \in Entry
<1>1. x.key \in Key
  BY DEF Entry
<1> QED BY <1>1, IdAssumption, KeyAssumption

\* A tree that keeps its keys apart stores no two entries with one key.
UniqueFact == IInv /\ TreeInv(1) => Unique(Stored)

\* As UniqueFact says.
LEMMA UniqueIs == UniqueFact
<1> SUFFICES ASSUME IInv, TreeInv(1) PROVE Unique(Stored)
  BY DEF UniqueFact
<1>1. PICK T, h, R : Tree(1, T, h, R)
  BY DEF TreeInv
<1>2. PICK s : s = Values(Overlay, root_page_id)
  OBVIOUS
<1>3. 1 \in Nat
  OBVIOUS
<1>4. s \in Seq(Entry) /\ Ascending(1, s)
  BY <1>1, <1>2, <1>3, ValuesAscend
<1>5. Stored = ToSet(s)
  BY <1>1, <1>2, StoredIs DEF StoredFact
<1> QED BY <1>4, <1>5, AscendingUnique

\* The ids of the traces in the tree leave no gap.
GaplessFact == Logged /\ Found /\ Running /\ Holding => FromOne(Stored)

\* As GaplessFact says: the running insert's id is the last one, or a trace found has it.
LEMMA GaplessIs == GaplessFact
<1> SUFFICES ASSUME Logged, Found, Running, Holding, NEW x \in Stored
             PROVE  x.key >= 1 /\ \A k \in 1..x.key : \E y \in Stored : y.key = k
  BY DEF GaplessFact, FromOne
<1>1. next_id \in Nat /\ next_id >= 1
  BY DEF Logged
<1>2. /\ \A y \in mine : y \in Entry /\ y.key \in Int /\ y.key < next_id
      /\ \A y \in survived : y \in Entry /\ y.key \in Int
  BY <1>1, EntryIds DEF Logged, Found
<1>3. x \in mine \/ x \in survived
  BY DEF Holding, Visible
<1>4. x.key \in Int /\ x.key >= 1
  <2>1. x.key \in Nat \ {0}
    BY <1>2, <1>3, EntryIds
  <2> QED BY <2>1
<1>5. ASSUME NEW k \in 1..x.key PROVE \E y \in Stored : y.key = k
  <2>1. k \in Int /\ k >= 1 /\ k <= x.key
    BY <1>4
  <2>2. CASE k < next_id /\ \A e \in todo : e.key # k
    <3>1. k \in 1..next_id - 1
      BY <2>1, <2>2, <1>1
    <3>2. PICK y \in mine : y.key = k
      BY <3>1 DEF Logged
    <3>3. y \notin todo
      BY <3>2, <2>2
    <3> QED BY <3>2, <3>3 DEF Holding, Visible
  <2>3. CASE k >= next_id
    <3>1. x \in survived
      BY <2>1, <2>3, <1>1, <1>2, <1>3
    <3>2. PICK y \in survived : y.key = k
      BY <3>1 DEF Found, FromOne
    <3>3. y \notin todo
      <4>1. y \in todo => y \in mine
        BY DEF Running
      <4> QED BY <4>1, <3>2, <2>1, <2>3, <1>1, <1>2
    <3> QED BY <3>2, <3>3, <2>3 DEF Holding, Visible
  <2>4. CASE \E e \in todo : e.key = k
    <3>1. PICK e \in todo : e.key = k
      BY <2>4
    <3>2. todo = {e} /\ e \in mine /\ k = next_id - 1
      BY <3>1 DEF Running
    <3>3. x \in survived
      <4> SUFFICES ASSUME x \in mine, x \notin survived PROVE FALSE
        BY <1>3
      <4>1. x \notin todo
        BY DEF Holding, Visible
      <4>2. x.key < next_id /\ x.key = k
        BY <2>1, <3>2, <1>1, <1>2, <1>4
      <4>3. x = e
        BY <4>2, <3>1, <3>2 DEF Logged, Unique
      <4> QED BY <4>1, <4>3
    <3>4. PICK y \in survived : y.key = k
      BY <3>3 DEF Found, FromOne
    <3> QED BY <3>1, <3>4 DEF Holding
  <2> QED BY <2>1, <2>2, <2>3, <2>4, <1>1
<1> QED BY <1>4, <1>5

\* Page 0 has the first ids, as far as it goes.
NumberFact == TraceInv => Numbered(Cur[0].ents)

\* As NumberFact says: its entries come first in the traversal, which ascends.
LEMMA NumberIs == NumberFact
<1> SUFFICES ASSUME TraceInv PROVE Numbered(Cur[0].ents)
  BY DEF NumberFact
<1>0. IInv /\ AnyInv
  BY DEF TraceInv, AnyInv
<1>1. PICK T, h, R : Tree(1, T, h, R)
  BY DEF TraceInv, TreeInv
<1>2. PICK P, h0, R0 : Tree(0, P, h0, R0) /\ Leftmost(Cur, root_page_id, P)
  BY DEF TraceInv, AnyInv, Planted
<1>3. h \in [Page -> Nat] /\ root_page_id \in Page /\ P \in SUBSET Page
  <2>1. P \in SUBSET Page
    BY <1>0, <1>2, TreeTyped
  <2> QED BY <2>1, <1>0, <1>1, TreeTyped DEF Shape
<1>4. Above(h) /\ CurFacts /\ Cur \in [Page -> Node]
  BY <1>0, <1>1, TreeAbove, CurIs DEF CurFacts
<1>5. PICK f : Traversal(f) /\ Values(Overlay, root_page_id) = f[root_page_id]
  BY <1>3, <1>4, ValuesIs
<1>6. Starts(Cur[0].ents, f[root_page_id])
  BY <1>2, <1>3, <1>4, <1>5, TraversalStarts
<1>7. PICK t : t = Values(Overlay, root_page_id)
  OBVIOUS
<1>8. PICK s : s = Cur[0].ents
  OBVIOUS
<1>9. t \in Seq(Entry) /\ Ascending(1, t)
  <2>1. 1 \in Nat
    OBVIOUS
  <2> QED BY <2>1, <1>0, <1>1, <1>7, ValuesAscend
<1>10. FromOne(ToSet(t))
  <2>1. Stored = ToSet(t)
    BY <1>0, <1>1, <1>7, StoredIs DEF StoredFact
  <2> QED BY <2>1, GaplessIs DEF GaplessFact, TraceInv
<1>11. Numbered(t)
  BY <1>9, <1>10, GaplessNumbered
<1>12. Len(s) <= Len(t) /\ \A i \in 1..Len(s) : t[i] = s[i]
  BY <1>5, <1>6, <1>7, <1>8 DEF Starts
<1>13. Len(s) \in Nat /\ Len(t) \in Nat
  <2>1. 0 \in Page
    BY DEF Page
  <2>2. s \in Seq(Entry)
    BY <2>1, <1>4, <1>8, NodeProps
  <2> QED BY <2>2, <1>9
<1>14. Numbered(s)
  <2> SUFFICES ASSUME NEW i \in 1..Len(s) PROVE s[i].key = i
    BY DEF Numbered
  <2>1. i \in 1..Len(t)
    BY <1>12, <1>13
  <2> QED BY <2>1, <1>11, <1>12 DEF Numbered
<1> QED BY <1>8, <1>14

-----------------------------------------------------------------------------
(* What log_event finds when it starts.                                      *)

\* As many ascending ids as there are from 1 to M are all of them.
LEMMA AllNumbered ==
  ASSUME NEW s \in Seq(Entry), Ascending(1, s), \A i \in 1..Len(s) : s[i].key \in 1..Len(s)
  PROVE  Numbered(s)
<1> DEFINE M == Len(s)
           S == {n \in Nat : n + 1 <= M => s[n + 1].key >= n + 1}
           U == {n \in Nat : n + 1 <= M => s[M - n].key <= M - n}
<1>1. /\ M \in Nat
      /\ \A i, j \in 1..M : i < j => s[i].key < s[j].key
      /\ \A i \in 1..M : s[i].key \in Int /\ s[i].key >= 1 /\ s[i].key <= M
  BY Distinct
<1> HIDE DEF M
<1>2. S = Nat
  <2>1. 0 \in S
    BY <1>1
  <2>2. ASSUME NEW n \in S PROVE n + 1 \in S
    <3> SUFFICES ASSUME (n + 1) + 1 <= M PROVE s[(n + 1) + 1].key >= (n + 1) + 1
      OBVIOUS
    <3>1. n \in Nat /\ n + 1 \in 1..M /\ (n + 1) + 1 \in 1..M /\ n + 1 < (n + 1) + 1
      BY <1>1
    <3>2. s[n + 1].key >= n + 1
      BY <3>1
    <3>3. s[n + 1].key < s[(n + 1) + 1].key /\ s[n + 1].key \in Int /\ s[(n + 1) + 1].key \in Int
      BY <3>1, <1>1
    <3> QED BY <3>1, <3>2, <3>3
  <2> HIDE DEF S
  <2>3. S \in SUBSET Nat
    BY DEF S
  <2> QED BY <2>1, <2>2, <2>3, NatInd
<1>3. U = Nat
  <2>1. 0 \in U
    <3>1. M - 0 = M
      BY <1>1
    <3>2. 0 + 1 <= M => M \in 1..M
      BY <1>1
    <3> QED BY <3>1, <3>2, <1>1
  <2>2. ASSUME NEW n \in U PROVE n + 1 \in U
    <3> SUFFICES ASSUME (n + 1) + 1 <= M PROVE s[M - (n + 1)].key <= M - (n + 1)
      OBVIOUS
    <3>1. n \in Nat /\ M - n \in 1..M /\ M - (n + 1) \in 1..M /\ M - (n + 1) < M - n
      BY <1>1
    <3>2. s[M - n].key <= M - n
      BY <3>1, <1>1
    <3>3. s[M - (n + 1)].key < s[M - n].key /\ s[M - n].key \in Int /\ s[M - (n + 1)].key \in Int
      BY <3>1, <1>1
    <3> QED BY <3>1, <3>2, <3>3, <1>1
  <2> HIDE DEF U
  <2>3. U \in SUBSET Nat
    BY DEF U
  <2> QED BY <2>1, <2>2, <2>3, NatInd
<1>4. ASSUME NEW i \in 1..M PROVE s[i].key = i
  <2>1. i \in Nat /\ i - 1 \in Nat /\ M - i \in Nat /\ (i - 1) + 1 = i /\ M - (M - i) = i
        /\ i <= M /\ (M - i) + 1 <= M
    BY <1>1
  <2>2. i - 1 \in S /\ M - i \in U
    <3> HIDE DEF S, U
    <3> QED BY <2>1, <1>2, <1>3
  <2>3. s[i].key >= i
    <3>1. s[(i - 1) + 1].key >= (i - 1) + 1
      BY <2>1, <2>2
    <3> QED BY <3>1, <2>1
  <2>4. s[i].key <= i
    <3>1. s[M - (M - i)].key <= M - (M - i)
      BY <2>1, <2>2
    <3> QED BY <3>1, <2>1
  <2>5. s[i].key \in Int
    BY <1>1
  <2> QED BY <2>1, <2>3, <2>4, <2>5
<1> QED BY <1>4 DEF Numbered, M

\* No page below the root has a key of the root in its range.
LEMMA BelowRoot ==
  ASSUME NEW c \in [Page -> Node], NEW r, NEW T \in SUBSET Page, NEW h \in [Page -> Nat], NEW R,
         Shape(c, r, T, h), Keyed(1, c, r, T, R),
         NEW j \in 1..Len(c[r].ents), NEW p \in T \ {r}
  PROVE  c[r].ents[j].key \notin R[p]
<1>1. r \in T /\ r \in Page
  BY DEF Shape
<1>2. PICK s : s = c[r].ents
  OBVIOUS
<1>3. PICK k : k = s[j].key
  OBVIOUS
<1>4. /\ Len(s) \in Nat /\ Ascending(1, s) /\ s \in Seq(Entry) /\ j \in 1..Len(s)
      /\ \A i \in 1..Len(s) : s[i].key \in Int
  BY <1>1, <1>2, EntryKeys DEF Keyed
<1> DEFINE S == {q \in Page : q = r \/ k \notin R[q]}
<1>5. ASSUME NEW q \in T \cap S, NEW i, NEW x, Kid(c, q, i, x)
      PROVE  x \in S
  <2>1. x \in Page /\ R[x] = Span(1, R[q], c[q].ents, i)
    BY <1>5, KidOf DEF Keyed
  <2>2. CASE q # r
    BY <2>1, <2>2 DEF Span
  <2>3. CASE q = r
    <3>1. ~Lacks(c[r], k)
      BY <1>2, <1>3 DEF Lacks
    <3>2. c[r] \in Node /\ Sound(c[r]) /\ i \in 1..Len(c[r].kids)
      BY <2>3, <1>1, <1>5 DEF Shape, Kid
    <3>3. k \in Int
      BY <1>3, <1>4
    <3>4. k \notin Span(1, R[r], c[r].ents, i)
      <4>1. Ascending(1, c[r].ents)
        BY <1>2, <1>4
      <4> QED BY <4>1, <3>1, <3>2, <3>3, OnePlace
    <3> QED BY <3>4, <2>1, <2>3
  <2> QED BY <2>2, <2>3
<1>6. r \in S
  BY <1>1
<1>7. T \subseteq S
  <2> HIDE DEF S
  <2> QED BY <1>5, <1>6, FromRoot
<1>8. k \notin R[p]
  BY <1>7
<1> QED BY <1>2, <1>3, <1>8

\* When log_event starts, no full page below the root has a trace with the next id.
LEMMA NextSpared ==
  ASSUME TraceInv, todo = {}, NEW T, NEW h, NEW R, Tree(1, T, h, R)
  PROVE  Spared(Cur, T \ {root_page_id}, next_id)
<1>0. IInv /\ Logged /\ Found /\ Holding
  BY DEF TraceInv, AnyInv
<1>1. /\ T \in SUBSET Page /\ h \in [Page -> Nat] /\ R \in [Page -> SUBSET Int]
      /\ Shape(Cur, root_page_id, T, h) /\ Keyed(1, Cur, root_page_id, T, R)
      /\ Parting(Cur, root_page_id) /\ root_page_id \in T
  BY <1>0, TreeTyped DEF Shape
<1>2. Cur \in [Page -> Node] /\ \A p \in Page : Sound(Cur[p])
  BY <1>0, CurIs DEF CurFacts
<1>3. \A p \in T : \A i \in 1..Len(Cur[p].ents) : Cur[p].ents[i] \in Stored
  <2>1. Stored = Items(Cur, T)
    BY <1>0, StoredIs DEF StoredFact
  <2> SUFFICES ASSUME NEW p \in T, NEW i \in 1..Len(Cur[p].ents) PROVE Cur[p].ents[i] \in Items(Cur, T)
    BY <2>1
  <2>2. Cur[p].ents \in Seq(Entry)
    BY <1>1, <1>2, NodeProps
  <2>3. Cur[p].ents[i] \in ToSet(Cur[p].ents)
    BY <2>2, ToSetIs
  <2> QED BY <2>3 DEF Items
<1>4. CASE \A x \in Stored : x.key # next_id
  BY <1>3, <1>4 DEF Spared, Lacks
<1>5. CASE \E x \in Stored : x.key = next_id
  <2>1. Stored = mine \cup {x \in survived : x.key >= next_id}
    BY <1>0 DEF Holding, Visible
  <2>2. next_id \in Nat /\ MaxKeys \in Nat
    BY <1>0, MaxKeysProps DEF Logged
  <2>3. next_id <= MaxKeys
    <3>1. PICK x \in Stored : x.key = next_id
      BY <1>5
    <3>2. x \notin mine
      BY <3>1, <2>2, <1>0 DEF Logged
    <3>3. x \in survived
      BY <3>2, <2>1
    <3> QED BY <3>1, <3>3, <1>0 DEF Found
  <2>4. \A x \in Stored : x.key \in 1..MaxKeys
    <3> TAKE x \in Stored
    <3>1. CASE x \in mine
      <4>1. x.key \in 1..next_id - 1
        BY <3>1, <1>0 DEF Logged
      <4> QED BY <4>1, <2>2, <2>3
    <3>2. CASE x \in survived
      <4>1. x.key \in Nat \ {0} /\ x.key <= MaxKeys
        BY <3>2, <1>0, EntryIds DEF Found
      <4> QED BY <4>1, <2>2
    <3> QED BY <3>1, <3>2, <2>1
  <2>5. ASSUME NEW p \in T \ {root_page_id}, Full(Cur[p]) PROVE FALSE
    <3>1. PICK s : s = Cur[p].ents
      OBVIOUS
    <3>2. s \in Seq(Entry) /\ Ascending(1, s) /\ Len(s) = MaxKeys
      BY <3>1, <2>5, <1>1, <1>2, NodeProps DEF Keyed, Full
    <3>3. \A i \in 1..Len(s) : s[i].key \in 1..Len(s)
      BY <3>1, <3>2, <2>4, <1>3
    <3>4. Numbered(s)
      BY <3>2, <3>3, AllNumbered
    <3>5. ~Cur[root_page_id].leaf
      <4>1. PICK q \in T : \E i : Kid(Cur, q, i, p)
        BY <1>1 DEF Shape, HasParent
      <4>2. PICK i : Kid(Cur, q, i, p)
        BY <4>1
      <4>3. h[p] \in Nat /\ h[p] + 1 = h[q] /\ h[q] \in Nat
        BY <4>2, <1>1, <1>2, KidOf
      <4>4. h[q] <= h[root_page_id]
        BY <1>1 DEF Shape, RootHighest
      <4>5. Cur[root_page_id].leaf => h[root_page_id] = 0
        BY <1>1 DEF Shape, Levels
      <4> QED BY <4>3, <4>4, <4>5
    <3>6. PICK k : k = Cur[root_page_id].ents[1].key
      OBVIOUS
    <3>7. 1 \in 1..Len(Cur[root_page_id].ents)
      <4>1. Len(Cur[root_page_id].ents) \in Nat
        BY <1>1, <1>2, NodeProps
      <4> QED BY <4>1, <3>5, <1>1 DEF Parting
    <3>8. k \in 1..MaxKeys
      BY <3>6, <3>7, <2>4, <1>1, <1>3
    <3>9. s[k].key = k /\ k \in 1..Len(s)
      BY <3>2, <3>4, <3>8 DEF Numbered
    <3>10. s[k].key \in R[p]
      BY <3>1, <3>9, <1>1 DEF Keyed
    <3>11. k \notin R[p]
      BY <3>6, <3>7, <1>1, <1>2, BelowRoot
    <3> QED BY <3>9, <3>10, <3>11
  <2> QED BY <2>5 DEF Spared
<1> QED BY <1>4, <1>5

-----------------------------------------------------------------------------
(* Every step keeps the invariant.                                           *)

\* A new database file is empty and so is the history.
LEMMA InitTraces == DBInit => TraceInv
<1> SUFFICES ASSUME DBInit PROVE TraceInv
  OBVIOUS
<1>1. Init /\ next_id = 1 /\ mine = {} /\ survived = {}
  BY DEF DBInit
<1>2. AnyInv /\ Stored = {} /\ todo = {}
  BY <1>1, AnyNew DEF AnyNewFact, Init
<1>3. TreeInv(1)
  BY <1>1, InitTree
<1>4. Logged /\ Found
  BY <1>1 DEF Logged, Found, Unique, FromOne
<1>5. Running /\ Holding
  BY <1>1, <1>2 DEF Running, Holding, Visible
<1>6. Oldest
  <2>1. disk[0] = EmptyLeaf
    BY <1>1 DEF Init, NewFile, FormatRoot, WritePage
  <2>2. disk[0].ents = <<>>
    BY <2>1 DEF EmptyLeaf
  <2>3. Len(<<>>) = 0 /\ ToSet(<<>>) = {}
    BY DEF ToSet
  <2> QED BY <2>2, <2>3 DEF Oldest, Numbered
<1> QED BY <1>2, <1>3, <1>4, <1>5, <1>6 DEF TraceInv

\* log_event starts: the trace gets the next id and is on its way into the tree.
LEMMA LogTraces ==
  ASSUME TraceInv, NEW v \in Val, log_event(v)
  PROVE  TraceInv'
<1>1. PICK e : e = [key |-> next_id, val |-> v]
  OBVIOUS
<1>2. /\ e \in Entry /\ Insert(e) /\ e.key = next_id
      /\ next_id' = next_id + 1 /\ mine' = mine \cup {e} /\ survived' = survived
  BY <1>1 DEF log_event
<1>3. AnyInv /\ IInv /\ Logged /\ Found /\ Holding /\ Oldest
  BY DEF TraceInv, AnyInv
<1>4. /\ AnyInv' /\ Stored' = Stored
      /\ writes = <<>> /\ todo = {} /\ todo' = {e} /\ disk' = disk
  BY <1>2, <1>3, AnyInsert
<1>5. TreeInv(1)'
  <2>1. PICK T, h, R : Tree(1, T, h, R)
    BY DEF TraceInv, TreeInv
  <2>2. Spared(Cur, T \ {root_page_id}, e.key)
    BY <2>1, <1>2, <1>4, NextSpared
  <2>3. IInv'
    BY <1>4 DEF AnyInv
  <2>4. 1 \in {0, 1}
    OBVIOUS
  <2> QED BY <2>1, <2>2, <2>3, <2>4, <1>2, <1>3, InsertTree
<1>6. next_id \in Nat /\ next_id >= 1 /\ \A x \in mine : x.key \in 1..next_id - 1
  BY <1>3 DEF Logged
<1>7. e \notin mine /\ \A x \in mine : x.key # next_id /\ x.key < next_id /\ x.key \in Int
  BY <1>2, <1>6
<1>8. Logged'
  <2>1. next_id + 1 \in Nat \ {0} /\ (next_id + 1) - 1 = next_id
    BY <1>6
  <2>2. mine' \subseteq Entry
    BY <1>2, <1>3 DEF Logged
  <2>3. \A x, y \in mine' : x.key = y.key => x = y
    BY <1>2, <1>3, <1>7 DEF Logged, Unique
  <2>4. \A x \in mine' : x.key \in 1..next_id
    BY <1>2, <1>6
  <2>5. \A k \in 1..next_id : \E x \in mine' : x.key = k
    <3> TAKE k \in 1..next_id
    <3>1. k \in 1..next_id - 1 \/ k = next_id
      BY <1>6
    <3>2. k \in 1..next_id - 1 => \E x \in mine : x.key = k
      BY <1>3 DEF Logged
    <3> QED BY <3>1, <3>2, <1>2
  <2> QED BY <2>1, <2>2, <2>3, <2>4, <2>5, <1>2 DEF Logged, Unique
<1>9. Found'
  BY <1>2, <1>3 DEF Found, Unique, FromOne
<1>10. Running'
  <2>1. e.key = next_id' - 1 /\ e \in mine'
    BY <1>2, <1>6
  <2> QED BY <2>1, <1>4 DEF Running
<1>11. Holding'
  <2>1. Stored = mine \cup {t \in survived : t.key >= next_id}
    BY <1>3, <1>4 DEF Holding, Visible
  <2>2. \A t \in survived : t.key \in Int
    BY <1>3, EntryIds DEF Found
  <2>3. Visible' = mine \cup {e} \cup {t \in survived : t.key >= next_id + 1}
    BY <1>2 DEF Visible
  <2>4. \A t \in survived : t.key >= next_id <=> t.key >= next_id + 1 \/ t.key = next_id
    BY <2>2, <1>6
  <2>5. e \notin {t \in survived : t.key >= next_id + 1}
    BY <1>2, <1>6
  <2>6. Visible' \ {e} = mine \cup {t \in survived : t.key >= next_id + 1}
    BY <2>3, <2>5, <1>7
  <2>7. {t \in survived' : \E x \in todo' : t.key = x.key} = {t \in survived : t.key = next_id}
    BY <1>2, <1>4
  <2>8. Stored' = (Visible' \ {e}) \cup {t \in survived : t.key = next_id}
    BY <2>1, <2>4, <2>6, <1>4
  <2> QED BY <2>7, <2>8, <1>4 DEF Holding
<1>12. Oldest'
  BY <1>2, <1>3, <1>4 DEF Oldest
<1> QED BY <1>4, <1>5, <1>8, <1>9, <1>10, <1>11, <1>12 DEF TraceInv

\* The running insert goes on: a placed trace replaces the one found under its id.
LEMMA ProceedTraces ==
  ASSUME TraceInv, Proceed
  PROVE  TraceInv'
<1>1. Step /\ next_id' = next_id /\ mine' = mine /\ survived' = survived
  BY DEF Proceed
<1>2. AnyInv /\ IInv /\ TreeInv(1) /\ Logged /\ Found /\ Running /\ Holding /\ Oldest
  BY DEF TraceInv, AnyInv
<1>3. /\ AnyInv'
      /\ Stored' \cup todo' \subseteq Stored \cup todo
      /\ \A x \in Stored \cup todo : \E y \in Stored' \cup todo' : y.key = x.key
      /\ ToSet(disk'[0].ents) \subseteq ToSet(disk[0].ents) \cup Stored
      /\ \/ todo' = todo /\ Stored' = Stored
         \/ todo' = {} /\ todo \subseteq Stored'
  BY <1>1, <1>2, AnyStep DEF StepKept, KeysKept
<1>4. IInv'
  BY <1>3 DEF AnyInv
<1>5. TreeInv(1)'
  <2>1. 1 \in {0, 1}
    OBVIOUS
  <2> QED BY <2>1, <1>1, <1>2, <1>4, OtherTree
<1>6. Logged' /\ Found'
  BY <1>1, <1>2 DEF Logged, Found, Unique, FromOne
<1>7. Visible' = Visible
  BY <1>1 DEF Visible
<1>8. Running' /\ Holding'
  <2>1. CASE todo' = todo /\ Stored' = Stored
    BY <2>1, <1>1, <1>2, <1>7 DEF Running, Holding
  <2>2. CASE todo' = {} /\ todo \subseteq Stored'
    <3>1. Running'
      BY <2>2 DEF Running
    <3>2. Stored' = Visible
      <4>1. CASE todo = {}
        <5>1. Stored = Visible
          BY <4>1, <1>2 DEF Holding
        <5>2. Unique(Stored) /\ Stored' \subseteq Stored
          BY <4>1, <2>2, <1>2, <1>3, UniqueIs DEF UniqueFact
        <5>3. \A x \in Stored : \E y \in Stored' : y.key = x.key
          BY <4>1, <2>2, <1>3
        <5>4. \A x \in Stored : x \in Stored'
          BY <5>2, <5>3 DEF Unique
        <5> QED BY <5>1, <5>2, <5>4
      <4>2. CASE todo # {}
        <5>1. PICK e \in todo : TRUE
          BY <4>2
        <5>2. todo = {e} /\ e \in mine /\ e.key = next_id - 1
          BY <5>1, <1>2 DEF Running
        <5>3. Unique(Stored) /\ Unique(Stored')
          <6>1. UniqueFact'
            BY UniqueIs, PTL
          <6> QED BY <6>1, <1>2, <1>4, <1>5, UniqueIs DEF UniqueFact
        <5>4. e \in Stored' /\ Stored' \subseteq Stored \cup {e}
          BY <5>2, <2>2, <1>3
        <5>5. \A x \in Stored : \E y \in Stored' : y.key = x.key
          BY <2>2, <1>3
        <5>6. Stored' = {x \in Stored : x.key # e.key} \cup {e}
          <6>1. \A x \in Stored' : x = e \/ (x \in Stored /\ x.key # e.key)
            BY <5>3, <5>4 DEF Unique
          <6>2. \A x \in Stored : x.key # e.key => x \in Stored'
            BY <5>3, <5>4, <5>5 DEF Unique
          <6> QED BY <6>1, <6>2, <5>4
        <5>7. Stored = (Visible \ {e}) \cup {t \in survived : t.key = e.key}
          BY <5>2, <1>2 DEF Holding
        <5>8. \A x \in Visible : x.key = e.key => x = e
          <6>1. \A x \in mine : x.key = e.key => x = e
            BY <5>2, <1>2 DEF Logged, Unique
          <6>2. \A x \in survived : x.key >= next_id => x.key # e.key
            <7>1. next_id \in Nat /\ \A x \in survived : x.key \in Int
              BY <1>2, EntryIds DEF Logged, Found
            <7> QED BY <7>1, <5>2
          <6> QED BY <6>1, <6>2 DEF Visible
        <5>9. e \in Visible
          BY <5>2 DEF Visible
        <5> QED BY <5>6, <5>7, <5>8, <5>9
      <4> QED BY <4>1, <4>2
    <3>3. Holding'
      BY <3>2, <2>2, <1>7 DEF Holding
    <3> QED BY <3>1, <3>3
  <2> QED BY <2>1, <2>2, <1>3
<1>9. ToSet(disk'[0].ents) \subseteq mine' \cup survived'
  <2>1. Stored \subseteq mine \cup survived
    BY <1>2 DEF Holding, Visible
  <2> QED BY <2>1, <1>1, <1>2, <1>3 DEF Oldest
<1>10. Numbered(disk'[0].ents)
  <2>1. CASE FlushPage
    <3>1. PICK w : w = Head(writes)
      OBVIOUS
    <3>2. /\ w = writes[1] /\ 1 \in DOMAIN writes
          /\ disk'[w.page] = w.node
          /\ \A p \in DOMAIN disk' : p # w.page =>
               disk'[p] = IF p \in DOMAIN disk THEN disk[p] ELSE ZeroPage
          /\ DOMAIN disk \subseteq DOMAIN disk'
      BY <2>1, <3>1, <1>2, FlushIs
    <3>3. CASE w.page = 0
      <4>1. disk'[0] = Cur[0]
        BY <3>2, <3>3, <1>2 DEF AnyInv, Agreed
      <4> QED BY <4>1, NumberIs DEF NumberFact
    <3>4. CASE w.page # 0
      <4>1. 0 \in DOMAIN disk
        BY <1>2 DEF IInv, PageZeroDue, Written
      <4>2. disk'[0] = disk[0]
        BY <4>1, <3>2, <3>4
      <4> QED BY <4>2, <1>2 DEF Oldest
    <3> QED BY <3>3, <3>4
  <2>2. CASE Visit
    <3>1. disk' = disk
      BY <2>2 DEF Visit, UpdateEntry, AddToLeaf, Descend, SplitFullChild, Place, fileVars
    <3> QED BY <3>1, <1>2 DEF Oldest
  <2> QED BY <2>1, <2>2, <1>1 DEF Step
<1>11. Oldest'
  BY <1>9, <1>10 DEF Oldest
<1> QED BY <1>3, <1>5, <1>6, <1>8, <1>11 DEF TraceInv

\* A new process finds page 0, and counts from 1 again.
LEMMA ReopenTraces ==
  ASSUME TraceInv, Reopen
  PROVE  /\ TraceInv' /\ survived' = ToSet(disk[0].ents)
         /\ \A x \in survived' : x.key \in 1..Len(disk[0].ents)
         /\ \A k \in 1..Len(disk[0].ents) : \E x \in survived' : x.key = k
<1>1. Restart /\ next_id' = 1 /\ mine' = {} /\ survived' = ToSet(AllValues)'
  BY DEF Reopen, AllValues
<1>2. AnyInv /\ IInv /\ TreeInv(1) /\ Oldest
  BY DEF TraceInv, AnyInv
<1>3. /\ AnyInv' /\ Stored' = ToSet(disk[0].ents) /\ Stored' = ToSet(AllValues)'
      /\ todo' = {} /\ disk' = disk
  BY <1>1, <1>2, AnyRestart
<1>4. IInv'
  BY <1>3 DEF AnyInv
<1>5. TreeInv(1)'
  <2>1. 1 \in {0, 1}
    OBVIOUS
  <2> QED BY <2>1, <1>1, <1>2, <1>4, OtherTree
<1>6. survived' = ToSet(disk[0].ents) /\ Stored' = survived'
  BY <1>1, <1>3
<1>7. PICK s : s = disk[0].ents
  OBVIOUS
<1>8. s \in Seq(Entry) /\ Len(s) <= MaxKeys /\ Numbered(s) /\ Len(s) \in Nat
  <2>1. disk[0] \in Node /\ Sound(disk[0])
    BY <1>2 DEF IInv, TypeOK, PagesFit, PageZeroDue, Written
  <2> QED BY <2>1, <1>2, <1>7, NodeProps DEF Sound, Oldest
<1>9. /\ Unique(survived') /\ FromOne(survived')
      /\ \A x \in survived' : x.key \in 1..Len(s)
      /\ \A k \in 1..Len(s) : \E x \in survived' : x.key = k
  BY <1>6, <1>7, <1>8, NumberedSet
<1>10. survived' \subseteq Entry
  BY <1>6, <1>7, <1>8, ToSetIs
<1>11. Logged'
  BY <1>1 DEF Logged, Unique
<1>12. Found'
  <2>1. \A x \in survived' : x.key <= MaxKeys
    BY <1>8, <1>9, MaxKeysProps
  <2> QED BY <2>1, <1>9, <1>10 DEF Found, Unique, FromOne
<1>13. Running'
  BY <1>3 DEF Running
<1>14. Holding'
  <2>1. \A x \in survived' : x.key >= 1
    BY <1>8, <1>9
  <2>2. Visible' = survived'
    BY <2>1, <1>1 DEF Visible
  <2> QED BY <2>2, <1>3, <1>6 DEF Holding
<1>15. Oldest'
  BY <1>1, <1>2, <1>3, <1>6 DEF Oldest
<1> QED BY <1>3, <1>5, <1>6, <1>7, <1>9, <1>11, <1>12, <1>13, <1>14, <1>15 DEF TraceInv

\* Nothing happens.
LEMMA StutterTraces ==
  ASSUME TraceInv, UNCHANGED dbVars
  PROVE  TraceInv'
<1>1. UNCHANGED vars /\ next_id' = next_id /\ mine' = mine /\ survived' = survived
  BY DEF dbVars
<1>2. /\ UNCHANGED <<disk, todo>>
      /\ AnyInv /\ IInv /\ TreeInv(1) /\ Logged /\ Found /\ Running /\ Holding /\ Oldest
  BY <1>1 DEF TraceInv, AnyInv, vars
<1>3. AnyInv' /\ Stored' = Stored
  BY <1>1, <1>2, AnyStutter
<1>4. TreeInv(1)'
  <2>1. 1 \in {0, 1} /\ IInv'
    BY <1>3 DEF AnyInv
  <2> QED BY <2>1, <1>1, <1>2, OtherTree
<1>5. Logged' /\ Found' /\ Running'
  BY <1>1, <1>2 DEF Logged, Found, Running, Unique, FromOne
<1>6. Holding'
  <2>1. Visible' = Visible
    BY <1>1 DEF Visible
  <2> QED BY <2>1, <1>1, <1>2, <1>3 DEF Holding
<1>7. Oldest'
  BY <1>1, <1>2 DEF Oldest
<1> QED BY <1>3, <1>4, <1>5, <1>6, <1>7 DEF TraceInv

\* Every step of the database keeps the invariant.
LEMMA StepTraces ==
  ASSUME TraceInv, [DBNext]_dbVars
  PROVE  TraceInv'
<1>1. ASSUME NEW v \in Val, log_event(v) PROVE TraceInv'
  BY <1>1, LogTraces
<1>2. CASE Proceed
  BY <1>2, ProceedTraces
<1>3. CASE Reopen
  BY <1>3, ReopenTraces
<1>4. CASE UNCHANGED dbVars
  BY <1>4, StutterTraces
<1> QED BY <1>1, <1>2, <1>3, <1>4 DEF DBNext

-----------------------------------------------------------------------------
(* The theorems.                                                             *)

\* What the invariant says of the readers.
LEMMA TracesSeen ==
  ASSUME TraceInv
  PROVE  ReadersSee
<1> SUFFICES ASSUME todo = {}, writes = <<>>
             PROVE  /\ \A t \in Visible : search(t.key) = <<t>>
                    /\ \A p \in {v.project : v \in Val} :
                         LET found == search_by_project(p)
                         IN /\ ToSet(found) = {t \in Visible : t.val.project = p}
                            /\ Len(found) = Cardinality(ToSet(found))
                    /\ ToSet(get_all_traces) = {t \in Visible : is_valid(t)}
  BY DEF ReadersSee, Idle
<1>1. AnyInv /\ IInv /\ TreeInv(1) /\ Holding
  BY DEF TraceInv, AnyInv
<1>2. Stored = Visible
  BY <1>1 DEF Holding
<1>3. PICK s : s = AllValues
  OBVIOUS
<1>4. s \in Seq(Entry) /\ ToSet(s) = Visible
  BY <1>1, <1>2, <1>3, AnyReaders
<1>5. Ascending(1, s)
  <2>1. PICK T, h, R : Tree(1, T, h, R)
    BY <1>1 DEF TreeInv
  <2>2. 1 \in Nat
    OBVIOUS
  <2>3. Ascending(1, Values(Overlay, root_page_id))
    BY <2>1, <2>2, <1>1, ValuesAscend
  <2>4. Overlay = disk
    BY <1>1, QuietIs DEF QuietFact
  <2> QED BY <2>3, <2>4, <1>3 DEF AllValues
<1>6. DOMAIN s = 1..Len(s) /\ \A x : x \in ToSet(s) <=> \E i \in 1..Len(s) : s[i] = x
  BY <1>4, <1>5, ToSetIs, Distinct
<1>7. ASSUME NEW t \in Visible PROVE search(t.key) = <<t>>
  <2>1. Unique(Stored)
    BY <1>1, UniqueIs DEF UniqueFact
  <2> QED BY <2>1, <1>1, <1>2, SearchFinds DEF search
<1>8. ASSUME NEW p \in {v.project : v \in Val}
      PROVE  /\ ToSet(search_by_project(p)) = {t \in Visible : t.val.project = p}
             /\ Len(search_by_project(p)) = Cardinality(ToSet(search_by_project(p)))
  <2>1. PICK I : I = {i \in DOMAIN s : s[i].val.project = p}
    OBVIOUS
  <2>2. search_by_project(p) = Chosen(s, I)
    BY <2>1, <1>3 DEF search_by_project
  <2>3. /\ Chosen(s, I) \in Seq(Entry) /\ Ascending(1, Chosen(s, I))
        /\ \A x : x \in ToSet(Chosen(s, I)) <=> \E i \in 1..Len(s) : i \in I /\ s[i] = x
    BY <1>4, <1>5, ChosenIs
  <2>4. Cardinality(ToSet(Chosen(s, I))) = Len(Chosen(s, I))
    BY <2>3, Distinct
  <2>5. \A x : x \in ToSet(Chosen(s, I)) <=> x \in ToSet(s) /\ x.val.project = p
    BY <2>1, <2>3, <1>6
  <2>6. ToSet(Chosen(s, I)) = {t \in Visible : t.val.project = p}
    BY <2>5, <1>4
  <2> QED BY <2>2, <2>4, <2>6
<1>9. ToSet(get_all_traces) = {t \in Visible : is_valid(t)}
  <2>1. PICK I : I = {i \in DOMAIN s : is_valid(s[i])}
    OBVIOUS
  <2>2. get_all_traces = Chosen(s, I)
    BY <2>1, <1>3 DEF get_all_traces
  <2>3. \A x : x \in ToSet(Chosen(s, I)) <=> \E i \in 1..Len(s) : i \in I /\ s[i] = x
    BY <1>4, <1>5, ChosenIs
  <2>4. \A x : x \in ToSet(Chosen(s, I)) <=> x \in ToSet(s) /\ is_valid(x)
    BY <2>1, <2>3, <1>6
  <2> QED BY <2>2, <2>4, <1>4
<1> QED BY <1>7, <1>8, <1>9

\* What the invariant says of a new process.
LEMMA OldestFound ==
  ASSUME TraceInv, Reopen
  PROVE  /\ survived' \subseteq mine \cup survived
         /\ Idle => \A t \in survived', u \in Visible \ survived' : t.key < u.key
<1>1. /\ survived' = ToSet(disk[0].ents)
      /\ \A x \in survived' : x.key \in 1..Len(disk[0].ents)
      /\ \A k \in 1..Len(disk[0].ents) : \E x \in survived' : x.key = k
  BY ReopenTraces
<1>2. AnyInv /\ IInv /\ TreeInv(1) /\ Holding /\ Oldest
  BY DEF TraceInv, AnyInv
<1>3. survived' \subseteq mine \cup survived
  BY <1>1, <1>2 DEF Oldest
<1>4. ASSUME Idle, NEW t \in survived', NEW u \in Visible \ survived'
      PROVE  t.key < u.key
  <2>1. writes = <<>> /\ todo = {}
    BY <1>4 DEF Idle
  <2>2. Stored = Visible
    BY <2>1, <1>2 DEF Holding
  <2>3. survived' \subseteq Stored /\ Stored \subseteq Entry
    <3>1. Cur[0] = disk[0]
      BY <2>1, <1>2, AnyReaders
    <3> QED BY <3>1, <1>1, <1>2, AnyIs DEF AnyFact
  <2>4. Unique(Stored)
    BY <1>2, UniqueIs DEF UniqueFact
  <2>5. PICK L : L = Len(disk[0].ents)
    OBVIOUS
  <2>6. t.key \in 1..L
    BY <1>1, <2>5
  <2>7. u.key \notin 1..L
    <3> SUFFICES ASSUME u.key \in 1..L PROVE FALSE
      OBVIOUS
    <3>1. PICK x \in survived' : x.key = u.key
      BY <1>1, <2>5
    <3>2. x = u
      BY <3>1, <2>2, <2>3, <2>4 DEF Unique
    <3> QED BY <3>1, <3>2, <1>4
  <2>8. u.key \in Nat \ {0}
    BY <2>2, <2>3, EntryIds
  <2>9. L \in Nat
    <3>1. disk[0] \in Node
      BY <1>2 DEF IInv, TypeOK, PageZeroDue, Written
    <3> QED BY <3>1, <2>5, NodeProps
  <2> QED BY <2>6, <2>7, <2>8, <2>9
<1> QED BY <1>3, <1>4

\* The database's invariant: the tree holds what this process logged and what it found
\* under ids not yet reached, and page 0 the first of them.
THEOREM TraceInvariant == DBSpec => []TraceInv
<1>1. DBInit => TraceInv
  BY InitTraces
<1>2. TraceInv /\ [DBNext]_dbVars => TraceInv'
  BY StepTraces
<1> QED BY <1>1, <1>2, PTL DEF DBSpec

\* search, search_by_project and get_all_traces show exactly the visible traces, each
\* once, whatever tree earlier processes left in the file.
THEOREM ReadersAlwaysSee == DBSpec => []ReadersSee
<1>1. TraceInv => ReadersSee
  BY TracesSeen
<1> QED BY <1>1, TraceInvariant, PTL

\* What a new ExecTraceDB finds was logged before, and between two calls it is the
\* newest traces that get lost.
THEOREM OldestAlwaysSurvive == DBSpec => OldestSurvive
<1>1. TraceInv /\ [DBNext]_dbVars =>
        [Reopen => /\ survived' \subseteq mine \cup survived
                   /\ Idle => \A t \in survived', u \in Visible \ survived' : t.key < u.key]_dbVars
  BY OldestFound
<1> QED BY <1>1, TraceInvariant, PTL DEF DBSpec, OldestSurvive

-----------------------------------------------------------------------------
(* The rate limiter. *)

Meter == Name \cup {Everyone}

\* The tokens of a full bucket.
Brimful(m) == Capacity[m] * Window

Bucket(m) == [tokens: 0..Brimful(m), last_refill: 0..now]

\* The bucket behind the meter of a name, or of all.
Behind(m) == IF m = Everyone THEN global_bucket ELSE BucketOf(m)

BucketsInv ==
  /\ now \in Nat
  /\ DOMAIN api_key_buckets \subseteq Name
  /\ \A k \in DOMAIN api_key_buckets : api_key_buckets[k] \in Bucket(k)
  /\ global_bucket \in Bucket(Everyone)
  /\ DOMAIN served = Meter

-----------------------------------------------------------------------------
\* Capacities are positive and the global bucket's name is its own.
LEMMA CapacityProps ==
  /\ Everyone \notin Name /\ Window \in Nat \ {0}
  /\ \A m \in Meter : Capacity[m] \in Nat \ {0}
  /\ DOMAIN Capacity = Meter
<1>1. Everyone \notin Name /\ Window \in Nat \ {0}
  BY LimitAssumption DEF Name
<1>2. \A m \in Meter : Capacity[m] \in {KeyCapacity, AnonymousCapacity, GlobalCapacity}
  BY DEF Meter, Capacity
<1> QED BY <1>1, <1>2, LimitAssumption DEF Meter, Capacity

\* What Throttle assumes of its constants holds of the limiter's, in every state.
LEMMA LimitMetered == Limit!Metered
BY CapacityProps, LimitAssumption DEF Limit!Metered, Limit!Meter, Meter, Capacity

\* Products of natural numbers, as far as buckets need them.
LEMMA Products ==
  ASSUME NEW c \in Nat, NEW x \in Nat
  PROVE  /\ c * x \in Nat /\ x * c \in Nat /\ x * c = c * x
         /\ (x + 1) * c = x * c + c
         /\ 0 * c = 0
OBVIOUS

\* One second more adds one capacity to the gain.
LEMMA OneMore ==
  ASSUME NEW c \in Int, NEW x \in Int
  PROVE  c * (x + 1) = c * x + c
OBVIOUS

\* A longer time is worth more tokens.
LEMMA ProductMonotone ==
  ASSUME NEW c \in Nat, NEW x \in Nat, NEW y \in Nat, x <= y
  PROVE  x * c <= y * c
<1>1. y - x \in Nat /\ (y - x) * c \in Nat
  BY Products
<1>2. y * c = x * c + (y - x) * c
  OBVIOUS
<1> QED BY <1>1, <1>2, Products

\* The tokens of a full bucket are a number.
LEMMA FullProps ==
  ASSUME NEW m \in Meter
  PROVE  Brimful(m) \in Nat /\ Capacity[m] \in Nat
BY CapacityProps, Products DEF Brimful

\* A bucket refilled holds what is expected, and refilling it again at the same
\* time changes nothing.
LEMMA RefillProps ==
  ASSUME NEW m \in Meter, now \in Nat, NEW b \in Bucket(m)
  PROVE  /\ refill(m, b) \in Bucket(m)
         /\ refill(m, b).last_refill = now
         /\ refill(m, refill(m, b)) = refill(m, b)
<1> DEFINE gain == (now - b.last_refill) * Capacity[m]
<1>1. Brimful(m) \in Nat /\ Capacity[m] \in Nat
  BY FullProps
<1>2. b.tokens \in 0..Brimful(m) /\ b.last_refill \in 0..now
  BY DEF Bucket
<1>3. gain \in Nat
  BY <1>1, <1>2, Products
<1>4. refill(m, b) = [tokens |-> IF b.tokens + gain <= Brimful(m) THEN b.tokens + gain ELSE Brimful(m),
                      last_refill |-> now]
  BY DEF refill, Brimful
<1> HIDE DEF gain
<1>5. refill(m, b) \in Bucket(m) /\ refill(m, b).last_refill = now
  BY <1>1, <1>2, <1>3, <1>4 DEF Bucket
<1>6. ASSUME NEW t \in 0..Brimful(m)
      PROVE  refill(m, [tokens |-> t, last_refill |-> now]) = [tokens |-> t, last_refill |-> now]
  <2>1. (now - now) * Capacity[m] = 0
    BY <1>1
  <2>2. t <= Capacity[m] * Window
    BY DEF Brimful
  <2>3. t + (now - now) * Capacity[m] = t
    BY <2>1
  <2> QED BY <2>2, <2>3 DEF refill
<1>7. (IF b.tokens + gain <= Brimful(m) THEN b.tokens + gain ELSE Brimful(m)) \in 0..Brimful(m)
  BY <1>1, <1>2, <1>3
<1> QED BY <1>4, <1>5, <1>6, <1>7

\* A bucket just made is full.
LEMMA NewBucketProps ==
  ASSUME NEW m \in Meter, now \in Nat
  PROVE  /\ NewBucket(m) \in Bucket(m)
         /\ refill(m, NewBucket(m)).tokens = Brimful(m)
<1>1. Brimful(m) \in Nat /\ NewBucket(m) = [tokens |-> Brimful(m), last_refill |-> now]
  BY FullProps DEF NewBucket, Brimful
<1>2. NewBucket(m) \in Bucket(m)
  BY <1>1 DEF Bucket
<1>3. (now - now) * Capacity[m] = 0
  BY FullProps
<1>4. Brimful(m) + (now - now) * Capacity[m] <= Capacity[m] * Window
  BY <1>1, <1>3 DEF Brimful
<1>5. refill(m, NewBucket(m)).tokens = Brimful(m) + (now - now) * Capacity[m]
  BY <1>1, <1>4 DEF refill
<1> QED BY <1>1, <1>2, <1>3, <1>5

-----------------------------------------------------------------------------
(* The invariant. *)

\* The bucket behind every meter is a bucket of that meter.
LEMMA BehindProps ==
  ASSUME BucketsInv, NEW m \in Meter
  PROVE  Behind(m) \in Bucket(m)
BY NewBucketProps, CapacityProps DEF BucketsInv, Behind, BucketOf, Meter

\* A bucket of an earlier time is one of a later.
LEMMA BucketLater ==
  ASSUME NEW m \in Meter, now \in Nat, now' \in Nat, now <= now', NEW b \in Bucket(m)
  PROVE  b \in Bucket(m)'
<1>1. Bucket(m)' = [tokens: 0..Brimful(m), last_refill: 0..now']
  BY DEF Bucket, Brimful, Capacity, Name
<1>2. 0..now \subseteq 0..now'
  OBVIOUS
<1> QED BY <1>1, <1>2 DEF Bucket

\* A bucket that has given a token is still one.
LEMMA TakenProps ==
  ASSUME NEW m \in Meter, NEW b \in Bucket(m), HasToken(b)
  PROVE  /\ Taken(b) \in Bucket(m)
         /\ Taken(b).tokens = b.tokens - Window
         /\ Taken(b).last_refill = b.last_refill
<1>1. b = [tokens |-> b.tokens, last_refill |-> b.last_refill]
      /\ b.tokens \in 0..Brimful(m) /\ b.last_refill \in 0..now
  BY DEF Bucket
<1>2. Taken(b) = [tokens |-> b.tokens - Window, last_refill |-> b.last_refill]
  BY <1>1 DEF Taken
<1>3. b.tokens - Window \in 0..Brimful(m)
  BY <1>1, FullProps, CapacityProps DEF HasToken
<1> QED BY <1>1, <1>2, <1>3 DEF Bucket

\* The invariant holds at the start.
LEMMA InitBuckets == LimiterInit => BucketsInv
<1> SUFFICES ASSUME LimiterInit PROVE BucketsInv
  OBVIOUS
<1>1. now = 0 /\ now \in Nat /\ DOMAIN api_key_buckets = {}
  BY DEF LimiterInit
<1>2. global_bucket \in Bucket(Everyone)
  BY <1>1, NewBucketProps DEF LimiterInit, Meter
<1>3. DOMAIN served = Meter
  BY CapacityProps DEF LimiterInit
<1> QED BY <1>1, <1>2, <1>3 DEF BucketsInv

\* Setting a name's bucket to another of its kind keeps the map's type.
LEMMA SetBucketProps ==
  ASSUME BucketsInv, NEW name \in Name, NEW b \in Bucket(name), SetBucket(name, b)
  PROVE  /\ DOMAIN api_key_buckets' \subseteq Name
         /\ name \in DOMAIN api_key_buckets' /\ api_key_buckets'[name] = b
         /\ \A k \in DOMAIN api_key_buckets' : api_key_buckets'[k] \in Bucket(k)
         /\ \A k \in Name \ {name} :
              /\ k \in DOMAIN api_key_buckets' <=> k \in DOMAIN api_key_buckets
              /\ k \in DOMAIN api_key_buckets => api_key_buckets'[k] = api_key_buckets[k]
BY DEF BucketsInv, SetBucket

\* Every step keeps it.
LEMMA StepBuckets == BucketsInv /\ [LimiterNext]_limiterVars => BucketsInv'
<1> SUFFICES ASSUME BucketsInv, [LimiterNext]_limiterVars PROVE BucketsInv'
  OBVIOUS
<1>a. Everyone \in Meter /\ Name \subseteq Meter
  BY DEF Meter
<1>b. ASSUME now' = now PROVE \A m \in Meter : Bucket(m)' = Bucket(m)
  BY <1>b DEF Bucket, Brimful, Capacity, Name
<1>c. Meter' = Meter /\ Name' = Name
  BY DEF Meter, Name
<1>1. CASE Tick
  <2>1. now' \in Nat /\ now <= now'
    BY <1>1 DEF Tick, BucketsInv
  <2> QED BY <1>1, <2>1, <1>a, <1>c, BucketLater DEF Tick, BucketsInv
<1>2. CASE RefuseAll
  BY <1>2, <1>a, <1>b, <1>c, RefillProps DEF RefuseAll, BucketsInv
<1>3. ASSUME NEW name \in Name, allow_request(name) PROVE BucketsInv'
  <2> DEFINE everyone == refill(Everyone, global_bucket)
             own      == refill(name, BucketOf(name))
  <2>1. everyone \in Bucket(Everyone) /\ own \in Bucket(name)
    <3>1. BucketOf(name) \in Bucket(name)
      BY BehindProps, CapacityProps, <1>a DEF Behind
    <3> QED BY <3>1, <1>a, RefillProps DEF BucketsInv
  <2>2. now' = now /\ global_bucket' = Taken(everyone) /\ HasToken(everyone)
    BY <1>3 DEF allow_request
  <2>3. global_bucket' \in Bucket(Everyone)
    BY <2>1, <2>2, <1>a, TakenProps
  <2>4. PICK b \in Bucket(name) : SetBucket(name, b)
    BY <1>3, <2>1, <1>a, TakenProps DEF allow_request
  <2>5. DOMAIN served' = DOMAIN served
    BY <1>3 DEF allow_request, Serve
  <2>6. /\ DOMAIN api_key_buckets' \subseteq Name
        /\ \A k \in DOMAIN api_key_buckets' : api_key_buckets'[k] \in Bucket(k)
    BY <2>4, SetBucketProps
  <2> QED BY <2>2, <2>3, <2>5, <2>6, <1>a, <1>b, <1>c DEF BucketsInv
<1>4. ASSUME NEW name \in ApiKey, get_remaining(name) PROVE BucketsInv'
  <2>1. name \in Name
    BY DEF Name
  <2>2. /\ now' = now /\ global_bucket' = global_bucket /\ served' = served
        /\ SetBucket(name, refill(name, api_key_buckets[name]))
        /\ api_key_buckets[name] \in Bucket(name)
    BY <1>4 DEF get_remaining, BucketsInv
  <2>3. refill(name, api_key_buckets[name]) \in Bucket(name)
    BY <2>1, <2>2, <1>a, RefillProps DEF BucketsInv
  <2> QED BY <2>1, <2>2, <2>3, <1>a, <1>b, <1>c, SetBucketProps DEF BucketsInv
<1>5. CASE cleanup
  BY <1>5, <1>a, <1>b, <1>c DEF cleanup, BucketsInv
<1>6. CASE UNCHANGED limiterVars
  BY <1>6, <1>a, <1>b, <1>c DEF limiterVars, BucketsInv
<1> QED BY <1>1, <1>2, <1>3, <1>4, <1>5, <1>6 DEF LimiterNext

-----------------------------------------------------------------------------
(* The levels of the meters, as the buckets show them. *)

\* Refilling a bucket that was refilled just now changes nothing.
LEMMA RefillNow ==
  ASSUME NEW m \in Meter, NEW b \in Bucket(m), b.last_refill = now, now \in Nat
  PROVE  refill(m, b) = b
<1>1. b = [tokens |-> b.tokens, last_refill |-> now] /\ b.tokens \in 0..Brimful(m)
  BY DEF Bucket
<1>2. (now - now) * Capacity[m] = 0
  BY FullProps
<1>3. b.tokens + (now - b.last_refill) * Capacity[m] = b.tokens
  BY <1>1, <1>2
<1>4. b.tokens <= Capacity[m] * Window
  BY <1>1, FullProps DEF Brimful
<1>5. refill(m, b) = [tokens |-> b.tokens, last_refill |-> now]
  BY <1>3, <1>4 DEF refill
<1> QED BY <1>1, <1>5

\* A meter shows what its bucket would hold if it were refilled now.
LEMMA LevelProps ==
  ASSUME BucketsInv, NEW m \in Meter
  PROVE  /\ Level[m] = refill(m, Behind(m)).tokens
         /\ Level[m] \in 0..Brimful(m)
         /\ refill(m, Behind(m)) \in Bucket(m)
<1>1. Level[m] = refill(m, Behind(m)).tokens
  BY DEF Level, Behind, Meter
<1>2. refill(m, Behind(m)) \in Bucket(m)
  BY BehindProps, RefillProps DEF BucketsInv
<1> QED BY <1>1, <1>2 DEF Bucket

\* While time stands still, the next level follows from the next bucket.
LEMMA LevelPrime ==
  ASSUME now' = now, NEW m \in Meter
  PROVE  Level'[m] = refill(m, Behind(m)').tokens
<1>1. m \in Meter'
  BY DEF Meter, Name
<1>2. Level'[m] = (IF m = Everyone THEN refill(m, global_bucket).tokens
                                   ELSE refill(m, BucketOf(m)).tokens)'
  BY <1>1 DEF Level, Meter, Name
<1>3. CASE m = Everyone
  BY <1>2, <1>3 DEF Behind, refill, Capacity, Name
<1>4. CASE m # Everyone
  BY <1>2, <1>4 DEF Behind, refill, Capacity, Name
<1> QED BY <1>3, <1>4

\* A meter whose bucket stays as it is, or does not come into being, stays too.
LEMMA LevelStays ==
  ASSUME BucketsInv, now' = now, NEW m \in Meter, Behind(m)' = Behind(m)
  PROVE  Level'[m] = Level[m]
BY LevelPrime, LevelProps

\* The bucket behind a name that an operation does not touch.
LEMMA BehindStays ==
  ASSUME now' = now, NEW k \in Name,
         k \in DOMAIN api_key_buckets' <=> k \in DOMAIN api_key_buckets,
         k \in DOMAIN api_key_buckets => api_key_buckets'[k] = api_key_buckets[k]
  PROVE  Behind(k)' = Behind(k)
<1>1. k # Everyone
  BY CapacityProps
<1>2. NewBucket(k)' = NewBucket(k)
  BY DEF NewBucket, Capacity, Name
<1>3. BucketOf(k)' = BucketOf(k)
  BY <1>2 DEF BucketOf
<1> QED BY <1>1, <1>3 DEF Behind

\* What allow_request does to the meter of a name whose bucket becomes b.
LEMMA LevelOfName ==
  ASSUME BucketsInv, now' = now, NEW name \in Name, NEW b \in Bucket(name),
         b.last_refill = now, SetBucket(name, b)
  PROVE  /\ Level'[name] = b.tokens
         /\ \A k \in Name \ {name} : Level'[k] = Level[k]
<1>1. name \in Meter /\ name # Everyone
  BY CapacityProps DEF Meter
<1>2. name \in DOMAIN api_key_buckets' /\ api_key_buckets'[name] = b
  BY SetBucketProps
<1>3. Behind(name)' = b
  BY <1>1, <1>2 DEF Behind, BucketOf
<1>4. Level'[name] = b.tokens
  BY <1>1, <1>3, LevelPrime, RefillNow DEF BucketsInv
<1>5. ASSUME NEW k \in Name \ {name} PROVE Level'[k] = Level[k]
  <2>1. Behind(k)' = Behind(k)
    BY SetBucketProps, BehindStays
  <2> QED BY <2>1, LevelStays DEF Meter
<1> QED BY <1>4, <1>5

\* What spending a token of all does to their meter.
LEMMA LevelOfEveryone ==
  ASSUME BucketsInv, now' = now, NEW b \in Bucket(Everyone), b.last_refill = now,
         global_bucket' = b
  PROVE  Level'[Everyone] = b.tokens
<1>1. Behind(Everyone)' = b /\ Everyone \in Meter
  BY DEF Behind, Meter
<1> QED BY <1>1, LevelPrime, RefillNow DEF BucketsInv

-----------------------------------------------------------------------------
(* The refinement. *)

\* The meters start full.
LEMMA InitLimit == LimiterInit => Limit!Init
<1> SUFFICES ASSUME LimiterInit PROVE Limit!Init
  OBVIOUS
<1>1. now = 0 /\ now \in Nat /\ DOMAIN api_key_buckets = {}
  BY DEF LimiterInit
<1>2. ASSUME NEW m \in Meter PROVE Behind(m) = NewBucket(m)
  BY <1>1 DEF Behind, BucketOf, LimiterInit
<1>3. ASSUME NEW m \in Meter PROVE Level[m] = Brimful(m)
  BY <1>1, <1>2, NewBucketProps DEF Level, Behind, Meter
<1>4. Level = [m \in Meter |-> Brimful(m)]
  BY <1>3 DEF Level, Meter
<1>5. served = [m \in Meter |-> <<>>]
  BY CapacityProps DEF LimiterInit
<1> QED BY <1>1, <1>4, <1>5 DEF Limit!Init, Limit!Meter, Limit!Full, Level, Meter, Brimful

\* Nothing changes for the meters if each bucket stays, is refilled or is so old
\* that it would be full.
LEMMA Unnoticed ==
  ASSUME BucketsInv, now' = now, served' = served,
         \A m \in Meter : Level'[m] = Level[m]
  PROVE  UNCHANGED <<now, Level, served>>
<1>1. Meter' = Meter
  BY DEF Meter, Name
<1>2. Level' = [m \in Meter |-> Level'[m]] /\ Level = [m \in Meter |-> Level[m]]
  BY <1>1 DEF Level, Meter
<1> QED BY <1>2

\* A second more fills every meter as Throttle says.
LEMMA TickLimit ==
  ASSUME BucketsInv, Tick
  PROVE  Limit!Tick
<1>1. /\ now' = now + 1 /\ now < MaxTime /\ now \in Nat /\ now' \in Nat
      /\ api_key_buckets' = api_key_buckets /\ global_bucket' = global_bucket
      /\ served' = served
  BY DEF Tick, BucketsInv
<1>2. ASSUME NEW m \in Meter
      PROVE  Level'[m] = IF Level[m] + Capacity[m] <= Brimful(m) THEN Level[m] + Capacity[m]
                                                              ELSE Brimful(m)
  <2> DEFINE c == Capacity[m]
  <2>1. c \in Nat /\ Brimful(m) \in Nat /\ Level[m] \in 0..Brimful(m)
    BY FullProps, LevelProps
  <2>2. CASE m = Everyone \/ m \in DOMAIN api_key_buckets
    <3> DEFINE b == Behind(m)
               x == now - b.last_refill
    <3>1. b \in Bucket(m) /\ b.tokens \in 0..Brimful(m) /\ x \in Nat
      BY BehindProps, <1>1 DEF Bucket
    <3>2. Level[m] = IF b.tokens + x * c <= Brimful(m) THEN b.tokens + x * c ELSE Brimful(m)
      BY LevelProps DEF refill, Brimful
    <3>3. Level'[m] = IF b.tokens + (x + 1) * c <= Brimful(m) THEN b.tokens + (x + 1) * c
                                                         ELSE Brimful(m)
      <4>1. now' - b.last_refill = x + 1
        BY <1>1, <3>1 DEF Bucket
      <4>2. Level'[m] = IF b.tokens + (now' - b.last_refill) * c <= Capacity[m] * Window
                        THEN b.tokens + (now' - b.last_refill) * c
                        ELSE Capacity[m] * Window
        BY <1>1, <2>2, CapacityProps
           DEF Level, Behind, BucketOf, refill, Meter, Name, Capacity
      <4> QED BY <4>1, <4>2 DEF Brimful
    <3>4. (x + 1) * c = x * c + c /\ x * c \in Nat
      BY <2>1, <3>1, Products
    <3> HIDE DEF b, x, c
    <3> QED BY <2>1, <3>1, <3>2, <3>3, <3>4 DEF c
  <2>3. CASE m # Everyone /\ m \notin DOMAIN api_key_buckets
    <3>1. Level[m] = Brimful(m)
      BY <2>3, <1>1, LevelProps, NewBucketProps DEF Behind, BucketOf
    <3>2. Level'[m] = Brimful(m)
      <4>1. (now' - now') * c = 0 /\ c * Window + 0 <= c * Window
        BY <1>1, <2>1 DEF Brimful
      <4>2. Level'[m] = IF c * Window + (now' - now') * c <= c * Window
                        THEN c * Window + (now' - now') * c ELSE c * Window
        BY <1>1, <2>3 DEF Level, BucketOf, NewBucket, refill, Meter, Name, Capacity
      <4> QED BY <2>1, <4>1, <4>2 DEF Brimful
    <3> QED BY <2>1, <3>1, <3>2
  <2> QED BY <2>2, <2>3
<1>3. Level' = [m \in Meter |-> Level'[m]]
  BY DEF Level, Meter, Name
<1>4. Level' = [m \in Meter |-> IF Level[m] + Capacity[m] <= Brimful(m)
                                THEN Level[m] + Capacity[m] ELSE Brimful(m)]
  BY <1>2, <1>3
<1> QED BY <1>1, <1>4 DEF Limit!Tick, Limit!Filled, Limit!Meter, Limit!Full,
                          Level, Meter, Brimful

\* A refusal by the global bucket only refills it.
LEMMA RefuseAllLimit ==
  ASSUME BucketsInv, RefuseAll
  PROVE  UNCHANGED <<now, Level, served>>
<1> DEFINE everyone == refill(Everyone, global_bucket)
<1>1. /\ now' = now /\ served' = served /\ api_key_buckets' = api_key_buckets
      /\ global_bucket' = everyone
  BY DEF RefuseAll
<1>2. everyone \in Bucket(Everyone) /\ everyone.last_refill = now
  BY RefillProps DEF BucketsInv, Meter
<1>3. Level'[Everyone] = Level[Everyone]
  BY <1>1, <1>2, LevelOfEveryone, LevelProps DEF Behind, Meter
<1>4. \A k \in Name : Level'[k] = Level[k]
  BY <1>1, BehindStays, LevelStays DEF Meter
<1> QED BY <1>1, <1>3, <1>4, Unnoticed DEF Meter

\* A look at the tokens left refills a bucket, no more.
LEMMA GetRemainingLimit ==
  ASSUME BucketsInv, NEW name \in ApiKey, get_remaining(name)
  PROVE  UNCHANGED <<now, Level, served>>
<1> DEFINE b == refill(name, api_key_buckets[name])
<1>1. /\ now' = now /\ served' = served /\ global_bucket' = global_bucket
      /\ name \in DOMAIN api_key_buckets /\ SetBucket(name, b)
  BY DEF get_remaining
<1>2. name \in Name /\ name \in Meter /\ name # Everyone
  BY CapacityProps DEF Name, Meter
<1>3. b \in Bucket(name) /\ b.last_refill = now
  BY <1>1, <1>2, RefillProps DEF BucketsInv
<1>4. Level[name] = b.tokens
  BY <1>1, <1>2, LevelProps DEF Behind, BucketOf
<1>5. \A k \in Name : Level'[k] = Level[k]
  BY <1>1, <1>2, <1>3, <1>4, LevelOfName
<1>6. Level'[Everyone] = Level[Everyone]
  BY <1>1, LevelStays DEF Behind, Meter
<1> QED BY <1>1, <1>5, <1>6, Unnoticed DEF Meter

\* A bucket that cleanup drops is older than the window, so it would be full; so
\* is the one the name gets next.
LEMMA CleanupLimit ==
  ASSUME BucketsInv, cleanup
  PROVE  UNCHANGED <<now, Level, served>>
<1>1. /\ now' = now /\ served' = served /\ global_bucket' = global_bucket /\ now \in Nat
  BY DEF cleanup, BucketsInv
<1>2. Level'[Everyone] = Level[Everyone]
  BY <1>1, LevelStays DEF Behind, Meter
<1>3. ASSUME NEW k \in Name PROVE Level'[k] = Level[k]
  <2> DEFINE kept == {n \in DOMAIN api_key_buckets :
                        now - api_key_buckets[n].last_refill <= Stale}
  <2>1. /\ DOMAIN api_key_buckets' = kept
        /\ \A n \in kept : api_key_buckets'[n] = api_key_buckets[n]
    BY DEF cleanup
  <2>2. CASE k \in DOMAIN api_key_buckets => k \in kept
    <3>1. Behind(k)' = Behind(k)
      BY <1>1, <2>1, <2>2, BehindStays
    <3> QED BY <1>1, <3>1, LevelStays DEF Meter
  <2>3. CASE k \in DOMAIN api_key_buckets /\ k \notin kept
    <3> DEFINE b == api_key_buckets[k]
               x == now - b.last_refill
               c == Capacity[k]
    <3>0. k \in Meter /\ k # Everyone
      BY CapacityProps DEF Meter
    <3>1. b \in Bucket(k) /\ b.tokens \in 0..Brimful(k) /\ b.last_refill \in 0..now
      BY <2>3 DEF BucketsInv, Bucket
    <3>2. x \in Nat /\ Window \in Nat /\ Window <= x /\ c \in Nat /\ Brimful(k) \in Nat
      BY <1>1, <2>3, <3>0, <3>1, FullProps, LimitAssumption
    <3>3. Brimful(k) <= x * c /\ x * c \in Nat
      BY <3>2, ProductMonotone, Products DEF Brimful
    <3>4. Behind(k) = b
      BY <2>3, <3>0 DEF Behind, BucketOf
    <3>5. Level[k] = IF b.tokens + x * c <= Brimful(k) THEN b.tokens + x * c ELSE Brimful(k)
      BY <3>0, <3>4, LevelProps DEF refill, Brimful
    <3>6. Level[k] = Brimful(k)
      <4> HIDE DEF b, x, c
      <4> QED BY <3>1, <3>2, <3>3, <3>5
    <3>7. Behind(k)' = NewBucket(k)
      BY <1>1, <2>1, <2>3, <3>0 DEF Behind, BucketOf, NewBucket, Capacity, Name
    <3>8. Level'[k] = Brimful(k)
      BY <1>1, <3>0, <3>7, LevelPrime, NewBucketProps
    <3> QED BY <3>6, <3>8
  <2> QED BY <2>2, <2>3
<1> QED BY <1>1, <1>2, <1>3, Unnoticed DEF Meter

\* A request is admitted, or refused by the name's own meter, at the price that
\* Throttle says.
LEMMA RequestLimit ==
  ASSUME BucketsInv, NEW name \in Name, allow_request(name)
  PROVE  Limit!Admit(name) \/ Limit!Refuse(name)
<1> DEFINE everyone == refill(Everyone, global_bucket)
           own      == refill(name, BucketOf(name))
<1>1. /\ now' = now /\ HasToken(everyone) /\ global_bucket' = Taken(everyone)
      /\ name # Everyone /\ name \in Meter /\ Everyone \in Meter
  BY CapacityProps DEF allow_request, Meter
<1>2. /\ everyone \in Bucket(Everyone) /\ everyone.last_refill = now
      /\ Level[Everyone] = everyone.tokens
  BY <1>1, RefillProps, LevelProps DEF BucketsInv, Behind
<1>3. /\ own \in Bucket(name) /\ own.last_refill = now
      /\ Level[name] = own.tokens
  <2>1. Behind(name) = BucketOf(name)
    BY <1>1 DEF Behind
  <2> QED BY <1>1, <2>1, BehindProps, RefillProps, LevelProps DEF BucketsInv
<1>4. Level[Everyone] >= Window /\ Level'[Everyone] = Level[Everyone] - Window
  BY <1>1, <1>2, TakenProps, LevelOfEveryone DEF HasToken
<1>5. Level' = [m \in Meter |-> Level'[m]]
  BY DEF Level, Meter, Name
<1>6. CASE HasToken(own) /\ SetBucket(name, Taken(own)) /\ Serve({name, Everyone})
  <2>1. /\ Level[name] >= Window /\ Level'[name] = Level[name] - Window
        /\ \A k \in Name \ {name} : Level'[k] = Level[k]
    BY <1>1, <1>3, <1>6, TakenProps, LevelOfName DEF HasToken
  <2>2. Level' = [m \in Meter |-> IF m \in {name, Everyone} THEN Level[m] - Window
                                                            ELSE Level[m]]
    BY <1>4, <1>5, <2>1 DEF Meter
  <2>3. served' = [m \in Meter |-> IF m \in {name, Everyone} THEN Append(served[m], now)
                                                             ELSE served[m]]
    BY <1>6 DEF Serve, BucketsInv
  <2> QED BY <1>1, <1>4, <2>1, <2>2, <2>3
          DEF Limit!Admit, Limit!Charge, Limit!Meter, Level, Meter
<1>7. CASE ~HasToken(own) /\ SetBucket(name, own) /\ Serve({Everyone})
  <2>1. /\ Level[name] \in 0..Brimful(name) /\ ~(Level[name] >= Window)
        /\ \A k \in Name : Level'[k] = Level[k]
    BY <1>1, <1>3, <1>7, LevelOfName, LevelProps DEF HasToken
  <2>2. Level[name] < Window
    BY <1>1, <2>1, FullProps, CapacityProps
  <2>3. Level' = [m \in Meter |-> IF m \in {Everyone} THEN Level[m] - Window ELSE Level[m]]
    BY <1>4, <1>5, <2>1, CapacityProps DEF Meter
  <2>4. served' = [m \in Meter |-> IF m \in {Everyone} THEN Append(served[m], now)
                                                       ELSE served[m]]
    BY <1>7 DEF Serve, BucketsInv
  <2> QED BY <1>1, <1>4, <2>2, <2>3, <2>4
          DEF Limit!Refuse, Limit!Charge, Limit!Meter, Level, Meter
<1> QED BY <1>6, <1>7 DEF allow_request

\* Every step of the limiter is a step of Throttle, or none that it sees.
LEMMA StepLimit == BucketsInv /\ [LimiterNext]_limiterVars => [Limit!Next]_(Limit!vars)
<1> SUFFICES ASSUME BucketsInv, [LimiterNext]_limiterVars PROVE Limit!Next \/ UNCHANGED Limit!vars
  OBVIOUS
<1>a. UNCHANGED <<now, Level, served>> => UNCHANGED Limit!vars
  BY DEF Limit!vars, Level, Meter
<1>1. CASE Tick
  BY <1>1, TickLimit DEF Limit!Next
<1>2. CASE RefuseAll
  BY <1>2, <1>a, RefuseAllLimit
<1>3. ASSUME NEW name \in Name, allow_request(name) PROVE Limit!Next
  BY <1>3, RequestLimit DEF Limit!Next
<1>4. ASSUME NEW name \in ApiKey, get_remaining(name) PROVE UNCHANGED Limit!vars
  BY <1>4, <1>a, GetRemainingLimit
<1>5. CASE cleanup
  BY <1>5, <1>a, CleanupLimit
<1>6. CASE UNCHANGED limiterVars
  <2>1. Level' = Level
    BY <1>6 DEF limiterVars, Level, refill, BucketOf, NewBucket, Capacity, Name
  <2> QED BY <1>6, <2>1, <1>a DEF limiterVars
<1> QED BY <1>1, <1>2, <1>3, <1>4, <1>5, <1>6 DEF LimiterNext

-----------------------------------------------------------------------------
\* No bucket ever holds more than its capacity or is ahead of the clock.
THEOREM LimiterInvariant == LimiterSpec => []BucketsInv
<1>1. LimiterInit => BucketsInv
  BY InitBuckets
<1>2. BucketsInv /\ [LimiterNext]_limiterVars => BucketsInv'
  BY StepBuckets
<1> QED BY <1>1, <1>2, PTL DEF LimiterSpec

\* The buckets that allow_request makes on demand and cleanup drops decide as
\* meters that always were there: RateLimiter implements Throttle.
THEOREM LimiterImplements == LimiterSpec => ImplementsThrottle
<1>1. LimiterInit => Limit!Init
  BY InitLimit
<1>2. BucketsInv /\ [LimiterNext]_limiterVars => [Limit!Next]_(Limit!vars)
  BY StepLimit
<1>3. LimiterSpec => []BucketsInv
  BY LimiterInvariant
<1> QED BY <1>1, <1>2, <1>3, PTL DEF LimiterSpec, ImplementsThrottle, Limit!Spec

-----------------------------------------------------------------------------
(* What the meters keep. *)

\* No step changes what there are meters for and how much they hold.
LEMMA Fixed ==
  /\ Capacity' = Capacity /\ Name' = Name /\ Limit!Meter' = Limit!Meter
  /\ \A m \in Limit!Meter : (Limit!Full(m))' = Limit!Full(m)
BY DEF Capacity, Name, Limit!Meter, Limit!Full

\* What the types say of one meter.
LEMMA MeterTypes ==
  ASSUME Limit!TypeOK, NEW m \in Limit!Meter
  PROVE  /\ Capacity[m] \in Nat /\ Window \in Nat
         /\ Limit!Full(m) = Capacity[m] * Window /\ Limit!Full(m) \in Nat
         /\ Level[m] \in Nat /\ now \in Nat
         /\ served[m] \in Seq(Nat) /\ Len(served[m]) \in Nat
         /\ DOMAIN served[m] = 1..Len(served[m])
         /\ \A i \in DOMAIN served[m] : served[m][i] \in Nat
<1>1. Capacity[m] \in Nat /\ Window \in Nat
  BY LimitMetered DEF Limit!Metered
<1>2. Level[m] \in Nat /\ now \in Nat /\ served[m] \in Seq(Nat)
  BY LimitMetered DEF Limit!TypeOK, Limit!Metered
<1>3. Len(served[m]) \in Nat /\ DOMAIN served[m] = 1..Len(served[m])
  BY <1>2, LenProperties
<1>4. \A i \in DOMAIN served[m] : served[m][i] \in Nat
  BY <1>2, ElementOfSeq, <1>3
<1>5. Limit!Full(m) = Capacity[m] * Window /\ Limit!Full(m) \in Nat
  BY <1>1 DEF Limit!Full
<1> QED BY <1>1, <1>2, <1>3, <1>4, <1>5

-----------------------------------------------------------------------------
(* The invariant *)

\* Every meter starts full and has let nothing pass.
LEMMA InitThrottle ==
  ASSUME Limit!Init
  PROVE  Limit!ThrottleInv
<1>1. \A m \in Limit!Meter : Level[m] = Limit!Full(m) /\ served[m] = <<>> /\ DOMAIN served[m] = {}
  BY DEF Limit!Init
<1>2. Limit!TypeOK
  <2>1. \A m \in Limit!Meter : Limit!Full(m) \in Nat
    BY LimitMetered DEF Limit!Full, Limit!Metered
  <2>2. Level \in [Limit!Meter -> Nat]
    BY <2>1 DEF Limit!Init
  <2>3. served \in [Limit!Meter -> Seq(Nat)]
    BY DEF Limit!Init
  <2> QED BY <2>2, <2>3, LimitMetered DEF Limit!TypeOK, Limit!Init, Limit!Metered
<1>3. Limit!Budget
  <2>1. \A m \in Limit!Meter : Limit!Full(m) \in Nat
    BY LimitMetered DEF Limit!Full, Limit!Metered
  <2> QED BY <1>1, <2>1 DEF Limit!Budget
<1>4. Limit!Regained /\ Limit!RateKept
  BY <1>1 DEF Limit!Regained, Limit!RateKept
<1> QED BY <1>2, <1>3, <1>4 DEF Limit!ThrottleInv

\* A second passes: every meter gains its capacity, as far as it fits.
LEMMA TickThrottle ==
  ASSUME Limit!ThrottleInv, Limit!Tick
  PROVE  Limit!ThrottleInv'
<1>1. Limit!TypeOK /\ Limit!Budget /\ Limit!Regained /\ Limit!RateKept
  BY DEF Limit!ThrottleInv
<1>2. now' = now + 1 /\ served' = served /\ Level' = [m \in Limit!Meter |-> Limit!Filled(m)]
  BY DEF Limit!Tick
<1>3. ASSUME NEW m \in Limit!Meter
      PROVE  /\ Limit!Filled(m) \in Nat
             /\ Limit!Filled(m) <= Limit!Full(m)
             /\ Limit!Filled(m) <= Level[m] + Capacity[m]
             /\ Limit!Filled(m) = Limit!Full(m) \/ Limit!Filled(m) = Level[m] + Capacity[m]
  <2>1. Capacity[m] \in Nat /\ Level[m] \in Nat /\ Limit!Full(m) \in Nat /\ Level[m] <= Limit!Full(m)
    BY <1>1, MeterTypes DEF Limit!Budget
  <2> HIDE DEF Limit!Full
  <2> QED BY <2>1 DEF Limit!Filled
<1>4. Limit!TypeOK'
  <2>1. Level' \in [Limit!Meter -> Nat]
    BY <1>2, <1>3
  <2>2. now' \in 0..MaxTime
    BY <1>1, LimitMetered DEF Limit!Tick, Limit!TypeOK, Limit!Metered
  <2> QED BY <1>1, <1>2, <2>1, <2>2 DEF Limit!TypeOK
<1>5. Limit!Budget'
  <2> SUFFICES ASSUME NEW m \in Limit!Meter
               PROVE  /\ Limit!Filled(m) <= Limit!Full(m)
                      /\ \A i \in DOMAIN served[m] :
                           (Len(served[m]) - i + 1) * Window + Limit!Filled(m)
                             <= Capacity[m] * (Window + (now + 1) - served[m][i])
    BY <1>2 DEF Limit!Budget, Limit!Full
  <2> SUFFICES ASSUME NEW i \in DOMAIN served[m]
               PROVE  (Len(served[m]) - i + 1) * Window + Limit!Filled(m)
                        <= Capacity[m] * (Window + (now + 1) - served[m][i])
    BY <1>3
  <2> DEFINE used == (Len(served[m]) - i + 1) * Window
             span == Window + now - served[m][i]
  <2>1. /\ Capacity[m] \in Nat /\ Window \in Nat /\ now \in Nat /\ served[m][i] \in Nat
        /\ Len(served[m]) \in Nat /\ i \in Nat /\ Level[m] \in Nat
    BY <1>1, MeterTypes
  <2>2. used \in Int /\ span \in Int /\ Window + (now + 1) - served[m][i] = span + 1
    <3>1. PICK n \in Nat, w \in Nat, s \in Nat, c \in Nat :
             n = Len(served[m]) /\ w = Window /\ s = served[m][i] /\ c = now
      BY <2>1
    <3>2. i \in Nat
      BY <2>1
    <3>3. n - i + 1 \in Int /\ w + c - s \in Int /\ w + (c + 1) - s = (w + c - s) + 1
      BY <3>1, <3>2
    <3>4. (n - i + 1) * w \in Int
      BY <3>1, <3>3
    <3> QED BY <3>1, <3>3, <3>4
  <2>3. used + Level[m] <= Capacity[m] * span
    BY <1>1 DEF Limit!Budget
  <2>4. Capacity[m] * (span + 1) = Capacity[m] * span + Capacity[m]
    <3>1. \A c \in Int, x \in Int : c * (x + 1) = c * x + c
      BY OneMore
    <3>2. Capacity[m] \in Int
      BY <2>1
    <3> HIDE DEF span
    <3> QED BY <2>2, <3>1, <3>2, Zenon
  <2>5. Capacity[m] * span \in Int
    <3>1. \A c \in Nat, x \in Int : c * x \in Int
      OBVIOUS
    <3> HIDE DEF span
    <3> QED BY <2>1, <2>2, <3>1
  <2> HIDE DEF used, span
  <2>6. used + Limit!Filled(m) <= Capacity[m] * (span + 1)
    <3> DEFINE p == Capacity[m] * span
               q == Capacity[m] * (span + 1)
    <3>1. p \in Int /\ q = p + Capacity[m] /\ used + Level[m] <= p
      BY <2>3, <2>4, <2>5
    <3>2. used \in Int /\ Level[m] \in Int /\ Capacity[m] \in Int /\ Limit!Filled(m) \in Int
      BY <2>1, <2>2, <1>3
    <3>3. Limit!Filled(m) <= Level[m] + Capacity[m]
      BY <1>3
    <3> HIDE DEF p, q
    <3>4. used + Limit!Filled(m) <= q
      BY <3>1, <3>2, <3>3
    <3> QED BY <3>4 DEF q
  <2> QED BY <2>2, <2>6 DEF used
<1>6. Limit!Regained'
  <2> SUFFICES ASSUME NEW m \in Limit!Meter
               PROVE  \/ Limit!Filled(m) = Limit!Full(m)
                      \/ \E i \in DOMAIN served[m] :
                           Limit!Filled(m) >= Capacity[m] * ((now + 1) - served[m][i])
    BY <1>2 DEF Limit!Regained, Limit!Full
  <2>1. CASE Limit!Filled(m) = Limit!Full(m)
    BY <2>1
  <2>2. CASE Limit!Filled(m) = Level[m] + Capacity[m]
    <3>1. /\ Capacity[m] \in Nat /\ Limit!Full(m) \in Nat /\ Level[m] \in Nat /\ now \in Nat
          /\ \A i \in DOMAIN served[m] : served[m][i] \in Nat
      BY <1>1, MeterTypes
    <3>2. CASE Level[m] = Limit!Full(m)
      <4> HIDE DEF Limit!Full
      <4> QED BY <3>1, <3>2, <1>3
    <3>3. ASSUME NEW i \in DOMAIN served[m],
                 Level[m] >= Capacity[m] * (now - served[m][i])
          PROVE  Limit!Filled(m) >= Capacity[m] * ((now + 1) - served[m][i])
      <4> DEFINE x == now - served[m][i]
      <4>1. x \in Int /\ (now + 1) - served[m][i] = x + 1
        BY <3>1
      <4>2. Capacity[m] * (x + 1) = Capacity[m] * x + Capacity[m] /\ Capacity[m] * x \in Int
        BY <3>1, <4>1, OneMore
      <4>3. Level[m] >= Capacity[m] * x
        BY <3>3
      <4> HIDE DEF x
      <4>4. Limit!Filled(m) >= Capacity[m] * x + Capacity[m]
        BY <2>2, <3>1, <4>2, <4>3
      <4> QED BY <4>1, <4>2, <4>4
    <3> QED BY <1>1, <3>2, <3>3, <2>1 DEF Limit!Regained
  <2> QED BY <1>3, <2>1, <2>2
<1>7. Limit!RateKept'
  BY <1>1, <1>2 DEF Limit!RateKept
<1> QED BY <1>4, <1>5, <1>6, <1>7 DEF Limit!ThrottleInv

\* A request that a meter lets pass costs a token and is put on its record.
LEMMA ChargedMeter ==
  ASSUME Limit!TypeOK, NEW M, Limit!Charge(M), NEW m \in Limit!Meter, m \in M
  PROVE  /\ Level[m] >= Window
         /\ Level'[m] = Level[m] - Window
         /\ Level'[m] \in Nat
         /\ served'[m] \in Seq(Nat)
         /\ Len(served'[m]) = Len(served[m]) + 1
         /\ DOMAIN served'[m] = 1..Len(served[m]) + 1
         /\ served'[m][Len(served[m]) + 1] = now
         /\ \A i \in DOMAIN served[m] : served'[m][i] = served[m][i]
<1>1. Level[m] >= Window /\ Level'[m] = Level[m] - Window /\ served'[m] = Append(served[m], now)
  BY DEF Limit!Charge
<1>2. Level[m] \in Nat /\ Window \in Nat /\ served[m] \in Seq(Nat) /\ now \in Nat
      /\ Len(served[m]) \in Nat /\ DOMAIN served[m] = 1..Len(served[m])
  BY MeterTypes
<1>3. Level'[m] \in Nat
  BY <1>1, <1>2
<1>4. /\ Append(served[m], now) \in Seq(Nat)
      /\ Len(Append(served[m], now)) = Len(served[m]) + 1
      /\ Append(served[m], now)[Len(served[m]) + 1] = now
      /\ \A i \in 1..Len(served[m]) : Append(served[m], now)[i] = served[m][i]
  BY <1>2, AppendProperties
<1>5. DOMAIN Append(served[m], now) = 1..Len(served[m]) + 1
  BY <1>4, LenProperties
<1> QED BY <1>1, <1>2, <1>3, <1>4, <1>5

\* The other meters stay as they are.
LEMMA UnchargedMeter ==
  ASSUME NEW M, Limit!Charge(M), NEW m \in Limit!Meter, m \notin M
  PROVE  Level'[m] = Level[m] /\ served'[m] = served[m]
BY DEF Limit!Charge

\* A request passes, whichever meters it is charged to.
LEMMA ChargeThrottle ==
  ASSUME Limit!ThrottleInv, NEW M, Limit!Charge(M)
  PROVE  Limit!ThrottleInv'
<1>1. Limit!TypeOK /\ Limit!Budget /\ Limit!Regained /\ Limit!RateKept
  BY DEF Limit!ThrottleInv
<1>2. now' = now
  BY DEF Limit!Charge
<1>3. Limit!TypeOK'
  <2>1. \A m \in Limit!Meter : Level'[m] \in Nat /\ served'[m] \in Seq(Nat)
    <3> TAKE m \in Limit!Meter
    <3>1. CASE m \in M
      BY <3>1, <1>1, ChargedMeter
    <3>2. CASE m \notin M
      BY <3>2, <1>1, UnchargedMeter, MeterTypes
    <3> QED BY <3>1, <3>2
  <2>2. /\ Level' = [m \in Limit!Meter |-> Level'[m]]
        /\ served' = [m \in Limit!Meter |-> served'[m]]
    BY DEF Limit!Charge
  <2>3. Level' \in [Limit!Meter -> Nat] /\ served' \in [Limit!Meter -> Seq(Nat)]
    BY <2>1, <2>2
  <2> QED BY <1>1, <1>2, <2>3 DEF Limit!TypeOK
<1>4. ASSUME NEW m \in Limit!Meter, m \in M, NEW i \in DOMAIN served'[m]
      PROVE  (Len(served'[m]) - i + 1) * Window + Level'[m]
               <= Capacity[m] * (Window + now - served'[m][i])
  <2>1. /\ Capacity[m] \in Nat /\ Window \in Nat /\ now \in Nat
        /\ Limit!Full(m) = Capacity[m] * Window /\ Limit!Full(m) \in Nat
        /\ Len(served[m]) \in Nat /\ Level[m] \in Nat
        /\ DOMAIN served[m] = 1..Len(served[m])
        /\ \A k \in DOMAIN served[m] : served[m][k] \in Nat
    BY <1>1, MeterTypes
  <2>2. /\ Level'[m] = Level[m] - Window
        /\ Len(served'[m]) = Len(served[m]) + 1
        /\ DOMAIN served'[m] = 1..Len(served[m]) + 1
        /\ served'[m][Len(served[m]) + 1] = now
        /\ \A k \in DOMAIN served[m] : served'[m][k] = served[m][k]
    BY <1>1, <1>4, ChargedMeter
  <2>3. CASE i = Len(served[m]) + 1
    <3>1. Len(served'[m]) - i + 1 = 1 /\ Window + now - served'[m][i] = Window
      BY <2>1, <2>2, <2>3
    <3>2. Level[m] <= Capacity[m] * Window
      BY <1>1, <2>1 DEF Limit!Budget
    <3>3. 1 * Window + (Level[m] - Window) = Level[m]
      BY <2>1
    <3> QED BY <2>2, <3>1, <3>2, <3>3
  <2>4. CASE i \in DOMAIN served[m]
    <3> DEFINE n == Len(served[m]) - i + 1
               bound == Capacity[m] * (Window + now - served[m][i])
    <3>1. n * Window + Level[m] <= bound
      BY <1>1, <2>4 DEF Limit!Budget
    <3>2. n \in Int /\ bound \in Int
      <4>1. served[m][i] \in Nat /\ i \in Nat
        BY <2>1, <2>4
      <4>2. Window + now - served[m][i] \in Int
        BY <2>1, <4>1
      <4> QED BY <2>1, <4>1, <4>2
    <3>3. Len(served'[m]) - i + 1 = n + 1
      BY <2>1, <2>2, <2>4
    <3>4. Capacity[m] * (Window + now - served'[m][i]) = bound
      BY <2>2, <2>4
    <3> HIDE DEF n, bound
    <3>5. (n + 1) * Window = n * Window + Window /\ n * Window \in Int
      BY <3>2, <2>1
    <3>6. (n + 1) * Window + (Level[m] - Window) <= bound
      <4> DEFINE p == n * Window
                 q == (n + 1) * Window
      <4>1. p \in Int /\ q = p + Window /\ p + Level[m] <= bound
        BY <3>1, <3>5
      <4> HIDE DEF p, q
      <4>2. q + (Level[m] - Window) <= bound
        BY <4>1, <3>2, <2>1
      <4> QED BY <4>2 DEF q
    <3> QED BY <2>2, <3>3, <3>4, <3>6
  <2> QED BY <2>1, <2>2, <2>3, <2>4
<1>5. Limit!Budget'
  <2> SUFFICES ASSUME NEW m \in Limit!Meter
               PROVE  /\ Level'[m] <= Limit!Full(m)
                      /\ \A i \in DOMAIN served'[m] :
                           (Len(served'[m]) - i + 1) * Window + Level'[m]
                             <= Capacity[m] * (Window + now - served'[m][i])
    BY <1>2 DEF Limit!Budget, Limit!Full
  <2>1. CASE m \in M
    <3>1. Level[m] <= Limit!Full(m) /\ Level[m] \in Nat /\ Limit!Full(m) \in Nat /\ Window \in Nat
      BY <1>1, MeterTypes DEF Limit!Budget
    <3>2. Level'[m] = Level[m] - Window
      BY <2>1, <1>1, ChargedMeter
    <3> HIDE DEF Limit!Full
    <3>3. Level'[m] <= Limit!Full(m)
      BY <3>1, <3>2
    <3> QED BY <3>3, <2>1, <1>4
  <2>2. CASE m \notin M
    BY <2>2, <1>1, UnchargedMeter DEF Limit!Budget
  <2> QED BY <2>1, <2>2
<1>6. Limit!Regained'
  <2> SUFFICES ASSUME NEW m \in Limit!Meter
               PROVE  \/ Level'[m] = Limit!Full(m)
                      \/ \E i \in DOMAIN served'[m] :
                           Level'[m] >= Capacity[m] * (now - served'[m][i])
    BY <1>2 DEF Limit!Regained, Limit!Full
  <2>1. CASE m \in M
    <3> DEFINE i == Len(served[m]) + 1
    <3>1. i \in DOMAIN served'[m] /\ served'[m][i] = now /\ Level'[m] \in Nat
      BY <2>1, <1>1, ChargedMeter, MeterTypes
    <3>2. Capacity[m] * (now - now) = 0
      BY <1>1, MeterTypes
    <3> HIDE DEF i
    <3>3. Level'[m] >= Capacity[m] * (now - served'[m][i])
      BY <3>1, <3>2
    <3> QED BY <3>1, <3>3
  <2>2. CASE m \notin M
    BY <2>2, <1>1, UnchargedMeter DEF Limit!Regained
  <2> QED BY <2>1, <2>2
<1>7. Limit!RateKept'
  <2> SUFFICES ASSUME NEW m \in Limit!Meter, NEW j \in DOMAIN served'[m], NEW i \in 1..j
               PROVE  (j - i + 1) * Window
                        <= Capacity[m] * (Window + served'[m][j] - served'[m][i])
    BY DEF Limit!RateKept
  <2>1. CASE m \in M
    <3>1. /\ Len(served[m]) \in Nat
          /\ DOMAIN served[m] = 1..Len(served[m])
          /\ Len(served'[m]) = Len(served[m]) + 1
          /\ DOMAIN served'[m] = 1..Len(served[m]) + 1
          /\ served'[m][Len(served[m]) + 1] = now
          /\ Level'[m] \in Nat
          /\ \A k \in DOMAIN served[m] : served'[m][k] = served[m][k]
      BY <2>1, <1>1, ChargedMeter, MeterTypes
    <3>2. CASE j = Len(served[m]) + 1
      <4>1. i \in DOMAIN served'[m]
        BY <3>1, <3>2
      <4> DEFINE p == (j - i + 1) * Window
                 q == Capacity[m] * (Window + now - served'[m][i])
      <4>2. p + Level'[m] <= q
        BY <4>1, <2>1, <1>4, <3>1, <3>2
      <4>3. p \in Int /\ q \in Int
        <5>1. served'[m] \in Seq(Nat)
          BY <2>1, <1>1, ChargedMeter
        <5>2. served'[m][i] \in Nat
          BY <5>1, <4>1, <3>1, ElementOfSeq
        <5>3. Capacity[m] \in Nat /\ Window \in Nat /\ now \in Nat /\ j \in Nat /\ i \in Nat
          BY <1>1, MeterTypes, <3>1, <3>2
        <5>4. Window + now - served'[m][i] \in Int /\ j - i + 1 \in Int
          BY <5>2, <5>3
        <5> QED BY <5>3, <5>4
      <4> HIDE DEF p, q
      <4>4. p <= q
        BY <4>2, <4>3, <3>1
      <4> QED BY <4>4, <3>1, <3>2 DEF p, q
    <3>3. CASE j \in DOMAIN served[m]
      <4>1. i \in DOMAIN served[m] /\ served'[m][i] = served[m][i] /\ served'[m][j] = served[m][j]
        BY <3>1, <3>3
      <4>2. (j - i + 1) * Window <= Capacity[m] * (Window + served[m][j] - served[m][i])
        BY <3>3, <1>1 DEF Limit!RateKept
      <4> QED BY <4>1, <4>2
    <3> QED BY <3>1, <3>2, <3>3
  <2>2. CASE m \notin M
    BY <2>2, <1>1, UnchargedMeter DEF Limit!RateKept
  <2> QED BY <2>1, <2>2
<1> QED BY <1>3, <1>5, <1>6, <1>7 DEF Limit!ThrottleInv

-----------------------------------------------------------------------------
(* The theorems of the meters *)

\* Every step of the meters keeps their invariant.
LEMMA StepThrottle == Limit!ThrottleInv /\ [Limit!Next]_(Limit!vars) => Limit!ThrottleInv'
<1> SUFFICES ASSUME Limit!ThrottleInv, [Limit!Next]_(Limit!vars) PROVE Limit!ThrottleInv'
  OBVIOUS
<1>1. CASE Limit!Tick
  BY <1>1, TickThrottle
<1>2. ASSUME NEW n \in Name, Limit!Admit(n) PROVE Limit!ThrottleInv'
  BY <1>2, ChargeThrottle DEF Limit!Admit
<1>3. ASSUME NEW n \in Name, Limit!Refuse(n) PROVE Limit!ThrottleInv'
  BY <1>3, ChargeThrottle DEF Limit!Refuse
<1>4. CASE UNCHANGED Limit!vars
  BY <1>4, Fixed DEF Limit!vars, Limit!ThrottleInv, Limit!TypeOK, Limit!Budget, Limit!Regained,
                     Limit!RateKept
<1> QED BY <1>1, <1>2, <1>3, <1>4 DEF Limit!Next, Limit!RefuseAll

\* What the meters hold, what they let pass and when add up: the invariant of Throttle, of the
\* levels that the limiter's buckets show.
THEOREM MeterInvariant == LimiterSpec => []Limit!ThrottleInv
<1>1. LimiterSpec => Limit!Spec
  BY LimiterImplements DEF ImplementsThrottle
<1> QED BY <1>1, InitThrottle, StepThrottle, PTL DEF Limit!Spec

\* allow_request keeps every bucket to its rate: in any stretch of time it lets no more requests
\* pass than it holds and gains.
THEOREM LimiterRateKept == LimiterSpec => []RateKept
<1>1. Limit!ThrottleInv => RateKept
  BY DEF Limit!ThrottleInv, RateKept
<1> QED BY <1>1, MeterInvariant, PTL

\* The bucket of a caller not served for a window is full, so the Retry-After of the 429 answer in
\* POST /log is long enough for the caller's own bucket; the bucket of all may still refuse.
THEOREM LimiterRecovers == LimiterSpec => []Recovers
<1>1. Limit!ThrottleInv => Recovers
  <2> SUFFICES ASSUME Limit!ThrottleInv, NEW n \in Name,
                      \A i \in DOMAIN served[n] : served[n][i] + Window <= now
               PROVE  Level[n] = Limit!Full(n)
    BY DEF Recovers, Limit!Recovers
  <2>1. n \in Limit!Meter
    BY DEF Limit!Meter
  <2>2. /\ Capacity[n] \in Nat /\ Window \in Nat /\ now \in Nat /\ Level[n] \in Nat
        /\ Limit!Full(n) = Capacity[n] * Window /\ Limit!Full(n) \in Nat
        /\ \A i \in DOMAIN served[n] : served[n][i] \in Nat
    BY <2>1, MeterTypes DEF Limit!ThrottleInv
  <2>3. Level[n] <= Limit!Full(n)
    BY <2>1 DEF Limit!ThrottleInv, Limit!Budget
  <2>4. ASSUME NEW i \in DOMAIN served[n],
               Level[n] >= Capacity[n] * (now - served[n][i])
        PROVE  Level[n] = Limit!Full(n)
    <3> DEFINE x == now - served[n][i]
    <3>1. x \in Nat /\ Window <= x /\ Level[n] >= Capacity[n] * x
      BY <2>2, <2>4
    <3> HIDE DEF x
    <3>2. Window * Capacity[n] <= x * Capacity[n]
      BY <2>2, <3>1, ProductMonotone
    <3>3. /\ Window * Capacity[n] = Capacity[n] * Window /\ x * Capacity[n] = Capacity[n] * x
          /\ Capacity[n] * x \in Nat
      BY <2>2, <3>1, Products
    <3> DEFINE p == Capacity[n] * x
    <3>4. p \in Nat /\ Limit!Full(n) <= p /\ Level[n] >= p
      BY <2>2, <3>1, <3>2, <3>3
    <3> HIDE DEF p
    <3> QED BY <3>4, <2>2, <2>3
  <2> QED BY <2>1, <2>4 DEF Limit!ThrottleInv, Limit!Regained
<1> QED BY <1>1, MeterInvariant, PTL
=============================================================================
