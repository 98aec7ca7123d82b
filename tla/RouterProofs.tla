--------------------------- MODULE RouterProofs ---------------------------
(***************************************************************************)
(* The router, for every table of rules: the tries it keeps, and what a    *)
(* lookup in them finds.  The names of static files.  What POST /log       *)
(* stores of the calls of the SDK.                                         *)
(***************************************************************************)
EXTENDS Requests, SequenceTheorems, FiniteSetTheorems, NaturalsInduction, WellFoundedInduction, TLAPS

-----------------------------------------------------------------------------
(* Induction and recursion over ranks. *)

\* The order of Nat as a relation, for the induction theorems.
LessNat == {ss \in Nat \X Nat : ss[1] < ss[2]}

\* A set of naturals that is not empty has a least member.
LEMMA Least == ASSUME NEW S \in SUBSET Nat, S # {} PROVE \E x \in S : \A y \in S : x <= y
<1>1. IsWellFoundedOn(LessNat, Nat)
  BY NatLessThanWellFounded DEF OpToRel, LessNat
<1>2. \E x \in S : \A y \in S : ~(<<y, x>> \in LessNat)
  BY <1>1, WFMin
<1>3. ASSUME NEW x \in S, NEW y \in S, ~(<<y, x>> \in LessNat) PROVE x <= y
  <2>1. <<y, x>> \in Nat \X Nat
    OBVIOUS
  <2>2. ~(<<y, x>>[1] < <<y, x>>[2])
    BY <2>1, <1>3 DEF LessNat
  <2> QED BY <2>2
<1> QED BY <1>2, <1>3

\* Induction over Nat: a set that holds 0 and n + 1 with n holds all.
LEMMA NatInd == ASSUME NEW S \in SUBSET Nat, 0 \in S, \A n \in S : n + 1 \in S PROVE S = Nat
<1> SUFFICES ASSUME Nat \ S # {} PROVE FALSE
  OBVIOUS
<1>1. PICK x \in Nat \ S : \A y \in Nat \ S : x <= y
  <2>1. Nat \ S \in SUBSET Nat
    OBVIOUS
  <2> QED BY <2>1, Least
<1>2. x # 0 /\ x - 1 \in Nat
  OBVIOUS
<1>3. x - 1 \in S
  BY <1>1, <1>2
<1>4. (x - 1) + 1 = x
  BY <1>1
<1> QED BY <1>1, <1>3, <1>4

\* What S holds of all of smaller rank it holds of x too.
Inherited(D, S, rank) ==
  /\ rank \in [D -> Nat]
  /\ \A x \in D : (\A y \in D : rank[y] < rank[x] => y \in S) => x \in S

\* Induction over a set with a rank: the pages of a tree, by their height.
LEMMA RankInd ==
  ASSUME NEW D, NEW S, NEW rank, Inherited(D, S, rank)
  PROVE  D \subseteq S
<1>0. /\ rank \in [D -> Nat]
      /\ \A x \in D : (\A y \in D : rank[y] < rank[x] => y \in S) => x \in S
  BY DEF Inherited
<1> SUFFICES ASSUME NEW bad \in D \ S PROVE FALSE
  OBVIOUS
<1> DEFINE M == {rank[x] : x \in D \ S}
<1>1. M \in SUBSET Nat /\ M # {}
  BY <1>0
<1> HIDE DEF M
<1>2. PICK m \in M : \A y \in M : m <= y
  BY <1>1, Least
<1>3. PICK x \in D \ S : rank[x] = m
  BY <1>2 DEF M
<1>4. ASSUME NEW y \in D, rank[y] < rank[x] PROVE y \in S
  <2> SUFFICES ASSUME y \notin S PROVE FALSE
    OBVIOUS
  <2>1. rank[y] \in M
    BY DEF M
  <2>2. m <= rank[y]
    BY <2>1, <1>2
  <2>3. m \in Nat /\ rank[y] \in Nat
    BY <1>0, <1>1
  <2> QED BY <2>2, <2>3, <1>3, <1>4
<1> QED BY <1>0, <1>3, <1>4

\* F[f] at x depends only on what f is for smaller ranks.
Recurses(D, V, rank, F) ==
  /\ rank \in [D -> Nat]
  /\ V # {}
  /\ F \in [[D -> V] -> [D -> V]]
  /\ \A f, g \in [D -> V] : \A x \in D :
        (\A y \in D : rank[y] < rank[x] => f[y] = g[y]) => F[f][x] = F[g][x]

\* A definition that refers only to smaller ranks has a solution.
LEMMA Recursion ==
  ASSUME NEW D, NEW V, NEW rank, NEW F, Recurses(D, V, rank, F)
  PROVE  \E f \in [D -> V] : f = F[f]
<1>0. /\ rank \in [D -> Nat]
      /\ V # {}
      /\ F \in [[D -> V] -> [D -> V]]
      /\ \A f, g \in [D -> V] : \A x \in D :
            (\A y \in D : rank[y] < rank[x] => f[y] = g[y]) => F[f][x] = F[g][x]
  BY DEF Recurses
<1> DEFINE Upto(n, f) == \A x \in D : rank[x] < n => f[x] = F[f][x]
           Approx == {n \in Nat : \E f \in [D -> V] : Upto(n, f)}
<1>1. 0 \in Approx
  <2>0. PICK v0 : v0 \in V
    <3>1. V # {}
      BY <1>0
    <3>2. \E v : v \in V
      BY <3>1, Zenon
    <3> QED BY <3>2
  <2>1. [x \in D |-> v0] \in [D -> V]
    BY <2>0
  <2>2. Upto(0, [x \in D |-> v0])
    <3>1. \A x \in D : ~(rank[x] < 0)
      BY <1>0
    <3> QED BY <3>1
  <2> QED BY <2>1, <2>2
<1>2. ASSUME NEW n \in Approx PROVE n + 1 \in Approx
  <2>1. PICK f \in [D -> V] : Upto(n, f)
    OBVIOUS
  <2>2. F[f] \in [D -> V]
    BY <1>0
  <2>3. ASSUME NEW x \in D, rank[x] < n + 1 PROVE F[f][x] = F[F[f]][x]
    <3>0. rank[x] \in Nat /\ n \in Nat /\ \A y \in D : rank[y] \in Nat
      BY <1>0
    <3>1. \A y \in D : rank[y] < rank[x] => f[y] = F[f][y]
      BY <2>1, <2>3, <3>0
    <3> QED BY <3>1, <2>2, <1>0
  <2>4. Upto(n + 1, F[f])
    BY <2>3
  <2> QED BY <2>2, <2>4
<1>3. Approx = Nat
  <2> HIDE DEF Approx
  <2>1. Approx \in SUBSET Nat
    BY DEF Approx
  <2> QED BY <1>1, <1>2, <2>1, NatInd
<1>4. ASSUME NEW n \in Nat, NEW m \in Nat, n <= m,
             NEW f \in [D -> V], NEW g \in [D -> V], Upto(n, f), Upto(m, g)
      PROVE  \A x \in D : rank[x] < n => f[x] = g[x]
  <2> DEFINE Same == {x \in D : rank[x] < n => f[x] = g[x]}
  <2>1. ASSUME NEW x \in D, \A y \in D : rank[y] < rank[x] => y \in Same PROVE x \in Same
    <3> SUFFICES ASSUME rank[x] < n PROVE f[x] = g[x]
      OBVIOUS
    <3>0. rank[x] \in Nat /\ \A y \in D : rank[y] \in Nat
      BY <1>0
    <3>1. \A y \in D : rank[y] < rank[x] => f[y] = g[y]
      BY <2>1, <3>0
    <3>2. F[f][x] = F[g][x]
      BY <3>1, <1>0
    <3> QED BY <3>0, <3>2, <1>4
  <2>2. D \subseteq Same
    <3> HIDE DEF Same
    <3>1. Inherited(D, Same, rank)
      BY <2>1, <1>0 DEF Inherited
    <3> QED BY <3>1, RankInd
  <2> QED BY <2>2
<1> DEFINE A[n \in Nat] == CHOOSE f \in [D -> V] : Upto(n, f)
<1>5. \A n \in Nat : A[n] \in [D -> V] /\ Upto(n, A[n])
  <2> TAKE n \in Nat
  <2>1. \E f \in [D -> V] : Upto(n, f)
    BY <1>3
  <2>2. A[n] = CHOOSE f \in [D -> V] : Upto(n, f)
    OBVIOUS
  <2> HIDE DEF A, Upto
  <2> QED BY <2>1, <2>2
<1> HIDE DEF A
<1> DEFINE f == [x \in D |-> A[rank[x] + 1][x]]
<1>6. f \in [D -> V]
  BY <1>5, <1>0
<1>7. ASSUME NEW x \in D PROVE f[x] = F[f][x]
  <2> DEFINE g == A[rank[x] + 1]
  <2>0. rank[x] \in Nat /\ rank[x] + 1 \in Nat /\ g \in [D -> V] /\ Upto(rank[x] + 1, g)
    BY <1>5, <1>0
  <2>1. ASSUME NEW y \in D, rank[y] < rank[x] PROVE f[y] = g[y]
    <3>0. rank[y] \in Nat
      BY <1>0
    <3>1. /\ rank[y] + 1 \in Nat /\ rank[y] + 1 <= rank[x] + 1
          /\ A[rank[y] + 1] \in [D -> V] /\ Upto(rank[y] + 1, A[rank[y] + 1])
      BY <3>0, <2>0, <1>5, <2>1
    <3>2. rank[y] < rank[y] + 1
      BY <3>0
    <3> HIDE DEF Upto, g
    <3> QED BY <3>1, <3>2, <2>0, <1>4
  <2>2. F[f][x] = F[g][x]
    <3>1. f \in [D -> V] /\ g \in [D -> V]
      BY <1>6, <2>0
    <3> HIDE DEF f, g
    <3> QED BY <2>1, <3>1, <1>0
  <2>3. f[x] = g[x] /\ g[x] = F[g][x]
    BY <2>0
  <2> QED BY <2>2, <2>3
<1>8. F[f] \in [D -> V]
  BY <1>6, <1>0
<1> HIDE DEF f
<1>9. f = F[f]
  BY <1>6, <1>7, <1>8
<1> QED BY <1>6, <1>9


\* So has a set of naturals up to a bound a largest one.
LEMMA Greatest ==
  ASSUME NEW n \in Nat, NEW S \in SUBSET (0..n), S # {}
  PROVE  \E x \in S : \A y \in S : y <= x
<1> DEFINE M == {n - x : x \in S}
<1>1. M \in SUBSET Nat /\ M # {}
  OBVIOUS
<1> HIDE DEF M
<1>2. PICK m \in M : \A y \in M : m <= y
  BY <1>1, Least
<1>3. PICK x \in S : m = n - x
  BY <1>2 DEF M
<1>4. \A y \in S : n - x <= n - y
  BY <1>2, <1>3 DEF M
<1> QED BY <1>4

-----------------------------------------------------------------------------
(* What a node takes of a URL. *)

\* The URL from a place on.
LEMMA FromProps ==
  ASSUME NEW U, NEW url \in Seq(U), NEW n \in 1..Len(url) + 1
  PROVE  /\ From(url, n) \in Seq(U)
         /\ Len(From(url, n)) = Len(url) - n + 1
         /\ \A i \in 1..Len(url) - n + 1 : From(url, n)[i] = url[n + i - 1]
<1>1. Len(url) \in Nat /\ n \in Int /\ \A i \in n..Len(url) : url[i] \in U
  BY ElementOfSeq, LenProperties
<1>2. (IF n <= Len(url) THEN Len(url) - n + 1 ELSE 0) = Len(url) - n + 1
  BY <1>1
<1> QED BY <1>1, <1>2, SubSeqProperties DEF From

\* Span is the length of the longest prefix within the characters.
LEMMA SpanProps ==
  ASSUME NEW U, NEW url \in Seq(U), NEW chars
  PROVE  /\ Span(url, chars) \in 0..Len(url)
         /\ \A i \in 1..Span(url, chars) : url[i] \in chars
         /\ Span(url, chars) < Len(url) => url[Span(url, chars) + 1] \notin chars
<1> DEFINE S == {n \in 0..Len(url) : \A i \in 1..n : url[i] \in chars}
<1>0. Len(url) \in Nat
  BY LenProperties
<1>1. S \in SUBSET (0..Len(url)) /\ 0 \in S
  BY <1>0
<1>2. PICK x \in S : \A y \in S : y <= x
  <2> HIDE DEF S
  <2>1. S # {}
    BY <1>1
  <2> QED BY <1>0, <1>1, <2>1, Greatest
<1>3. ASSUME x < Len(url), url[x + 1] \in chars PROVE FALSE
  <2>1. x + 1 \in 0..Len(url) /\ x \in Nat
    BY <1>0, <1>3
  <2>2. \A i \in 1..x + 1 : url[i] \in chars
    BY <1>3, <2>1
  <2>3. x + 1 \in S
    BY <2>1, <2>2
  <2>4. x + 1 <= x
    BY <2>3, <1>2
  <2> QED BY <2>1, <2>4
<1> DEFINE Longest(n) == /\ \A i \in 1..n : url[i] \in chars
                         /\ n < Len(url) => url[n + 1] \notin chars
<1>4. Longest(x)
  BY <1>3
<1>5. Span(url, chars) = CHOOSE n \in 0..Len(url) : Longest(n)
  BY DEF Span
<1>6. x \in 0..Len(url)
  OBVIOUS
<1>7. Span(url, chars) \in 0..Len(url) /\ Longest(Span(url, chars))
  <2> HIDE DEF Longest, S
  <2> QED BY <1>4, <1>5, <1>6
<1> QED BY <1>7

\* The digits of a number behind its sign, if there is one.
LEMMA SignProps ==
  ASSUME NEW U, NEW url \in Seq(U), url # <<>>, NEW signs
  PROVE  /\ SignOf(url, signs) \in 0..1 /\ Len(url) \in Nat /\ Len(url) >= 1
         /\ From(url, SignOf(url, signs) + 1) \in Seq(U)
         /\ Len(From(url, SignOf(url, signs) + 1)) = Len(url) - SignOf(url, signs)
<1>1. Len(url) \in Nat /\ Len(url) >= 1
  BY LenProperties, EmptySeq
<1>2. SignOf(url, signs) \in 0..1
  BY DEF SignOf
<1>3. SignOf(url, signs) + 1 \in 1..Len(url) + 1
  BY <1>1, <1>2
<1>4. PICK n \in 1..Len(url) + 1 : n = SignOf(url, signs) + 1
  BY <1>3
<1>5. From(url, n) \in Seq(U) /\ Len(From(url, n)) = Len(url) - n + 1
  BY FromProps
<1>6. Len(url) - n + 1 = Len(url) - SignOf(url, signs)
  BY <1>1, <1>2, <1>4
<1> QED BY <1>1, <1>2, <1>4, <1>5, <1>6

\* A number takes no more than there is.
LEMMA IntegerSpanProps ==
  ASSUME NEW U, NEW url \in Seq(U), url # <<>>, NEW signs
  PROVE  IntegerSpan(url, signs) \in 0..Len(url)
<1> DEFINE sign == SignOf(url, signs)
           digits == Span(From(url, sign + 1), Digit)
<1>1. /\ sign \in 0..1 /\ Len(url) \in Nat /\ Len(url) >= 1
      /\ From(url, sign + 1) \in Seq(U) /\ Len(From(url, sign + 1)) = Len(url) - sign
  BY SignProps
<1>2. digits \in 0..Len(url) - sign
  <2> HIDE DEF sign
  <2> QED BY <1>1, SpanProps
<1>3. IntegerSpan(url, signs) = Signed(sign, InRange(digits))
  BY DEF IntegerSpan
<1> HIDE DEF sign, digits
<1> QED BY <1>1, <1>2, <1>3 DEF Signed, InRange

\* So does a number with a point.
LEMMA DoubleSpanProps ==
  ASSUME NEW U, NEW url \in Seq(U), url # <<>>
  PROVE  DoubleSpan(url) \in 0..Len(url)
<1> DEFINE sign == SignOf(url, Sign)
           unsigned == From(url, sign + 1)
           whole == Span(unsigned, Digit)
           part == Span(From(unsigned, whole + 2), Digit)
           span == UnsignedSpan(unsigned, whole)
<1>1. /\ sign \in 0..1 /\ Len(url) \in Nat /\ Len(url) >= 1
      /\ unsigned \in Seq(U) /\ Len(unsigned) = Len(url) - sign
  BY SignProps
<1>2. DoubleSpan(url) = Signed(sign, span)
  BY DEF DoubleSpan
<1> HIDE DEF sign, unsigned
<1>3. whole \in 0..Len(unsigned)
  BY <1>1, SpanProps
<1>4. ASSUME whole < Len(unsigned) PROVE part \in 0..Len(unsigned) - whole - 1
  <2>1. whole + 2 \in 1..Len(unsigned) + 1
    BY <1>1, <1>3, <1>4
  <2> HIDE DEF whole
  <2>2. From(unsigned, whole + 2) \in Seq(U) /\ Len(From(unsigned, whole + 2)) = Len(unsigned) - whole - 1
    <3>1. PICK n \in 1..Len(unsigned) + 1 : n = whole + 2
      BY <2>1
    <3>2. From(unsigned, n) \in Seq(U) /\ Len(From(unsigned, n)) = Len(unsigned) - n + 1
      BY <1>1, FromProps
    <3>3. Len(unsigned) - n + 1 = Len(unsigned) - whole - 1
      BY <1>1, <1>3, <3>1
    <3> QED BY <3>1, <3>2, <3>3
  <2> QED BY <2>2, SpanProps
<1>5. span = IF whole < Len(unsigned) /\ unsigned[whole + 1] = "." THEN Pointed(whole, part) ELSE whole
  BY DEF UnsignedSpan
<1> HIDE DEF whole, part, span
<1>6. span \in 0..Len(unsigned)
  BY <1>1, <1>3, <1>4, <1>5 DEF Pointed
<1> QED BY <1>1, <1>2, <1>6 DEF Signed

\* A node takes no more of a URL than there is.
LEMMA TakesProps ==
  ASSUME NEW C, NEW child, child.param \in Param \cup {"none"}, child.key \in Seq(C),
         NEW U, NEW url \in Seq(U), url # <<>>
  PROVE  Takes(child, url) \in 0..Len(url)
<1>0. Len(url) \in Nat /\ Len(child.key) \in Nat
  BY LenProperties
<1>1. CASE child.param = "<int>"
  BY <1>1, IntegerSpanProps DEF Takes
<1>2. CASE child.param = "<uint>"
  BY <1>2, IntegerSpanProps DEF Takes
<1>3. CASE child.param = "<double>"
  BY <1>3, DoubleSpanProps DEF Takes
<1>4. CASE child.param = "<string>"
  BY <1>4, SpanProps DEF Takes
<1>5. CASE child.param = "<path>"
  BY <1>5, <1>0 DEF Takes
<1>6. CASE child.param = "none"
  <2>1. Takes(child, url) = IF IsPrefix(child.key, url) THEN Len(child.key) ELSE 0
    BY <1>6 DEF Takes
  <2> QED BY <2>1, <1>0 DEF IsPrefix
<1> QED BY <1>1, <1>2, <1>3, <1>4, <1>5, <1>6 DEF Param

\* What a node takes depends on its key and its parameter.
LEMMA TakesSame ==
  ASSUME NEW a, NEW b, a.key = b.key, a.param = b.param, NEW url
  PROVE  Takes(a, url) = Takes(b, url)
  BY DEF Takes

-----------------------------------------------------------------------------
(* The trie before it is compressed: path is the tokens that lead to each node. *)

NodesOf(C) ==
  [rule_index : Nat, key : Seq(C), param : Param \cup {"none"}, children : Seq(Nat)]

IsNode(node, token) == node.key = NodeOf(token).key /\ node.param = NodeOf(token).param

\* Node i is behind node n, one token further.
Leads(trie, path, C, n, i) ==
  \E token \in C : path[i] = Append(path[n], token) /\ IsNode(trie[i], token)

IsTrie(trie, path, C) ==
  /\ trie \in Seq(NodesOf(C)) /\ trie # <<>>
  /\ path \in [DOMAIN trie -> Seq(C)] /\ path[1] = <<>>
  /\ \A n, i \in DOMAIN trie : path[n] = path[i] => n = i
  /\ \A n \in DOMAIN trie : \A i \in Range(trie[n].children) :
        i \in DOMAIN trie /\ n < i /\ Leads(trie, path, C, n, i)
  /\ \A i \in DOMAIN trie : i # 1 => \E n \in DOMAIN trie : i \in Range(trie[n].children)

\* The rules a trie has: their tokens and their indexes.
Entries(trie, path) == {<<path[n], trie[n].rule_index>> : n \in {x \in DOMAIN trie : trie[x].rule_index # 0}}

\* Two tokens make the same node when they are the same; so add() follows the node of its token.
LEMMA FollowsToken ==
  ASSUME NEW node, NEW token, IsNode(node, token), NEW other
  PROVE  Follows(node, other) <=> token = other
<1>1. NodeOf(token).key = (IF token \in Param THEN <<>> ELSE <<token>>)
  BY DEF NodeOf, NewNode
<1>2. NodeOf(token).param = IF token \in Param THEN token ELSE "none"
  BY DEF NodeOf, NewNode
<1>3. "none" \notin Param
  BY DEF Param
<1>4. token \notin Param => Head(node.key) = token
  <2>1. Head(<<token>>) = token
    OBVIOUS
  <2> QED BY <1>1, <2>1 DEF IsNode
<1>5. node.param = IF token \in Param THEN token ELSE "none"
  BY <1>2 DEF IsNode
<1> QED BY <1>3, <1>4, <1>5 DEF Follows

\* The children of a node that add() follows for a token; node 0 is none.
NextNodes(trie, node, token) ==
  IF node = 0 THEN {} ELSE {i \in Range(trie[node].children) : Follows(trie[i], token)}

AnyOf(found) == IF found = {} THEN 0 ELSE CHOOSE i \in found : TRUE

\* One step of add()'s way through the trie.
WalkStep(trie, url, at, k) == IF k = 0 THEN 1 ELSE AnyOf(NextNodes(trie, at[k - 1], url[k]))

IsWalk(trie, url, at) == at = [k \in 0..Len(url) |-> WalkStep(trie, url, at, k)]

\* The steps of at, without the equation that defines it.
WalkSteps(trie, url, at) == \A k \in 0..Len(url) : at[k] = WalkStep(trie, url, at, k)

\* A step leads to a node, or to none.
LEMMA WalkStepProps ==
  ASSUME NEW C, NEW path, NEW trie, IsTrie(trie, path, C), NEW url, NEW at, NEW k \in Nat,
         k # 0 => at[k - 1] \in 0..Len(trie)
  PROVE  WalkStep(trie, url, at, k) \in 0..Len(trie)
<1>0. Len(trie) \in Nat /\ Len(trie) >= 1 /\ DOMAIN trie = 1..Len(trie)
  BY LenProperties, EmptySeq DEF IsTrie
<1>1. CASE k = 0
  BY <1>0, <1>1 DEF WalkStep
<1>2. CASE k # 0
  <2> DEFINE found == NextNodes(trie, at[k - 1], url[k])
  <2>1. WalkStep(trie, url, at, k) = AnyOf(found)
    BY <1>2 DEF WalkStep
  <2>2. found \subseteq 1..Len(trie)
    <3>1. at[k - 1] # 0 => at[k - 1] \in DOMAIN trie
      BY <1>0, <1>2
    <3>2. at[k - 1] # 0 => \A i \in Range(trie[at[k - 1]].children) : i \in DOMAIN trie
      BY <3>1 DEF IsTrie
    <3> QED BY <3>2, <1>0 DEF NextNodes
  <2> HIDE DEF found
  <2>3. found # {} => AnyOf(found) \in found
    BY DEF AnyOf
  <2>4. found = {} => AnyOf(found) = 0
    BY DEF AnyOf
  <2>5. AnyOf(found) = 0 \/ AnyOf(found) \in 1..Len(trie)
    BY <2>2, <2>3, <2>4, Zenon
  <2>6. AnyOf(found) \in 0..Len(trie)
    <3>1. 1..Len(trie) \subseteq 0..Len(trie) /\ 0 \in 0..Len(trie)
      BY <1>0
    <3> QED BY <3>1, <2>5, Zenon
  <2> QED BY <2>1, <2>6
<1> QED BY <1>1, <1>2

\* Walk is the way of these steps.
LEMMA WalkDef ==
  ASSUME NEW C, NEW path, NEW trie, IsTrie(trie, path, C), NEW url, Len(url) \in Nat
  PROVE  WalkSteps(trie, url, Walk(trie, url))
<1> DEFINE D == 0..Len(url)
           V == 0..Len(trie)
           rank == [k \in D |-> k]
           F == [f \in [D -> V] |-> [k \in D |-> WalkStep(trie, url, f, k)]]
           at == CHOOSE f : IsWalk(trie, url, f)
<1>0. Len(trie) \in Nat /\ D \subseteq Nat
  BY LenProperties DEF IsTrie
<1>1. rank \in [D -> Nat] /\ V # {}
  BY <1>0
<1>2. F \in [[D -> V] -> [D -> V]]
  <2>1. ASSUME NEW f \in [D -> V], NEW k \in D PROVE WalkStep(trie, url, f, k) \in V
    <3>1. k \in Nat /\ (k # 0 => k - 1 \in D)
      BY <1>0
    <3> QED BY <3>1, WalkStepProps
  <2> HIDE DEF D, V
  <2> QED BY <2>1
<1>3. ASSUME NEW f \in [D -> V], NEW g \in [D -> V], NEW k \in D,
             \A j \in D : rank[j] < rank[k] => f[j] = g[j]
      PROVE  F[f][k] = F[g][k]
  <2>1. k # 0 => f[k - 1] = g[k - 1]
    <3>1. k # 0 => k - 1 \in D /\ rank[k - 1] < rank[k]
      BY <1>0
    <3> QED BY <3>1, <1>3
  <2>2. WalkStep(trie, url, f, k) = WalkStep(trie, url, g, k)
    BY <2>1 DEF WalkStep
  <2> QED BY <2>2
<1>4. Recurses(D, V, rank, F)
  <2> HIDE DEF D, V, rank, F
  <2> QED BY <1>1, <1>2, <1>3 DEF Recurses
<1>5. PICK f \in [D -> V] : f = F[f]
  <2> HIDE DEF D, V, rank, F
  <2> QED BY <1>4, Recursion
<1>6. \E h : IsWalk(trie, url, h)
  <2> DEFINE h == [k \in D |-> WalkStep(trie, url, f, k)]
  <2>1. f = h
    BY <1>5
  <2>2. f = [k \in D |-> WalkStep(trie, url, f, k)]
    BY <2>1
  <2> QED BY <2>2 DEF IsWalk
<1>7. IsWalk(trie, url, at)
  BY <1>6, Zenon
<1>8. Walk(trie, url) = at
  BY DEF Walk, IsWalk, WalkStep, NextNodes, AnyOf
<1>9. WalkSteps(trie, url, at)
  BY <1>7 DEF IsWalk, WalkSteps
<1> HIDE DEF at
<1> QED BY <1>8, <1>9

\* What a walk must have found after k tokens: the node they lead to, or that there is none.
Finds(trie, path, url, k, n) ==
  IF n = 0 THEN \A x \in DOMAIN trie : path[x] # SubSeq(url, 1, k)
           ELSE n \in DOMAIN trie /\ path[n] = SubSeq(url, 1, k)

\* A step finds what is one token further.
LEMMA NextFinds ==
  ASSUME NEW C, NEW trie, NEW path, IsTrie(trie, path, C), NEW url \in Seq(C),
         NEW k \in 1..Len(url), NEW n, Finds(trie, path, url, k - 1, n)
  PROVE  Finds(trie, path, url, k, AnyOf(NextNodes(trie, n, url[k])))
<1> DEFINE s == SubSeq(url, 1, k - 1)
           t == url[k]
           found == NextNodes(trie, n, t)
<1>0. Len(url) \in Nat /\ DOMAIN trie = 1..Len(trie) /\ Len(trie) \in Nat
  BY LenProperties DEF IsTrie
<1>1. t \in C /\ s \in Seq(C) /\ SubSeq(url, 1, k) = Append(s, t)
  <2>1. t \in C /\ \A i \in 1..k - 1 : url[i] \in C
    BY <1>0, ElementOfSeq
  <2>2. s \in Seq(C)
    BY <2>1, <1>0, SubSeqProperties
  <2>3. SubSeq(url, 1, k) = s \o <<t>>
    BY <1>0, SubSeqRecursiveSecond
  <2>4. Append(s, t) = s \o <<t>>
    BY <2>1, <2>2, AppendIsConcat
  <2> QED BY <2>1, <2>2, <2>3, <2>4
<1> HIDE DEF s, t
<1>2. /\ n = 0 => \A x \in DOMAIN trie : path[x] # s
      /\ n # 0 => n \in DOMAIN trie /\ path[n] = s
  BY DEF Finds, s
<1>3. ASSUME NEW x \in DOMAIN trie, path[x] = Append(s, t) PROVE x \in found
  <2>1. Append(s, t) # <<>>
    BY <1>1, AppendProperties
  <2>2. x # 1
    BY <1>3, <2>1 DEF IsTrie
  <2>3. PICK m \in DOMAIN trie : x \in Range(trie[m].children)
    BY <2>2 DEF IsTrie
  <2>4. Leads(trie, path, C, m, x)
    BY <2>3 DEF IsTrie
  <2>5. PICK u \in C : path[x] = Append(path[m], u) /\ IsNode(trie[x], u)
    BY <2>4 DEF Leads
  <2>6. path[m] \in Seq(C)
    BY DEF IsTrie
  <2>7. path[m] = s /\ u = t
    <3>1. Append(path[m], u) = Append(s, t)
      BY <2>5, <1>3
    <3>2. s \in Seq(C) /\ t \in C
      BY <1>1
    <3> QED BY <3>1, <3>2, <2>6, AppendInjective
  <2>8. n = m
    BY <2>7, <1>2 DEF IsTrie
  <2>9. Follows(trie[x], t)
    BY <2>5, <2>7, FollowsToken
  <2>10. n # 0
    BY <1>0, <2>8
  <2> QED BY <2>3, <2>8, <2>9, <2>10 DEF NextNodes
<1>4. ASSUME NEW x \in found PROVE x \in DOMAIN trie /\ path[x] = Append(s, t)
  <2>1. n # 0 /\ x \in Range(trie[n].children) /\ Follows(trie[x], t)
    BY DEF NextNodes
  <2>2. n \in DOMAIN trie /\ path[n] = s
    BY <2>1, <1>2
  <2>3. x \in DOMAIN trie /\ Leads(trie, path, C, n, x)
    BY <2>1, <2>2 DEF IsTrie
  <2>4. PICK u \in C : path[x] = Append(path[n], u) /\ IsNode(trie[x], u)
    BY <2>3 DEF Leads
  <2>5. u = t
    BY <2>1, <2>4, FollowsToken
  <2> QED BY <2>2, <2>3, <2>4, <2>5
<1> HIDE DEF found
<1>5. CASE found = {}
  <2>1. AnyOf(found) = 0
    BY <1>5 DEF AnyOf
  <2>2. \A x \in DOMAIN trie : path[x] # Append(s, t)
    BY <1>3, <1>5
  <2> QED BY <2>1, <2>2, <1>1 DEF Finds, found, t
<1>6. CASE found # {}
  <2>1. AnyOf(found) \in found
    BY <1>6 DEF AnyOf
  <2>2. AnyOf(found) \in DOMAIN trie /\ path[AnyOf(found)] = Append(s, t)
    BY <2>1, <1>4
  <2>3. AnyOf(found) # 0
    BY <2>2, <1>0
  <2> QED BY <2>2, <2>3, <1>1 DEF Finds, found, t
<1> QED BY <1>5, <1>6

\* The way through the trie finds the node of every prefix, if there is one.
LEMMA WalkFinds ==
  ASSUME NEW C, NEW trie, NEW path, IsTrie(trie, path, C), NEW url \in Seq(C)
  PROVE  \A k \in 0..Len(url) : Finds(trie, path, url, k, Walk(trie, url)[k])
<1> DEFINE at == Walk(trie, url)
           S == {k \in Nat : k <= Len(url) => Finds(trie, path, url, k, at[k])}
<1>0. Len(url) \in Nat /\ DOMAIN trie = 1..Len(trie) /\ Len(trie) \in Nat /\ Len(trie) >= 1
  BY LenProperties, EmptySeq DEF IsTrie
<1>1. WalkSteps(trie, url, at)
  BY <1>0, WalkDef
<1> HIDE DEF at
<1>2. 0 \in S
  <2>1. at[0] = 1
    <3>1. 0 \in 0..Len(url) /\ WalkStep(trie, url, at, 0) = 1
      BY <1>0 DEF WalkStep
    <3> QED BY <3>1, <1>1 DEF WalkSteps
  <2>2. path[1] = SubSeq(url, 1, 0) /\ 1 \in DOMAIN trie
    <3>1. SubSeq(url, 1, 0) = <<>>
      BY SubSeqEmpty
    <3> QED BY <3>1, <1>0 DEF IsTrie
  <2> QED BY <2>1, <2>2 DEF Finds
<1>3. ASSUME NEW k \in S PROVE k + 1 \in S
  <2> SUFFICES ASSUME k + 1 <= Len(url) PROVE Finds(trie, path, url, k + 1, at[k + 1])
    OBVIOUS
  <2>1. k + 1 \in 1..Len(url) /\ k + 1 \in 0..Len(url) /\ (k + 1) - 1 = k /\ k + 1 # 0
    BY <1>0
  <2>2. Finds(trie, path, url, (k + 1) - 1, at[k])
    BY <1>0, <2>1
  <2>3. at[k + 1] = AnyOf(NextNodes(trie, at[k], url[k + 1]))
    <3>1. at[k + 1] = WalkStep(trie, url, at, k + 1)
      BY <2>1, <1>1 DEF WalkSteps
    <3>2. WalkStep(trie, url, at, k + 1) = AnyOf(NextNodes(trie, at[k], url[k + 1]))
      BY <2>1 DEF WalkStep
    <3> QED BY <3>1, <3>2
  <2>4. Finds(trie, path, url, k + 1, AnyOf(NextNodes(trie, at[k], url[k + 1])))
    BY <2>1, <2>2, NextFinds
  <2> QED BY <2>3, <2>4
<1> HIDE DEF S
<1>4. S = Nat
  <2>1. S \in SUBSET Nat
    BY DEF S
  <2> QED BY <1>2, <1>3, <2>1, NatInd
<1> QED BY <1>0, <1>4 DEF S, at

\* A place has no rule when no entry is for it.
LEMMA RuleAtProps ==
  ASSUME NEW C, NEW trie, NEW path, IsTrie(trie, path, C), NEW url \in Seq(C)
  PROVE  RuleAt(trie, url) = 0 <=> \A e \in Entries(trie, path) : e[1] # url
<1> DEFINE n == Walk(trie, url)[Len(url)]
<1>0. Len(url) \in Nat
  BY LenProperties
<1>1. SubSeq(url, 1, Len(url)) = url
  BY SubSeqFull
<1>2. Finds(trie, path, url, Len(url), n)
  BY <1>0, WalkFinds
<1>3. RuleAt(trie, url) = IF n = 0 THEN 0 ELSE trie[n].rule_index
  BY DEF RuleAt
<1> HIDE DEF n
<1>4. CASE n = 0
  BY <1>1, <1>2, <1>3, <1>4 DEF Finds, Entries
<1>5. CASE n # 0
  <2>1. n \in DOMAIN trie /\ path[n] = url
    BY <1>1, <1>2, <1>5 DEF Finds
  <2>2. \A x \in DOMAIN trie : path[x] = url => x = n
    BY <2>1 DEF IsTrie
  <2>3. (\A e \in Entries(trie, path) : e[1] # url) <=> trie[n].rule_index = 0
    <3>1. ASSUME trie[n].rule_index # 0 PROVE \E e \in Entries(trie, path) : e[1] = url
      <4>1. <<path[n], trie[n].rule_index>> \in Entries(trie, path)
        BY <2>1, <3>1 DEF Entries
      <4>2. <<path[n], trie[n].rule_index>>[1] = url
        BY <2>1
      <4> QED BY <4>1, <4>2, Zenon
    <3>2. ASSUME NEW e \in Entries(trie, path), e[1] = url PROVE trie[n].rule_index # 0
      <4>1. PICK x \in DOMAIN trie : trie[x].rule_index # 0 /\ e = <<path[x], trie[x].rule_index>>
        BY DEF Entries
      <4>2. path[x] = url
        BY <4>1, <3>2
      <4> QED BY <4>1, <4>2, <2>2
    <3> QED BY <3>1, <3>2
  <2> QED BY <2>3, <1>3, <1>5
<1> QED BY <1>4, <1>5

-----------------------------------------------------------------------------
(* Trie::add. *)

\* Nodes have their fields.
LEMMA NodeProps ==
  ASSUME NEW C, NEW trie \in Seq(NodesOf(C)), NEW n \in DOMAIN trie
  PROVE  /\ trie[n] \in NodesOf(C)
         /\ trie[n].rule_index \in Nat /\ trie[n].key \in Seq(C)
         /\ trie[n].param \in Param \cup {"none"} /\ trie[n].children \in Seq(Nat)
<1>1. trie[n] \in NodesOf(C)
  BY ElementOfSeq, LenProperties
<1> QED BY <1>1 DEF NodesOf

\* The node made for a token.
LEMMA NodeOfProps ==
  ASSUME NEW C, NEW token \in C
  PROVE  /\ NodeOf(token) \in NodesOf(C) /\ IsNode(NodeOf(token), token)
         /\ NodeOf(token).rule_index = 0 /\ NodeOf(token).children = <<>>
<1>1. <<>> \in Seq(C) /\ <<token>> \in Seq(C) /\ <<>> \in Seq(Nat)
  OBVIOUS
<1>2. NodeOf(token) = [rule_index |-> 0, key |-> IF token \in Param THEN <<>> ELSE <<token>>,
                       param |-> IF token \in Param THEN token ELSE "none", children |-> <<>>]
  BY DEF NodeOf, NewNode
<1> QED BY <1>1, <1>2 DEF NodesOf, IsNode

\* What a list holds with one more.
LEMMA RangeAppend ==
  ASSUME NEW S, NEW s \in Seq(S), NEW x \in S
  PROVE  Range(Append(s, x)) = Range(s) \cup {x}
<1>0. Len(s) \in Nat /\ DOMAIN s = 1..Len(s)
  BY LenProperties
<1>1. /\ Append(s, x) \in Seq(S) /\ Len(Append(s, x)) = Len(s) + 1
      /\ \A i \in 1..Len(s) : Append(s, x)[i] = s[i]
      /\ Append(s, x)[Len(s) + 1] = x
  BY AppendProperties
<1> DEFINE a == Append(s, x)
<1>2. DOMAIN a = 1..Len(s) + 1
  BY <1>1, LenProperties
<1>3. Range(a) = {a[i] : i \in 1..Len(s) + 1}
  BY <1>2 DEF Range
<1>4. Range(s) = {s[i] : i \in 1..Len(s)}
  BY <1>0 DEF Range
<1> HIDE DEF a
<1>5. /\ \A i \in 1..Len(s) : a[i] = s[i]
      /\ a[Len(s) + 1] = x
  BY <1>1 DEF a
<1>6. 1..Len(s) + 1 = 1..Len(s) \cup {Len(s) + 1}
  BY <1>0
<1>7. {a[i] : i \in 1..Len(s) + 1} = {a[i] : i \in 1..Len(s)} \cup {x}
  BY <1>5, <1>6
<1>8. {a[i] : i \in 1..Len(s)} = {s[i] : i \in 1..Len(s)}
  BY <1>5
<1> QED BY <1>3, <1>4, <1>7, <1>8 DEF a

\* How far add() goes along nodes that are there.
Known(trie, url) == Max({k \in 0..Len(url) : Walk(trie, url)[k] # 0})

\* It is the longest prefix that has a node.
LEMMA KnownProps ==
  ASSUME NEW C, NEW trie, NEW path, IsTrie(trie, path, C), NEW url \in Seq(C)
  PROVE  LET known == Known(trie, url)
             node  == Walk(trie, url)[known]
         IN /\ known \in 0..Len(url)
            /\ node \in DOMAIN trie /\ path[node] = SubSeq(url, 1, known)
            /\ \A k \in 0..Len(url) : k > known => \A x \in DOMAIN trie : path[x] # SubSeq(url, 1, k)
<1> DEFINE at == Walk(trie, url)
           S  == {k \in 0..Len(url) : at[k] # 0}
<1>0. Len(url) \in Nat /\ 1 \in DOMAIN trie
  BY LenProperties, EmptySeq DEF IsTrie
<1>1. \A k \in 0..Len(url) : Finds(trie, path, url, k, at[k])
  BY WalkFinds
<1> HIDE DEF at
<1>2. 0 \in S
  <2>1. SubSeq(url, 1, 0) = <<>>
    BY SubSeqEmpty
  <2>2. path[1] = SubSeq(url, 1, 0)
    BY <2>1 DEF IsTrie
  <2>3. Finds(trie, path, url, 0, at[0]) /\ 0 \in 0..Len(url)
    BY <1>0, <1>1
  <2> QED BY <1>0, <2>2, <2>3 DEF Finds
<1>3. S \in SUBSET (0..Len(url)) /\ S # {}
  BY <1>2
<1>4. \E x \in S : \A y \in S : x >= y
  <2> HIDE DEF S
  <2>1. PICK x \in S : \A y \in S : y <= x
    BY <1>0, <1>3, Greatest
  <2>2. \A y \in S : y \in Int
    BY <1>3
  <2> QED BY <2>1, <2>2
<1>5. Known(trie, url) \in S /\ \A y \in S : Known(trie, url) >= y
  <2>1. Known(trie, url) = CHOOSE x \in S : \A y \in S : x >= y
    BY DEF Known, Max, at
  <2> HIDE DEF S
  <2> QED BY <1>4, <2>1
<1>6. at[Known(trie, url)] # 0 /\ Known(trie, url) \in 0..Len(url)
  BY <1>5
<1>7. \A k \in 0..Len(url) : k > Known(trie, url) => at[k] = 0
  BY <1>5, <1>6
<1> HIDE DEF S
<1>8. /\ at[Known(trie, url)] \in DOMAIN trie
      /\ path[at[Known(trie, url)]] = SubSeq(url, 1, Known(trie, url))
  BY <1>1, <1>6 DEF Finds
<1>9. \A k \in 0..Len(url) : k > Known(trie, url) => \A x \in DOMAIN trie : path[x] # SubSeq(url, 1, k)
  BY <1>1, <1>7 DEF Finds
<1> QED BY <1>6, <1>8, <1>9 DEF at

\* The trie with a rule at a node.
Ruled(trie, p, index) == [trie EXCEPT ![p].rule_index = index]

\* A rule for a place that has a node already.
LEMMA AddThere ==
  ASSUME NEW C, NEW trie, NEW path, IsTrie(trie, path, C), NEW p \in DOMAIN trie,
         NEW index \in Nat \ {0}, trie[p].rule_index = 0
  PROVE  /\ IsTrie(Ruled(trie, p, index), path, C)
         /\ Entries(Ruled(trie, p, index), path) = Entries(trie, path) \cup {<<path[p], index>>}
<1> DEFINE t == [trie EXCEPT ![p].rule_index = index]
<1>0. trie \in Seq(NodesOf(C)) /\ DOMAIN t = DOMAIN trie
  BY DEF IsTrie
<1>1. \A n \in DOMAIN trie : n # p => t[n] = trie[n]
  BY <1>0
<1>2. t[p] = [trie[p] EXCEPT !.rule_index = index]
  BY <1>0
<1>3. /\ t[p].key = trie[p].key /\ t[p].param = trie[p].param
      /\ t[p].children = trie[p].children /\ t[p].rule_index = index /\ t[p] \in NodesOf(C)
  <2>1. trie[p] \in NodesOf(C)
    BY <1>0, NodeProps
  <2> HIDE DEF t
  <2> QED BY <1>2, <2>1 DEF NodesOf
<1>4. t \in Seq(NodesOf(C))
  <2>1. \A n \in DOMAIN trie : t[n] \in NodesOf(C)
    BY <1>0, <1>1, <1>3, NodeProps
  <2>2. DOMAIN t = 1..Len(trie) /\ Len(trie) \in Nat
    BY <1>0, LenProperties
  <2>3. t = [n \in 1..Len(trie) |-> t[n]]
    BY <2>2
  <2> HIDE DEF t
  <2>4. \A n \in 1..Len(trie) : t[n] \in NodesOf(C)
    BY <2>1, <2>2, <1>0
  <2>5. [n \in 1..Len(trie) |-> t[n]] \in Seq(NodesOf(C))
    BY <2>2, <2>4
  <2> QED BY <2>3, <2>5, Zenon
<1> HIDE DEF t
<1>5. \A n \in DOMAIN trie : /\ t[n].key = trie[n].key /\ t[n].param = trie[n].param
                             /\ t[n].children = trie[n].children
                             /\ t[n].rule_index = IF n = p THEN index ELSE trie[n].rule_index
  BY <1>1, <1>3
<1>6. \A n, i \in DOMAIN trie : Leads(trie, path, C, n, i) => Leads(t, path, C, n, i)
  BY <1>5 DEF Leads, IsNode
<1>7. IsTrie(t, path, C)
  <2>1. t # <<>>
    <3>1. p \in DOMAIN t
      BY <1>0
    <3> QED BY <3>1, EmptySeq
  <2>2. \A n \in DOMAIN t : Range(t[n].children) = Range(trie[n].children)
    BY <1>0, <1>5
  <2>3. \A n \in DOMAIN t : \A i \in Range(t[n].children) :
           i \in DOMAIN t /\ n < i /\ Leads(t, path, C, n, i)
    BY <1>0, <1>6, <2>2 DEF IsTrie
  <2>4. \A i \in DOMAIN t : i # 1 => \E n \in DOMAIN t : i \in Range(t[n].children)
    BY <1>0, <2>2 DEF IsTrie
  <2> QED BY <1>0, <1>4, <2>1, <2>3, <2>4 DEF IsTrie
<1>8. Entries(t, path) = Entries(trie, path) \cup {<<path[p], index>>}
  <2>1. {x \in DOMAIN t : t[x].rule_index # 0} = {x \in DOMAIN trie : trie[x].rule_index # 0} \cup {p}
    BY <1>0, <1>5
  <2>2. \A x \in DOMAIN trie : trie[x].rule_index # 0 => t[x].rule_index = trie[x].rule_index
    BY <1>5
  <2>3. t[p].rule_index = index
    BY <1>5
  <2> QED BY <2>1, <2>2, <2>3 DEF Entries
<1> QED BY <1>7, <1>8 DEF t, Ruled

\* No node is further on the way of url than known tokens.
Unknown(trie, path, url, known) ==
  \A k \in 0..Len(url) : k > known => \A x \in DOMAIN trie : path[x] # SubSeq(url, 1, k)

\* The nodes of t that are in trie too: node p has got a child.
OldNodes(trie, t, p, N) ==
  /\ \A n \in 1..N : /\ t[n].key = trie[n].key /\ t[n].param = trie[n].param
                     /\ t[n].rule_index = trie[n].rule_index
                     /\ n # p => t[n].children = trie[n].children
  /\ t[p].children = Append(trie[p].children, N + 1)

\* The nodes of t that are not: a chain of nodes for the tokens after the known ones.
NewNodes(t, url, known, index, N, M) ==
  \A n \in N + 1..M : /\ IsNode(t[n], url[known + n - N])
                      /\ t[n].children = IF n = M THEN <<>> ELSE <<n + 1>>
                      /\ t[n].rule_index = IF n = M THEN index ELSE 0

\* t is trie with a chain of nodes for url behind node p, where trie has none.
Beyond(C, trie, path, url, known, p, index, t, N, M) ==
  /\ IsTrie(trie, path, C) /\ url \in Seq(C)
  /\ known \in 0..Len(url) /\ known < Len(url)
  /\ p \in DOMAIN trie /\ path[p] = SubSeq(url, 1, known)
  /\ Unknown(trie, path, url, known)
  /\ index \in Nat \ {0}
  /\ N = Len(trie) /\ M = N + Len(url) - known
  /\ t \in Seq(NodesOf(C)) /\ DOMAIN t = 1..M
  /\ OldNodes(trie, t, p, N) /\ NewNodes(t, url, known, index, N, M)

\* The chain begins behind N nodes, for the tokens from known on, and ends at node M.
Chained(N, L, known, M) == N \in Nat /\ L \in Nat /\ known \in Nat /\ known < L /\ M = N + L - known

Placed(N, L, known, M) ==
  /\ \A n \in N + 1..M : /\ n \in Nat /\ known + n - N \in 1..L /\ n \in 1..M
                         /\ n # M => /\ n + 1 \in N + 1..M /\ n + 1 \in 1..M
                                     /\ known + (n + 1) - N \in 1..L
                                     /\ (known + (n + 1) - N) - 1 = known + n - N
  /\ \A n \in 1..N : n \in 1..M
  /\ \A n \in 1..M : n \in 1..N \/ n \in N + 1..M
  /\ M \in N + 1..M /\ N + 1 \in N + 1..M /\ known + M - N = L
  /\ known + (N + 1) - N = known + 1 /\ known + 1 \in 1..L /\ (known + 1) - 1 = known

\* The places of the new nodes.
LEMMA Places ==
  ASSUME NEW N, NEW L, NEW known, NEW M, Chained(N, L, known, M)
  PROVE  Placed(N, L, known, M)
BY DEF Chained, Placed

\* A rule for a place behind node p that has no node: the nodes of the tokens not known so far
\* form a chain.
LEMMA AddBeyond ==
  ASSUME NEW C, NEW trie, NEW path, NEW url, NEW known, NEW p, NEW index, NEW t, NEW N, NEW M,
         Beyond(C, trie, path, url, known, p, index, t, N, M)
  PROVE  \E q : IsTrie(t, q, C) /\ Entries(t, q) = Entries(trie, path) \cup {<<url, index>>}
<1>a. /\ IsTrie(trie, path, C) /\ url \in Seq(C)
      /\ known \in 0..Len(url) /\ known < Len(url)
      /\ p \in DOMAIN trie /\ path[p] = SubSeq(url, 1, known)
      /\ Unknown(trie, path, url, known) /\ index \in Nat \ {0}
      /\ t \in Seq(NodesOf(C)) /\ DOMAIN t = 1..M
      /\ OldNodes(trie, t, p, N) /\ NewNodes(t, url, known, index, N, M)
  BY DEF Beyond
<1>b. N = Len(trie) /\ M = N + Len(url) - known
  BY DEF Beyond
<1> DEFINE q == [n \in 1..M |-> IF n <= N THEN path[n] ELSE SubSeq(url, 1, known + n - N)]
<1>0. /\ Len(url) \in Nat /\ N \in Nat /\ N >= 1 /\ DOMAIN trie = 1..N /\ M \in Nat /\ M > N
      /\ known \in Nat /\ trie \in Seq(NodesOf(C))
  <2>1. trie \in Seq(NodesOf(C)) /\ trie # <<>>
    BY <1>a DEF IsTrie
  <2>2. Len(trie) \in Nat /\ DOMAIN trie = 1..Len(trie) /\ Len(url) \in Nat
    BY <1>a, <2>1, LenProperties
  <2>3. Len(trie) # 0
    BY <2>1, EmptySeq
  <2>4. N \in Nat /\ N >= 1 /\ DOMAIN trie = 1..N /\ known \in Nat
    BY <2>2, <2>3, <1>a, <1>b
  <2>5. M \in Nat /\ M > N
    BY <2>2, <2>4, <1>a, <1>b
  <2> QED BY <2>1, <2>2, <2>4, <2>5
<1>p. /\ \A n \in N + 1..M : /\ n \in Nat /\ known + n - N \in 1..Len(url) /\ n \in 1..M
                              /\ n # M => /\ n + 1 \in N + 1..M /\ n + 1 \in 1..M
                                          /\ known + (n + 1) - N \in 1..Len(url)
                                          /\ (known + (n + 1) - N) - 1 = known + n - N
      /\ \A n \in 1..N : n \in 1..M
      /\ \A n \in 1..M : n \in 1..N \/ n \in N + 1..M
      /\ M \in N + 1..M /\ N + 1 \in N + 1..M /\ known + M - N = Len(url)
      /\ known + (N + 1) - N = known + 1 /\ known + 1 \in 1..Len(url) /\ (known + 1) - 1 = known
  <2>1. Len(url) \in Nat /\ known \in Nat /\ N \in Nat /\ known < Len(url)
    BY <1>0, <1>a
  <2>2. Chained(N, Len(url), known, M)
    BY <2>1, <1>b DEF Chained
  <2>3. Placed(N, Len(url), known, M)
    BY <2>2, Places
  <2> QED BY <2>3 DEF Placed
<1>1. \A k \in 0..Len(url) : SubSeq(url, 1, k) \in Seq(C) /\ Len(SubSeq(url, 1, k)) = k
  <2> TAKE k \in 0..Len(url)
  <2>1. \A i \in 1..k : url[i] \in C
    BY <1>0, <1>a, <1>p, ElementOfSeq
  <2>2. (IF 1 <= k THEN k - 1 + 1 ELSE 0) = k
    BY <1>0, <1>a, <1>p
  <2> QED BY <1>0, <1>a, <1>p, <2>1, <2>2, SubSeqProperties
<1>2. \A k \in 1..Len(url) : url[k] \in C /\ SubSeq(url, 1, k) = Append(SubSeq(url, 1, k - 1), url[k])
  <2> TAKE k \in 1..Len(url)
  <2>1. url[k] \in C
    BY <1>0, <1>a, <1>p, ElementOfSeq
  <2>2. SubSeq(url, 1, k) = SubSeq(url, 1, k - 1) \o <<url[k]>>
    BY <1>0, <1>a, <1>p, SubSeqRecursiveSecond
  <2>3. SubSeq(url, 1, k - 1) \in Seq(C)
    BY <1>0, <1>a, <1>p, <1>1
  <2> QED BY <2>1, <2>2, <2>3, AppendIsConcat
<1>3. \A n \in 1..N : q[n] = path[n]
  BY <1>0, <1>a, <1>p
<1>4. \A n \in N + 1..M : q[n] = SubSeq(url, 1, known + n - N) /\ known + n - N \in 1..Len(url)
  BY <1>0, <1>a, <1>p
<1>5. q \in [1..M -> Seq(C)] /\ q[1] = <<>>
  <2>1. \A n \in 1..N : path[n] \in Seq(C)
    BY <1>0, <1>a, <1>p DEF IsTrie
  <2>2. \A n \in 1..M : n <= N \/ n \in N + 1..M
    BY <1>0, <1>a, <1>p
  <2>3. \A n \in 1..M : q[n] \in Seq(C)
    <3>1. \A n \in N + 1..M : q[n] \in Seq(C)
      BY <1>0, <1>a, <1>p, <1>1, <1>4
    <3>2. \A n \in 1..N : q[n] \in Seq(C)
      BY <2>1, <1>3
    <3>3. \A n \in 1..M : n \in 1..N \/ n \in N + 1..M
      BY <1>0, <1>a, <1>p
    <3> HIDE DEF q
    <3> QED BY <3>1, <3>2, <3>3
  <2>4. q[1] = path[1]
    BY <1>0, <1>a, <1>p, <1>3
  <2>5. q = [n \in 1..M |-> q[n]]
    OBVIOUS
  <2> HIDE DEF q
  <2> QED BY <2>3, <2>4, <2>5, <1>a DEF IsTrie
<1>6. q[N + 1] = Append(q[p], url[known + 1])
  <2>1. known + (N + 1) - N = known + 1 /\ known + 1 \in 1..Len(url) /\ (known + 1) - 1 = known
    BY <1>0, <1>a, <1>p
  <2>2. q[N + 1] = SubSeq(url, 1, known + 1)
    BY <1>0, <1>a, <1>p, <1>4, <2>1
  <2>3. q[p] = SubSeq(url, 1, known)
    BY <1>0, <1>a, <1>p, <1>3
  <2> HIDE DEF q
  <2> QED BY <1>2, <2>1, <2>2, <2>3
<1>7. \A n \in N + 1..M : n # M => q[n + 1] = Append(q[n], url[known + (n + 1) - N])
  <2> TAKE n \in N + 1..M
  <2> HAVE n # M
  <2> DEFINE k == known + (n + 1) - N
  <2>1. n + 1 \in N + 1..M /\ k \in 1..Len(url) /\ k - 1 = known + n - N
    BY <1>0, <1>a, <1>p
  <2>2. q[n + 1] = SubSeq(url, 1, k)
    BY <1>4, <2>1
  <2>3. q[n] = SubSeq(url, 1, k - 1)
    BY <1>4, <2>1
  <2> HIDE DEF q, k
  <2>4. SubSeq(url, 1, k) = Append(SubSeq(url, 1, k - 1), url[k])
    BY <1>2, <2>1
  <2>5. q[n + 1] = Append(q[n], url[k])
    BY <2>2, <2>3, <2>4
  <2> QED BY <2>5 DEF k
<1>8. \A n, i \in 1..M : q[n] = q[i] => n = i
  <2>1. ASSUME NEW n \in 1..N, NEW i \in N + 1..M PROVE q[n] # q[i]
    <3>1. known + i - N \in 0..Len(url) /\ known + i - N > known
      BY <1>0, <1>a, <1>p
    <3>2. \A x \in DOMAIN trie : path[x] # SubSeq(url, 1, known + i - N)
      BY <3>1, <1>a DEF Unknown
    <3> QED BY <3>2, <1>0, <1>a, <1>p, <1>3, <1>4
  <2>2. ASSUME NEW n \in N + 1..M, NEW i \in N + 1..M, q[n] = q[i] PROVE n = i
    <3>1. Len(q[n]) = known + n - N /\ Len(q[i]) = known + i - N
      BY <1>0, <1>a, <1>p, <1>1, <1>4
    <3> HIDE DEF q
    <3> QED BY <3>1, <2>2, <1>0, <1>a, <1>p
  <2>3. ASSUME NEW n \in 1..N, NEW i \in 1..N, q[n] = q[i] PROVE n = i
    <3>1. path[n] = path[i] /\ n \in DOMAIN trie /\ i \in DOMAIN trie
      BY <2>3, <1>0, <1>a, <1>p, <1>3
    <3> QED BY <3>1, <1>a DEF IsTrie
  <2>4. \A n \in 1..M : n \in 1..N \/ n \in N + 1..M
    BY <1>0, <1>a, <1>p
  <2> TAKE n, i \in 1..M
  <2> HAVE q[n] = q[i]
  <2> HIDE DEF q
  <2>5. CASE n \in 1..N /\ i \in 1..N
    BY <2>3, <2>5
  <2>6. CASE n \in 1..N /\ i \in N + 1..M
    BY <2>1, <2>6
  <2>7. CASE n \in N + 1..M /\ i \in 1..N
    BY <2>1, <2>7
  <2>8. CASE n \in N + 1..M /\ i \in N + 1..M
    BY <2>2, <2>8
  <2> QED BY <2>4, <2>5, <2>6, <2>7, <2>8
<1> HIDE DEF q
<1>9. Range(t[p].children) = Range(trie[p].children) \cup {N + 1}
  <2>1. trie[p].children \in Seq(Nat) /\ N + 1 \in Nat
    BY <1>0, <1>a, <1>p, NodeProps
  <2>2. t[p].children = Append(trie[p].children, N + 1)
    BY <1>a DEF OldNodes
  <2>3. Range(Append(trie[p].children, N + 1)) = Range(trie[p].children) \cup {N + 1}
    BY <2>1, RangeAppend
  <2> QED BY <2>2, <2>3
<1>10. \A n \in N + 1..M : Range(t[n].children) = IF n = M THEN {} ELSE {n + 1}
  <2> TAKE n \in N + 1..M
  <2>1. CASE n = M
    <3>1. t[n].children = <<>>
      BY <2>1, <1>a DEF NewNodes
    <3> QED BY <2>1, <3>1 DEF Range
  <2>2. CASE n # M
    <3>1. t[n].children = <<n + 1>>
      BY <2>2, <1>a DEF NewNodes
    <3>2. Range(<<n + 1>>) = {n + 1}
      BY DEF Range
    <3> QED BY <2>2, <3>1, <3>2
  <2> QED BY <2>1, <2>2
<1>11. \A n, i \in 1..N : Leads(trie, path, C, n, i) => Leads(t, q, C, n, i)
  <2> TAKE n, i \in 1..N
  <2> HAVE Leads(trie, path, C, n, i)
  <2>1. PICK token \in C : path[i] = Append(path[n], token) /\ IsNode(trie[i], token)
    BY DEF Leads
  <2>2. t[i].key = trie[i].key /\ t[i].param = trie[i].param
    BY <1>a DEF OldNodes
  <2>3. q[i] = Append(q[n], token) /\ IsNode(t[i], token)
    BY <2>1, <2>2, <1>3 DEF IsNode
  <2> QED BY <2>3 DEF Leads
<1>12. Leads(t, q, C, p, N + 1)
  <2>1. N + 1 \in N + 1..M /\ known + (N + 1) - N = known + 1 /\ known + 1 \in 1..Len(url)
    BY <1>0, <1>a, <1>p
  <2>2. IsNode(t[N + 1], url[known + 1])
    BY <2>1, <1>a DEF NewNodes
  <2> QED BY <1>2, <1>6, <2>1, <2>2 DEF Leads
<1>13. \A n \in N + 1..M : n # M => Leads(t, q, C, n, n + 1)
  <2> TAKE n \in N + 1..M
  <2> HAVE n # M
  <2>1. n + 1 \in N + 1..M /\ known + (n + 1) - N \in 1..Len(url)
    BY <1>0, <1>a, <1>p
  <2>2. IsNode(t[n + 1], url[known + (n + 1) - N])
    BY <2>1, <1>a DEF NewNodes
  <2> QED BY <1>2, <1>7, <2>1, <2>2 DEF Leads
<1>14. \A n \in 1..M : n \in 1..N \/ n \in N + 1..M
  BY <1>0, <1>a, <1>p
<1>15. \A n \in 1..M : \A i \in Range(t[n].children) : i \in 1..M /\ n < i /\ Leads(t, q, C, n, i)
  <2>1. ASSUME NEW n \in 1..N, NEW i \in Range(trie[n].children)
        PROVE  i \in 1..M /\ n < i /\ Leads(t, q, C, n, i)
    <3>1. i \in 1..N /\ n < i /\ Leads(trie, path, C, n, i)
      BY <1>0, <1>a, <1>p, <2>1 DEF IsTrie
    <3> QED BY <1>0, <1>a, <1>p, <1>11, <3>1
  <2>2. ASSUME NEW n \in 1..N, NEW i \in Range(t[n].children)
        PROVE  i \in 1..M /\ n < i /\ Leads(t, q, C, n, i)
    <3>1. CASE n # p
      <4>1. t[n].children = trie[n].children
        BY <3>1, <1>a DEF OldNodes
      <4> QED BY <2>1, <4>1
    <3>2. CASE n = p /\ i # N + 1
      BY <2>1, <2>2, <3>2, <1>9
    <3>3. CASE n = p /\ i = N + 1
      BY <3>3, <1>0, <1>a, <1>p, <1>12
    <3> QED BY <3>1, <3>2, <3>3
  <2>3. ASSUME NEW n \in N + 1..M, NEW i \in Range(t[n].children)
        PROVE  i \in 1..M /\ n < i /\ Leads(t, q, C, n, i)
    <3>1. Range(t[n].children) = IF n = M THEN {} ELSE {n + 1}
      BY <1>10
    <3>2. n # M /\ i = n + 1
      BY <3>1
    <3>3. n \in Int /\ n <= M /\ n >= N + 1
      BY <1>0, <1>a, <1>p
    <3>4. i \in 1..M /\ n < i
      BY <3>2, <3>3, <1>0, <1>a, <1>p
    <3> QED BY <3>2, <3>4, <1>13
  <2> QED BY <2>2, <2>3, <1>14
<1>16. \A i \in 1..M : i # 1 => \E n \in 1..M : i \in Range(t[n].children)
  <2>1. ASSUME NEW i \in 1..N, i # 1 PROVE \E n \in 1..M : i \in Range(t[n].children)
    <3>1. PICK n \in 1..N : i \in Range(trie[n].children)
      BY <1>0, <1>a, <1>p, <2>1 DEF IsTrie
    <3>2. n \in 1..M
      BY <1>0, <1>a, <1>p
    <3>3. n # p => t[n].children = trie[n].children
      BY <1>a DEF OldNodes
    <3>4. i \in Range(t[n].children)
      BY <3>1, <3>3, <1>9
    <3> QED BY <3>2, <3>4
  <2>2. ASSUME NEW i \in N + 1..M PROVE \E n \in 1..M : i \in Range(t[n].children)
    <3>1. CASE i = N + 1
      <4>1. p \in 1..M /\ i \in Range(t[p].children)
        BY <3>1, <1>0, <1>a, <1>p, <1>9
      <4> QED BY <4>1
    <3>2. CASE i # N + 1
      <4>0. i \in Int /\ i <= M /\ i >= N + 1
        BY <1>0, <1>a, <1>p
      <4>1. i - 1 \in N + 1..M /\ i - 1 # M /\ (i - 1) + 1 = i /\ i - 1 \in 1..M
        BY <3>2, <4>0, <1>0, <1>a, <1>p
      <4>2. PICK n \in N + 1..M : n = i - 1
        BY <4>1
      <4>3. Range(t[n].children) = {n + 1}
        BY <4>1, <4>2, <1>10
      <4>4. n \in 1..M /\ i = n + 1
        BY <4>1, <4>2
      <4> QED BY <4>3, <4>4
    <3> QED BY <3>1, <3>2
  <2> QED BY <2>1, <2>2, <1>14
<1>17. IsTrie(t, q, C)
  <2>1. t # <<>>
    <3>1. 1 \in DOMAIN t
      BY <1>0, <1>a, <1>p
    <3> QED BY <3>1, EmptySeq
  <2> QED BY <2>1, <1>5, <1>8, <1>15, <1>16, <1>a DEF IsTrie
<1>18. Entries(t, q) = Entries(trie, path) \cup {<<url, index>>}
  <2>1. M \in N + 1..M /\ known + M - N = Len(url)
    BY <1>0, <1>a, <1>p
  <2>2. q[M] = url /\ t[M].rule_index = index
    <3>1. q[M] = SubSeq(url, 1, Len(url))
      BY <2>1, <1>4
    <3>2. t[M].rule_index = index
      BY <2>1, <1>a DEF NewNodes
    <3>3. SubSeq(url, 1, Len(url)) = url
      BY <1>a, SubSeqFull
    <3> QED BY <3>1, <3>2, <3>3
  <2>3. {x \in 1..M : t[x].rule_index # 0} = {x \in 1..N : trie[x].rule_index # 0} \cup {M}
    <3>1. \A x \in 1..N : t[x].rule_index = trie[x].rule_index /\ x \in 1..M
      BY <1>0, <1>a, <1>p DEF OldNodes
    <3>2. \A x \in N + 1..M : t[x].rule_index # 0 <=> x = M
      BY <2>1, <1>a DEF NewNodes
    <3>3. M \in 1..M
      BY <1>0, <1>a, <1>p
    <3> QED BY <3>1, <3>2, <3>3, <2>1, <1>14
  <2>4. Entries(t, q) = {<<q[x], t[x].rule_index>> : x \in {y \in 1..M : t[y].rule_index # 0}}
    <3>1. DOMAIN t = 1..M
      BY <1>a
    <3> QED BY <3>1 DEF Entries
  <2>5. Entries(trie, path) = {<<path[x], trie[x].rule_index>> : x \in {y \in 1..N : trie[y].rule_index # 0}}
    BY <1>0, <1>a, <1>p DEF Entries
  <2>6. \A x \in {y \in 1..N : trie[y].rule_index # 0} :
           <<q[x], t[x].rule_index>> = <<path[x], trie[x].rule_index>>
    BY <1>3, <1>a DEF OldNodes
  <2> DEFINE A == {y \in 1..N : trie[y].rule_index # 0}
  <2>7. Entries(t, q) = {<<q[x], t[x].rule_index>> : x \in A \cup {M}}
    BY <2>3, <2>4
  <2>8. {<<q[x], t[x].rule_index>> : x \in A \cup {M}}
          = {<<q[x], t[x].rule_index>> : x \in A} \cup {<<url, index>>}
    <3> HIDE DEF A
    <3> QED BY <2>2
  <2>9. {<<q[x], t[x].rule_index>> : x \in A} = {<<path[x], trie[x].rule_index>> : x \in A}
    BY <2>6
  <2> QED BY <2>5, <2>7, <2>8, <2>9
<1> QED BY <1>17, <1>18

\* Trie::add adds the rule to the entries, whatever nodes it finds.
LEMMA AddProps ==
  ASSUME NEW C, NEW trie, NEW path, IsTrie(trie, path, C), NEW url \in Seq(C),
         NEW index \in Nat \ {0}, RuleAt(trie, url) = 0
  PROVE  \E q : /\ IsTrie(Add(trie, url, index), q, C)
                /\ Entries(Add(trie, url, index), q) = Entries(trie, path) \cup {<<url, index>>}
<1> DEFINE known == Known(trie, url)
           p     == Walk(trie, url)[known]
           N     == Len(trie)
           M     == N + Len(url) - known
           chain == [j \in 1..(Len(url) - known) |->
                       [NodeOf(url[known + j]) EXCEPT
                          !.children = IF known + j = Len(url) THEN <<>> ELSE <<Len(trie) + j + 1>>]]
           grown == trie \o chain
           t     == [grown EXCEPT ![p].children = Append(@, Len(trie) + 1),
                                  ![Len(grown)].rule_index = index]
<1>0. /\ known \in 0..Len(url) /\ p \in DOMAIN trie /\ path[p] = SubSeq(url, 1, known)
      /\ Unknown(trie, path, url, known)
  BY KnownProps DEF Unknown
<1>1. Len(url) \in Nat /\ N \in Nat /\ N >= 1 /\ DOMAIN trie = 1..N /\ trie \in Seq(NodesOf(C))
  BY LenProperties, EmptySeq DEF IsTrie
<1>2. Add(trie, url, index) = IF known = Len(url) THEN [trie EXCEPT ![p].rule_index = index] ELSE t
  BY DEF Add, Known
<1> HIDE DEF known, p
<1>3. CASE known = Len(url)
  <2>1. path[p] = url
    BY <1>0, <1>3, SubSeqFull
  <2>2. trie[p].rule_index = 0
    <3>1. \A e \in Entries(trie, path) : e[1] # url
      BY RuleAtProps
    <3>2. trie[p].rule_index # 0 => <<url, trie[p].rule_index>> \in Entries(trie, path)
      BY <1>0, <2>1 DEF Entries
    <3>3. <<url, trie[p].rule_index>>[1] = url
      OBVIOUS
    <3> QED BY <3>1, <3>2, <3>3
  <2>3. p \in DOMAIN trie
    BY <1>0
  <2>4. /\ IsTrie(Ruled(trie, p, index), path, C)
        /\ Entries(Ruled(trie, p, index), path) = Entries(trie, path) \cup {<<path[p], index>>}
    BY <2>2, <2>3, AddThere
  <2>5. Add(trie, url, index) = Ruled(trie, p, index)
    BY <1>2, <1>3 DEF Ruled
  <2> QED BY <2>1, <2>4, <2>5
<1>4. CASE known < Len(url)
  <2>0. M \in Nat /\ M > N /\ known \in Nat /\ \A k \in 1..Len(url) : url[k] \in C
    BY <1>0, <1>1, <1>4, ElementOfSeq
  <2>1. ASSUME NEW j \in 1..(Len(url) - known)
        PROVE  /\ chain[j] \in NodesOf(C) /\ IsNode(chain[j], url[known + j]) /\ chain[j].rule_index = 0
               /\ chain[j].children = IF known + j = Len(url) THEN <<>> ELSE <<N + j + 1>>
    <3> DEFINE kids == IF known + j = Len(url) THEN <<>> ELSE <<N + j + 1>>
    <3>1. chain[j] = [NodeOf(url[known + j]) EXCEPT !.children = kids]
      OBVIOUS
    <3>2. kids \in Seq(Nat)
      BY <1>1, <2>0
    <3>3. url[known + j] \in C
      BY <2>0, <1>1
    <3> DEFINE node == NodeOf(url[known + j])
    <3>4. node \in NodesOf(C) /\ IsNode(node, url[known + j]) /\ node.rule_index = 0
      BY <3>3, NodeOfProps
    <3> HIDE DEF chain, kids, node
    <3>5. chain[j] = [node EXCEPT !.children = kids]
      BY <3>1 DEF node
    <3>6. /\ chain[j] \in NodesOf(C) /\ chain[j].key = node.key /\ chain[j].param = node.param
          /\ chain[j].rule_index = 0 /\ chain[j].children = kids
      BY <3>2, <3>4, <3>5 DEF NodesOf
    <3> QED BY <3>4, <3>6 DEF IsNode, kids
  <2>2. /\ grown \in Seq(NodesOf(C)) /\ Len(grown) = M
        /\ \A n \in 1..N : grown[n] = trie[n]
        /\ \A n \in N + 1..M : grown[n] = chain[n - N]
    <3>1. chain \in Seq(NodesOf(C)) /\ Len(chain) = Len(url) - known
      <4>1. Len(url) - known \in Nat /\ DOMAIN chain = 1..(Len(url) - known)
        BY <2>0, <1>0, <1>1
      <4>2. chain = [j \in 1..(Len(url) - known) |-> chain[j]]
        OBVIOUS
      <4> HIDE DEF chain
      <4>3. [j \in 1..(Len(url) - known) |-> chain[j]] \in Seq(NodesOf(C))
        <5>1. \A j \in 1..(Len(url) - known) : chain[j] \in NodesOf(C)
          BY <2>1
        <5> QED BY <4>1, <5>1
      <4>4. chain \in Seq(NodesOf(C))
        BY <4>2, <4>3, Zenon
      <4> QED BY <4>1, <4>4, LenProperties
    <3> HIDE DEF chain
    <3>2. /\ grown \in Seq(NodesOf(C)) /\ Len(grown) = Len(trie) + Len(chain)
          /\ \A i \in 1..Len(trie) + Len(chain) :
                grown[i] = IF i <= Len(trie) THEN trie[i] ELSE chain[i - Len(trie)]
      BY <1>1, <3>1, ConcatProperties
    <3> HIDE DEF grown
    <3>3. Len(trie) + Len(chain) = M
      BY <3>1, <1>1, <2>0
    <3>4. \A i \in 1..M : grown[i] = IF i <= N THEN trie[i] ELSE chain[i - N]
      BY <3>2, <3>3
    <3> QED BY <3>2, <3>3, <3>4, <2>0, <1>1
  <2>3. DOMAIN grown = 1..M
    <3> HIDE DEF grown
    <3> QED BY <2>2, LenProperties
  <2>4. t = [[grown EXCEPT ![p] = [grown[p] EXCEPT !.children = Append(@, N + 1)]]
               EXCEPT ![M] = [@ EXCEPT !.rule_index = index]]
    <3> HIDE DEF grown
    <3> QED BY <2>2
  <2>5. p \in 1..N /\ p \in 1..M /\ M \in 1..M /\ p # M /\ M \in N + 1..M
    BY <1>0, <1>1, <2>0
  <2> HIDE DEF grown, chain
  <2>6. /\ DOMAIN t = 1..M
        /\ \A n \in 1..M : n # p /\ n # M => t[n] = grown[n]
        /\ t[p] = [grown[p] EXCEPT !.children = Append(@, N + 1)]
        /\ t[M] = [grown[M] EXCEPT !.rule_index = index]
    BY <2>3, <2>4, <2>5
  <2>6a. t = [n \in 1..M |-> t[n]]
    BY <2>3, <2>4
  <2> HIDE DEF t
  <2>7. \A n \in 1..M : grown[n] \in NodesOf(C)
    <3>1. grown \in Seq(NodesOf(C))
      BY <2>2
    <3> QED BY <2>3, <3>1, NodeProps
  <2>8. /\ t[p] \in NodesOf(C) /\ t[p].key = trie[p].key /\ t[p].param = trie[p].param
        /\ t[p].rule_index = trie[p].rule_index /\ t[p].children = Append(trie[p].children, N + 1)
    <3>1. grown[p] = trie[p] /\ grown[p] \in NodesOf(C)
      BY <2>2, <2>5, <2>7
    <3>2. N + 1 \in Nat /\ trie[p].children \in Seq(Nat)
      BY <3>1, <1>1 DEF NodesOf
    <3>3. Append(trie[p].children, N + 1) \in Seq(Nat)
      BY <3>2, AppendProperties
    <3> DEFINE old  == trie[p]
               kids == Append(trie[p].children, N + 1)
    <3>4. t[p] = [old EXCEPT !.children = kids]
      BY <3>1, <2>6
    <3>5. old \in NodesOf(C) /\ kids \in Seq(Nat)
      BY <3>1, <3>3
    <3> HIDE DEF old, kids
    <3>6. /\ t[p] \in NodesOf(C) /\ t[p].key = old.key /\ t[p].param = old.param
          /\ t[p].rule_index = old.rule_index /\ t[p].children = kids
      BY <3>4, <3>5 DEF NodesOf
    <3> QED BY <3>6 DEF old, kids
  <2>9. ASSUME NEW n \in N + 1..M
        PROVE  /\ IsNode(t[n], url[known + n - N]) /\ t[n] \in NodesOf(C)
               /\ t[n].children = IF n = M THEN <<>> ELSE <<n + 1>>
               /\ t[n].rule_index = IF n = M THEN index ELSE 0
    <3> DEFINE j == n - N
    <3>1. j \in 1..(Len(url) - known) /\ known + j = known + n - N /\ N + j + 1 = n + 1 /\ n \in 1..M
      BY <1>1, <2>0
    <3>2. known + j = Len(url) <=> n = M
      BY <1>1, <2>0
    <3>3. grown[n] = chain[j]
      BY <2>2
    <3> HIDE DEF j
    <3>4. /\ IsNode(grown[n], url[known + n - N]) /\ grown[n].rule_index = 0
          /\ grown[n].children = IF n = M THEN <<>> ELSE <<n + 1>>
          /\ grown[n] \in NodesOf(C)
      BY <2>1, <3>1, <3>2, <3>3
    <3>5. n # p
      BY <1>1, <2>5
    <3>6. CASE n = M
      <4>1. t[n] = [grown[n] EXCEPT !.rule_index = index]
        BY <2>6, <3>6
      <4>2. /\ t[n] \in NodesOf(C) /\ t[n].key = grown[n].key /\ t[n].param = grown[n].param
            /\ t[n].rule_index = index /\ t[n].children = grown[n].children
        BY <3>4, <4>1 DEF NodesOf
      <4> QED BY <3>4, <3>6, <4>2 DEF IsNode
    <3>7. CASE n # M
      <4>1. t[n] = grown[n]
        BY <2>6, <3>1, <3>5, <3>7
      <4> QED BY <3>4, <3>7, <4>1
    <3> QED BY <3>6, <3>7
  <2>10. \A n \in 1..N : /\ t[n].key = trie[n].key /\ t[n].param = trie[n].param
                         /\ t[n].rule_index = trie[n].rule_index
                         /\ n # p => t[n].children = trie[n].children
    <3> TAKE n \in 1..N
    <3>1. n \in 1..M /\ n # M
      BY <1>1, <2>0
    <3>2. n # p => t[n] = trie[n]
      BY <3>1, <2>2, <2>6
    <3> QED BY <3>2, <2>8
  <2>11. t \in Seq(NodesOf(C))
    <3>1. \A n \in 1..M : t[n] \in NodesOf(C)
      <4>1. ASSUME NEW n \in 1..M PROVE t[n] \in NodesOf(C)
        <5>1. CASE n = p
          BY <5>1, <2>8
        <5>2. CASE n = M
          BY <5>2, <2>5, <2>9
        <5>3. CASE n # p /\ n # M
          BY <5>3, <2>6, <2>7
        <5> QED BY <5>1, <5>2, <5>3
      <4> QED BY <4>1
    <3>2. t = [n \in 1..M |-> t[n]]
      BY <2>6a
    <3>3. [n \in 1..M |-> t[n]] \in Seq(NodesOf(C))
      BY <3>1, <2>0
    <3> QED BY <3>2, <3>3, Zenon
  <2>12. \E q : IsTrie(t, q, C) /\ Entries(t, q) = Entries(trie, path) \cup {<<url, index>>}
    <3>1. known \in 0..Len(url) /\ p \in DOMAIN trie /\ path[p] = SubSeq(url, 1, known)
      BY <1>0
    <3>2. Unknown(trie, path, url, known)
      BY <1>0
    <3>3. DOMAIN t = 1..M /\ OldNodes(trie, t, p, N)
      BY <2>6, <2>8, <2>10 DEF OldNodes
    <3>4. NewNodes(t, url, known, index, N, M)
      BY <2>9 DEF NewNodes
    <3>5. \E n, m : n = N /\ m = M
      OBVIOUS
    <3>6. PICK n, m : n = N /\ m = M
      BY <3>5
    <3>7. n = Len(trie) /\ m = n + Len(url) - known
      BY <3>6
    <3>8. DOMAIN t = 1..m /\ OldNodes(trie, t, p, n) /\ NewNodes(t, url, known, index, n, m)
      BY <3>3, <3>4, <3>6
    <3> HIDE DEF N, M
    <3>9. Beyond(C, trie, path, url, known, p, index, t, n, m)
      BY <3>1, <3>2, <3>7, <3>8, <2>11, <1>4 DEF Beyond
    <3> QED BY <3>9, AddBeyond
  <2> QED BY <1>2, <1>4, <2>12
<1> QED BY <1>0, <1>1, <1>3, <1>4

-----------------------------------------------------------------------------
(* update_found: the best of what the children of a node found. *)

\* A value that a search may return, of all the matches in S: the least index, if there is one.
BestIn(S, v) ==
  /\ v.rule_index # 0 => v \in S
  /\ \A r \in S : v.rule_index # 0 /\ v.rule_index <= r.rule_index

BestStep(results, best, k) == IF k = 0 THEN NoRule ELSE update_found(best[k - 1], results[k])

IsBest(results, best) == best = [k \in 0..Len(results) |-> BestStep(results, best, k)]

BestSteps(results, best) == \A k \in 0..Len(results) : best[k] = BestStep(results, best, k)

\* R is a set that results are taken from.
Results(R, results) ==
  results \in Seq(R) /\ NoRule \in R /\ \A r \in R : r.rule_index \in Nat

\* The loop has a value after each child.
LEMMA BestDef ==
  ASSUME NEW R, NEW results, Results(R, results)
  PROVE  \E best \in [0..Len(results) -> R] : BestSteps(results, best) /\ BestOf(results) = best[Len(results)]
<1> DEFINE D == 0..Len(results)
           rank == [k \in D |-> k]
           F == [f \in [D -> R] |-> [k \in D |-> BestStep(results, f, k)]]
           best == CHOOSE f : IsBest(results, f)
<1>0. Len(results) \in Nat /\ D \subseteq Nat /\ \A k \in 1..Len(results) : results[k] \in R
  BY LenProperties, ElementOfSeq DEF Results
<1>1. rank \in [D -> Nat] /\ R # {}
  BY <1>0 DEF Results
<1>2. F \in [[D -> R] -> [D -> R]]
  <2>1. ASSUME NEW f \in [D -> R], NEW k \in D PROVE BestStep(results, f, k) \in R
    <3>1. CASE k = 0
      BY <3>1 DEF BestStep, Results
    <3>2. CASE k # 0
      <4>1. k \in 1..Len(results) /\ k - 1 \in D
        BY <1>0, <3>2
      <4>2. f[k - 1] \in R /\ results[k] \in R
        BY <1>0, <4>1
      <4> QED BY <3>2, <4>2 DEF BestStep, update_found
    <3> QED BY <3>1, <3>2
  <2> HIDE DEF D
  <2> QED BY <2>1
<1>3. ASSUME NEW f \in [D -> R], NEW g \in [D -> R], NEW k \in D,
             \A j \in D : rank[j] < rank[k] => f[j] = g[j]
      PROVE  F[f][k] = F[g][k]
  <2>1. k # 0 => f[k - 1] = g[k - 1]
    <3>1. k # 0 => k - 1 \in D /\ rank[k - 1] < rank[k]
      BY <1>0
    <3> QED BY <3>1, <1>3
  <2>2. BestStep(results, f, k) = BestStep(results, g, k)
    BY <2>1 DEF BestStep
  <2> QED BY <2>2
<1>4. Recurses(D, R, rank, F)
  <2> HIDE DEF D, rank, F
  <2> QED BY <1>1, <1>2, <1>3 DEF Recurses
<1>5. PICK f \in [D -> R] : f = F[f]
  <2> HIDE DEF D, rank, F
  <2> QED BY <1>4, Recursion
<1>6. \E h : IsBest(results, h)
  <2> DEFINE h == [k \in D |-> BestStep(results, f, k)]
  <2>1. f = h
    BY <1>5
  <2>2. f = [k \in D |-> BestStep(results, f, k)]
    BY <2>1
  <2> QED BY <2>2 DEF IsBest
<1>7. IsBest(results, best)
  BY <1>6, Zenon
<1>8. BestOf(results) = best[Len(results)]
  BY DEF BestOf, IsBest, BestStep
<1>9. BestSteps(results, best)
  BY <1>7 DEF IsBest, BestSteps
<1>10. best = [k \in D |-> best[k]]
  <2>1. best = [k \in D |-> BestStep(results, best, k)]
    BY <1>7 DEF IsBest
  <2> HIDE DEF best
  <2> QED BY <2>1
<1> HIDE DEF best
<1>11. \A k \in Nat : k \in D => best[k] \in R
  <2> DEFINE S == {k \in Nat : k \in D => best[k] \in R}
  <2>1. 0 \in S
    <3>1. best[0] = NoRule
      BY <1>0, <1>9 DEF BestSteps, BestStep
    <3> QED BY <3>1 DEF Results
  <2>2. ASSUME NEW k \in S PROVE k + 1 \in S
    <3> SUFFICES ASSUME k + 1 \in D PROVE best[k + 1] \in R
      OBVIOUS
    <3>1. k \in D /\ k + 1 \in 1..Len(results) /\ (k + 1) - 1 = k /\ k + 1 # 0
      BY <1>0
    <3>2. best[k + 1] = update_found(best[k], results[k + 1])
      <4>1. best[k + 1] = BestStep(results, best, k + 1)
        BY <1>9 DEF BestSteps
      <4> QED BY <3>1, <4>1 DEF BestStep
    <3>3. best[k] \in R /\ results[k + 1] \in R
      BY <1>0, <3>1
    <3> QED BY <3>2, <3>3 DEF update_found
  <2> HIDE DEF S
  <2>3. S = Nat
    <3>1. S \in SUBSET Nat
      BY DEF S
    <3> QED BY <2>1, <2>2, <3>1, NatInd
  <2> QED BY <2>3 DEF S
<1>12. best \in [D -> R]
  <2>1. \A k \in D : best[k] \in R
    BY <1>0, <1>11
  <2> HIDE DEF D
  <2> QED BY <2>1, <1>10
<1> QED BY <1>8, <1>9, <1>12

\* Each result is the best of its own matches.
EachBest(S, results) ==
  \A k \in 1..Len(results) : BestIn(S[k], results[k]) /\ \A r \in S[k] : r.rule_index \in Nat \ {0}

\* The best of the best is the best of all.
LEMMA BestOfProps ==
  ASSUME NEW R, NEW results, Results(R, results), NEW S, EachBest(S, results)
  PROVE  /\ BestOf(results) \in R
         /\ BestIn(UNION {S[k] : k \in 1..Len(results)}, BestOf(results))
<1>1. PICK best \in [0..Len(results) -> R] : BestSteps(results, best) /\ BestOf(results) = best[Len(results)]
  BY BestDef
<1> DEFINE Upto(n) == UNION {S[k] : k \in 1..n}
           G == {n \in Nat : n <= Len(results) => BestIn(Upto(n), best[n])}
<1>0. Len(results) \in Nat /\ (\A k \in 1..Len(results) : results[k] \in R)
      /\ \A r \in R : r.rule_index \in Nat
  BY LenProperties, ElementOfSeq DEF Results
<1>2. 0 \in G
  <2>1. best[0] = NoRule
    BY <1>0, <1>1 DEF BestSteps, BestStep
  <2>2. NoRule.rule_index = 0
    BY DEF NoRule
  <2>3. Upto(0) = {}
    OBVIOUS
  <2> HIDE DEF Upto
  <2> QED BY <2>1, <2>2, <2>3 DEF BestIn
<1>3. ASSUME NEW n \in G PROVE n + 1 \in G
  <2> SUFFICES ASSUME n + 1 <= Len(results) PROVE BestIn(Upto(n + 1), best[n + 1])
    OBVIOUS
  <2>1. n \in Nat /\ n + 1 \in 1..Len(results) /\ n + 1 \in 0..Len(results) /\ n \in 0..Len(results)
        /\ (n + 1) - 1 = n /\ n + 1 # 0
    BY <1>0
  <2>2. best[n + 1] = update_found(best[n], results[n + 1])
    <3>1. best[n + 1] = BestStep(results, best, n + 1)
      BY <2>1, <1>1 DEF BestSteps
    <3> QED BY <2>1, <3>1 DEF BestStep
  <2>3. BestIn(Upto(n), best[n])
    BY <2>1
  <2>4. BestIn(S[n + 1], results[n + 1]) /\ \A r \in S[n + 1] : r.rule_index \in Nat \ {0}
    BY <2>1 DEF EachBest
  <2>5. Upto(n + 1) = Upto(n) \cup S[n + 1]
    <3>1. 1..n + 1 = 1..n \cup {n + 1}
      BY <2>1
    <3> QED BY <3>1
  <2>6. \A r \in Upto(n) : r.rule_index \in Nat \ {0}
    <3>1. \A k \in 1..n : \A r \in S[k] : r.rule_index \in Nat \ {0}
      <4> TAKE k \in 1..n
      <4>1. k \in 1..Len(results)
        BY <1>0, <2>1
      <4> QED BY <4>1 DEF EachBest
    <3> QED BY <3>1
  <2>7. best[n].rule_index \in Nat /\ results[n + 1].rule_index \in Nat
    BY <1>0, <2>1
  <2> HIDE DEF Upto, G
  <2>8. PICK a : a = best[n]
    OBVIOUS
  <2>9. PICK b : b = results[n + 1]
    OBVIOUS
  <2>10. CASE b.rule_index # 0 /\ (a.rule_index = 0 \/ a.rule_index > b.rule_index)
    <3>1. best[n + 1] = b
      BY <2>2, <2>8, <2>9, <2>10 DEF update_found
    <3>2. b \in S[n + 1] /\ \A r \in S[n + 1] : b.rule_index <= r.rule_index
      BY <2>4, <2>9, <2>10 DEF BestIn
    <3>3. \A r \in Upto(n) : a.rule_index # 0 /\ a.rule_index <= r.rule_index
      BY <2>3, <2>8 DEF BestIn
    <3>4. \A r \in Upto(n) : b.rule_index <= r.rule_index
      <4> TAKE r \in Upto(n)
      <4>1. a.rule_index # 0 /\ a.rule_index <= r.rule_index /\ r.rule_index \in Nat
        BY <3>3, <2>6
      <4> QED BY <4>1, <2>7, <2>8, <2>9, <2>10
    <3> QED BY <2>5, <2>10, <3>1, <3>2, <3>4 DEF BestIn
  <2>11. CASE ~(b.rule_index # 0 /\ (a.rule_index = 0 \/ a.rule_index > b.rule_index))
    <3>1. best[n + 1] = a
      BY <2>2, <2>8, <2>9, <2>11 DEF update_found
    <3>2. a.rule_index # 0 => a \in Upto(n)
      BY <2>3, <2>8 DEF BestIn
    <3>3. \A r \in Upto(n) : a.rule_index # 0 /\ a.rule_index <= r.rule_index
      BY <2>3, <2>8 DEF BestIn
    <3>4. \A r \in S[n + 1] : a.rule_index # 0 /\ a.rule_index <= r.rule_index
      <4> TAKE r \in S[n + 1]
      <4>1. b.rule_index # 0 /\ b.rule_index <= r.rule_index /\ r.rule_index \in Nat
        BY <2>4, <2>9 DEF BestIn
      <4> QED BY <4>1, <2>7, <2>8, <2>9, <2>11
    <3> QED BY <2>5, <3>1, <3>2, <3>3, <3>4 DEF BestIn
  <2> QED BY <2>10, <2>11
<1>4. G = Nat
  <2>1. G \in SUBSET Nat
    OBVIOUS
  <2> HIDE DEF G
  <2> QED BY <1>2, <1>3, <2>1, NatInd
<1>5. BestIn(Upto(Len(results)), best[Len(results)])
  BY <1>0, <1>4
<1>6. best[Len(results)] \in R
  BY <1>0
<1> QED BY <1>1, <1>5, <1>6

-----------------------------------------------------------------------------
(* The reference: Matching, which goes through a rule token by token. *)

Pairs(U) == [param : Param, value : Seq(U)]

\* What a child takes from pos on, if it takes anything, is in the URL.
LEMMA TakenProps ==
  ASSUME NEW C, NEW child, child.param \in Param \cup {"none"}, child.key \in Seq(C),
         NEW U, NEW url \in Seq(U), NEW pos \in 1..Len(url)
  PROVE  /\ From(url, pos) \in Seq(U) /\ Len(From(url, pos)) = Len(url) - pos + 1
         /\ Takes(child, From(url, pos)) \in 0..Len(url) - pos + 1
         /\ pos + Takes(child, From(url, pos)) \in 1..Len(url) + 1
         /\ SubSeq(From(url, pos), 1, Takes(child, From(url, pos))) \in Seq(U)
<1> DEFINE rest == From(url, pos)
           taken == Takes(child, rest)
<1>0. Len(url) \in Nat /\ pos \in 1..Len(url) + 1
  BY LenProperties
<1>1. rest \in Seq(U) /\ Len(rest) = Len(url) - pos + 1
  BY <1>0, FromProps
<1> HIDE DEF rest
<1>2. rest # <<>>
  <2>1. Len(rest) # 0
    BY <1>0, <1>1
  <2> QED BY <2>1, EmptySeq
<1>3. taken \in 0..Len(rest)
  BY <1>1, <1>2, TakesProps
<1> HIDE DEF taken
<1>4. \A i \in 1..taken : rest[i] \in U
  <2>1. \A i \in 1..Len(rest) : rest[i] \in U
    BY <1>1, ElementOfSeq
  <2> QED BY <2>1, <1>0, <1>1, <1>3
<1>5. SubSeq(rest, 1, taken) \in Seq(U)
  <2>1. taken \in Int
    BY <1>0, <1>1, <1>3
  <2> QED BY <1>4, <2>1, SubSeqProperties
<1>6. taken \in 0..Len(url) - pos + 1 /\ pos + taken \in 1..Len(url) + 1
  BY <1>0, <1>1, <1>3
<1> QED BY <1>1, <1>5, <1>6 DEF rest, taken

\* What a child adds to the parameters.
LEMMA ParamOfProps ==
  ASSUME NEW child, child.param \in Param \cup {"none"}, NEW U, NEW text \in Seq(U)
  PROVE  ParamOf(child, text) \in Seq(Pairs(U))
<1>1. CASE child.param = "none"
  BY <1>1 DEF ParamOf
<1>2. CASE child.param \in Param
  <2> DEFINE pair == [param |-> child.param, value |-> text]
  <2>1. pair \in Pairs(U)
    BY <1>2 DEF Pairs
  <2>2. "none" \notin Param
    BY DEF Param
  <2>3. ParamOf(child, text) = <<pair>>
    BY <1>2, <2>2 DEF ParamOf
  <2> HIDE DEF pair
  <2> QED BY <2>1, <2>3
<1> QED BY <1>1, <1>2

\* The parameters found by way of a child; next: those found behind it.
ParamsVia(child, next, url, pos) ==
  LET rest  == From(url, pos)
      taken == Takes(child, rest)
  IN IF taken = 0 THEN {} ELSE {ParamOf(child, SubSeq(rest, 1, taken)) \o p : p \in next[pos + taken]}

MatchStep(pattern, url, next, i) ==
  [pos \in 1..(Len(url) + 1) |->
    IF i > Len(pattern) \/ pos > Len(url)
    THEN IF i > Len(pattern) /\ pos > Len(url) THEN {<<>>} ELSE {}
    ELSE ParamsVia(NodeOf(pattern[i]), next, url, pos)]

IsMatching(pattern, url, f) == f = [i \in 1..(Len(pattern) + 1) |-> MatchStep(pattern, url, f[i + 1], i)]

MatchSteps(pattern, url, f) ==
  \A i \in 1..(Len(pattern) + 1) : f[i] = MatchStep(pattern, url, f[i + 1], i)

\* The sets of parameters by the place in the URL.
ParamSets(U, url) == [1..(Len(url) + 1) -> SUBSET Seq(Pairs(U))]

\* A step has sets of parameters.
LEMMA MatchStepProps ==
  ASSUME NEW C, NEW pattern \in Seq(C), NEW U, NEW url \in Seq(U), NEW i \in 1..Len(pattern) + 1,
         NEW next, i <= Len(pattern) => next \in ParamSets(U, url)
  PROVE  MatchStep(pattern, url, next, i) \in ParamSets(U, url)
<1>0. Len(url) \in Nat /\ Len(pattern) \in Nat /\ \A k \in 1..Len(pattern) : pattern[k] \in C
  BY LenProperties, ElementOfSeq
<1>1. ASSUME NEW pos \in 1..Len(url), i <= Len(pattern)
      PROVE  ParamsVia(NodeOf(pattern[i]), next, url, pos) \in SUBSET Seq(Pairs(U))
  <2> DEFINE child == NodeOf(pattern[i])
             rest == From(url, pos)
             taken == Takes(child, rest)
             q == ParamOf(child, SubSeq(rest, 1, taken))
  <2>1. child.param \in Param \cup {"none"} /\ child.key \in Seq(C)
    <3>1. i \in 1..Len(pattern)
      BY <1>0, <1>1
    <3>2. child \in NodesOf(C)
      BY <1>0, <3>1, NodeOfProps
    <3> HIDE DEF child
    <3> QED BY <3>2 DEF NodesOf
  <2>0. ParamsVia(child, next, url, pos) = IF taken = 0 THEN {} ELSE {q \o p : p \in next[pos + taken]}
    BY DEF ParamsVia
  <2> HIDE DEF child
  <2>2. pos + taken \in 1..Len(url) + 1 /\ SubSeq(rest, 1, taken) \in Seq(U)
    BY <2>1, TakenProps
  <2>3. q \in Seq(Pairs(U))
    BY <2>1, <2>2, ParamOfProps
  <2> HIDE DEF q, taken
  <2>4. next[pos + taken] \in SUBSET Seq(Pairs(U))
    BY <1>1, <2>2 DEF ParamSets
  <2>5. \A p \in next[pos + taken] : q \o p \in Seq(Pairs(U))
    BY <2>3, <2>4, ConcatProperties
  <2> DEFINE all == {q \o p : p \in next[pos + taken]}
  <2>6. \A x \in all : x \in Seq(Pairs(U))
    <3> TAKE x \in all
    <3>1. PICK p \in next[pos + taken] : x = q \o p
      OBVIOUS
    <3> QED BY <2>5, <3>1
  <2>7. ParamsVia(child, next, url, pos) \in SUBSET Seq(Pairs(U))
    <3>1. ParamsVia(child, next, url, pos) = IF taken = 0 THEN {} ELSE all
      BY <2>0
    <3> HIDE DEF all
    <3> QED BY <2>6, <3>1
  <2> QED BY <2>7 DEF child
<1>2. ASSUME NEW pos \in 1..Len(url) + 1
      PROVE  MatchStep(pattern, url, next, i)[pos] \in SUBSET Seq(Pairs(U))
  <2>1. MatchStep(pattern, url, next, i)[pos] =
          IF i > Len(pattern) \/ pos > Len(url)
          THEN IF i > Len(pattern) /\ pos > Len(url) THEN {<<>>} ELSE {}
          ELSE ParamsVia(NodeOf(pattern[i]), next, url, pos)
    BY DEF MatchStep
  <2>2. <<>> \in Seq(Pairs(U))
    OBVIOUS
  <2>3. CASE i > Len(pattern) \/ pos > Len(url)
    BY <2>1, <2>2, <2>3
  <2>4. CASE ~(i > Len(pattern) \/ pos > Len(url))
    <3>1. i <= Len(pattern) /\ pos \in 1..Len(url)
      BY <1>0, <2>4
    <3>2. ParamsVia(NodeOf(pattern[i]), next, url, pos) \in SUBSET Seq(Pairs(U))
      BY <1>1, <3>1
    <3> QED BY <2>1, <2>4, <3>2
  <2> QED BY <2>3, <2>4
<1>3. MatchStep(pattern, url, next, i) = [pos \in 1..(Len(url) + 1) |-> MatchStep(pattern, url, next, i)[pos]]
  BY DEF MatchStep
<1> QED BY <1>2, <1>3 DEF ParamSets

\* Matching goes by these steps.
LEMMA MatchingDef ==
  ASSUME NEW C, NEW pattern \in Seq(C), NEW U, NEW url \in Seq(U)
  PROVE  MatchSteps(pattern, url, Matching(pattern, url))
<1> DEFINE n == Len(pattern)
           D == 1..(n + 1)
           V == ParamSets(U, url)
           rank == [i \in D |-> n + 1 - i]
           F == [f \in [D -> V] |-> [i \in D |-> MatchStep(pattern, url, f[i + 1], i)]]
           m == CHOOSE f : IsMatching(pattern, url, f)
<1>0. n \in Nat /\ Len(url) \in Nat
  BY LenProperties
<1> HIDE DEF n
<1>1. rank \in [D -> Nat] /\ V # {}
  <2>1. rank \in [D -> Nat]
    BY <1>0
  <2>2. [pos \in 1..(Len(url) + 1) |-> {}] \in V
    BY DEF ParamSets
  <2> QED BY <2>1, <2>2
<1>2. F \in [[D -> V] -> [D -> V]]
  <2>1. ASSUME NEW f \in [D -> V], NEW i \in D PROVE MatchStep(pattern, url, f[i + 1], i) \in V
    <3>1. i <= n => i + 1 \in D
      BY <1>0
    <3>2. i <= n => f[i + 1] \in V
      BY <3>1
    <3> HIDE DEF V
    <3> QED BY <3>2, MatchStepProps DEF n, V
  <2> HIDE DEF D, V
  <2> QED BY <2>1
<1>3. ASSUME NEW f \in [D -> V], NEW g \in [D -> V], NEW i \in D,
             \A j \in D : rank[j] < rank[i] => f[j] = g[j]
      PROVE  F[f][i] = F[g][i]
  <2>1. i <= n => f[i + 1] = g[i + 1]
    <3>1. i <= n => i + 1 \in D /\ rank[i + 1] < rank[i]
      BY <1>0
    <3> QED BY <3>1, <1>3
  <2>2. MatchStep(pattern, url, f[i + 1], i) = MatchStep(pattern, url, g[i + 1], i)
    <3>1. CASE i <= n
      BY <2>1, <3>1
    <3>2. CASE i > n
      BY <3>2 DEF MatchStep, n
    <3> QED BY <1>0, <3>1, <3>2
  <2> QED BY <2>2
<1>4. Recurses(D, V, rank, F)
  <2> HIDE DEF D, V, rank, F
  <2> QED BY <1>1, <1>2, <1>3 DEF Recurses
<1>5. PICK f \in [D -> V] : f = F[f]
  <2> HIDE DEF D, V, rank, F
  <2> QED BY <1>4, Recursion
<1>6. \E h : IsMatching(pattern, url, h)
  <2> DEFINE h == [i \in D |-> MatchStep(pattern, url, f[i + 1], i)]
  <2>1. f = h
    BY <1>5
  <2>2. f = [i \in D |-> MatchStep(pattern, url, f[i + 1], i)]
    BY <2>1
  <2> QED BY <2>2 DEF IsMatching, n
<1>7. IsMatching(pattern, url, m)
  BY <1>6, Zenon
<1>8. Matching(pattern, url) = m
  BY DEF Matching, IsMatching, MatchStep, ParamsVia
<1>9. MatchSteps(pattern, url, m)
  BY <1>7 DEF IsMatching, MatchSteps
<1> HIDE DEF m
<1> QED BY <1>8, <1>9

\* Its values are sets of parameters.
LEMMA MatchingType ==
  ASSUME NEW C, NEW pattern \in Seq(C), NEW U, NEW url \in Seq(U)
  PROVE  \A i \in 1..Len(pattern) + 1 : Matching(pattern, url)[i] \in ParamSets(U, url)
<1> DEFINE m == Matching(pattern, url)
           n == Len(pattern)
           S == {k \in Nat : k <= n => m[n + 1 - k] \in ParamSets(U, url)}
<1>0. n \in Nat /\ MatchSteps(pattern, url, m)
  BY LenProperties, MatchingDef
<1> HIDE DEF m, n
<1>1. \A i \in 1..n + 1 : (i <= n => m[i + 1] \in ParamSets(U, url)) => m[i] \in ParamSets(U, url)
  <2> TAKE i \in 1..n + 1
  <2> HAVE i <= n => m[i + 1] \in ParamSets(U, url)
  <2>1. i \in 1..Len(pattern) + 1 /\ (i <= Len(pattern) => m[i + 1] \in ParamSets(U, url))
    BY DEF n
  <2>2. MatchStep(pattern, url, m[i + 1], i) \in ParamSets(U, url)
    BY <2>1, MatchStepProps
  <2>3. m[i] = MatchStep(pattern, url, m[i + 1], i)
    BY <1>0, <2>1 DEF MatchSteps
  <2> QED BY <2>2, <2>3
<1>2. 0 \in S
  <2>1. n + 1 \in 1..n + 1 /\ ~(n + 1 <= n) /\ n + 1 - 0 = n + 1
    BY <1>0
  <2> QED BY <2>1, <1>1
<1>3. ASSUME NEW k \in S PROVE k + 1 \in S
  <2> SUFFICES ASSUME k + 1 <= n PROVE m[n + 1 - (k + 1)] \in ParamSets(U, url)
    OBVIOUS
  <2>1. PICK i \in 1..n + 1 : i = n + 1 - (k + 1)
    BY <1>0
  <2>2. i + 1 = n + 1 - k /\ k <= n
    BY <1>0, <2>1
  <2>3. m[i + 1] \in ParamSets(U, url)
    BY <2>2
  <2> QED BY <2>1, <2>3, <1>1
<1>4. S = Nat
  <2>1. S \in SUBSET Nat
    OBVIOUS
  <2> HIDE DEF S
  <2> QED BY <1>2, <1>3, <2>1, NatInd
<1>5. ASSUME NEW i \in 1..n + 1 PROVE m[i] \in ParamSets(U, url)
  <2>1. PICK k \in Nat : k = n + 1 - i
    BY <1>0
  <2>2. k <= n /\ n + 1 - k = i
    BY <1>0, <2>1
  <2>3. k \in S
    BY <1>4, Zenon
  <2> QED BY <2>2, <2>3
<1> QED BY <1>5 DEF m, n

-----------------------------------------------------------------------------
(* The nodes behind a node, and what matches by way of them. *)

\* t goes on where s ends.
Starts(s, t) == Len(s) <= Len(t) /\ \A i \in 1..Len(s) : s[i] = t[i]

\* A way that is as long is the same.
LEMMA StartsWhole ==
  ASSUME NEW C, NEW s \in Seq(C), NEW t \in Seq(C), Starts(s, t), Len(s) = Len(t)
  PROVE  s = t
<1>1. Len(s) \in Nat /\ Len(t) \in Nat
  BY LenProperties
<1> QED BY <1>1, SeqEqual DEF Starts

\* A way that goes on where s ends has s before its last token, unless it is s.
LEMMA StartsAppend ==
  ASSUME NEW C, NEW s \in Seq(C), NEW t \in Seq(C), NEW a \in C
  PROVE  /\ Starts(s, t) => Starts(s, Append(t, a))
         /\ Starts(s, Append(t, a)) => s = Append(t, a) \/ Starts(s, t)
<1>0. Len(s) \in Nat /\ Len(t) \in Nat
  BY LenProperties
<1>1. /\ Append(t, a) \in Seq(C) /\ Len(Append(t, a)) = Len(t) + 1
      /\ \A i \in 1..Len(t) : Append(t, a)[i] = t[i]
  BY AppendProperties
<1>2. ASSUME Starts(s, t) PROVE Starts(s, Append(t, a))
  BY <1>0, <1>1, <1>2 DEF Starts
<1>3. ASSUME Starts(s, Append(t, a)), s # Append(t, a) PROVE Starts(s, t)
  <2>1. Len(s) # Len(t) + 1
    BY <1>1, <1>3, StartsWhole
  <2>2. Len(s) <= Len(t)
    BY <1>0, <1>1, <1>3, <2>1 DEF Starts
  <2> QED BY <1>0, <1>1, <1>3, <2>2 DEF Starts
<1> QED BY <1>2, <1>3

\* What goes on behind s and a goes on behind s, with a.
LEMMA AppendStarts ==
  ASSUME NEW C, NEW s \in Seq(C), NEW t \in Seq(C), NEW a \in C, Starts(Append(s, a), t)
  PROVE  Starts(s, t) /\ Len(s) + 1 \in 1..Len(t) /\ t[Len(s) + 1] = a /\ Len(Append(s, a)) = Len(s) + 1
<1>0. Len(s) \in Nat /\ Len(t) \in Nat
  BY LenProperties
<1>1. /\ Len(Append(s, a)) = Len(s) + 1 /\ Append(s, a)[Len(s) + 1] = a
      /\ \A i \in 1..Len(s) : Append(s, a)[i] = s[i]
  BY AppendProperties
<1>2. Len(s) + 1 <= Len(t) /\ \A i \in 1..Len(s) + 1 : Append(s, a)[i] = t[i]
  BY <1>1 DEF Starts
<1>3. Len(s) + 1 \in 1..Len(s) + 1 /\ 1..Len(s) \subseteq 1..Len(s) + 1
  BY <1>0
<1>4. t[Len(s) + 1] = a
  BY <1>1, <1>2, <1>3
<1>5. \A i \in 1..Len(s) : s[i] = t[i]
  BY <1>1, <1>2, <1>3
<1> QED BY <1>0, <1>1, <1>2, <1>4, <1>5 DEF Starts

\* A node with a longer way is behind a child.
LEMMA ByAChild ==
  ASSUME NEW C, NEW trie, NEW path, IsTrie(trie, path, C), NEW n \in DOMAIN trie
  PROVE  \A x \in DOMAIN trie : Starts(path[n], path[x]) /\ x # n
            => \E c \in Range(trie[n].children) : Starts(path[c], path[x])
<1> DEFINE D == DOMAIN trie
           rank == [x \in D |-> x]
           ByChild(x) == \E c \in Range(trie[n].children) : Starts(path[c], path[x])
           S == {x \in D : Starts(path[n], path[x]) /\ x # n => ByChild(x)}
<1>0. D \subseteq Nat /\ path \in [D -> Seq(C)]
  BY LenProperties DEF IsTrie
<1>1. ASSUME NEW x \in D, \A y \in D : rank[y] < rank[x] => y \in S PROVE x \in S
  <2> SUFFICES ASSUME Starts(path[n], path[x]), x # n PROVE ByChild(x)
    OBVIOUS
  <2>1. path[x] # path[n]
    BY DEF IsTrie
  <2>2. x # 1
    <3> SUFFICES ASSUME x = 1 PROVE FALSE
      OBVIOUS
    <3>1. path[x] = <<>> /\ path[n] \in Seq(C) /\ Len(path[n]) \in Nat
      BY <1>0, LenProperties DEF IsTrie
    <3>2. Len(path[n]) = 0
      <4>1. Len(path[n]) <= Len(path[x]) /\ Len(path[x]) = 0
        BY <3>1 DEF Starts
      <4> QED BY <3>1, <4>1
    <3>3. path[n] = <<>>
      BY <3>1, <3>2, EmptySeq
    <3> QED BY <2>1, <3>1, <3>3
  <2>3. PICK m \in D : x \in Range(trie[m].children)
    BY <2>2 DEF IsTrie
  <2>4. m < x /\ Leads(trie, path, C, m, x)
    BY <2>3 DEF IsTrie
  <2>5. PICK u \in C : path[x] = Append(path[m], u)
    BY <2>4 DEF Leads
  <2>6. Starts(path[n], path[m])
    BY <1>0, <2>1, <2>5, StartsAppend
  <2>7. CASE m = n
    <3>1. Starts(path[x], path[x])
      <4>1. Len(path[x]) \in Nat
        BY <1>0, LenProperties
      <4> QED BY <4>1 DEF Starts
    <3> QED BY <2>3, <2>7, <3>1
  <2>8. CASE m # n
    <3>1. ByChild(m)
      BY <1>1, <2>4, <2>6, <2>8
    <3>2. PICK c \in Range(trie[n].children) : Starts(path[c], path[m])
      BY <3>1
    <3>3. c \in D
      BY DEF IsTrie
    <3>4. Starts(path[c], path[x])
      BY <1>0, <2>5, <3>2, <3>3, StartsAppend
    <3> QED BY <3>4
  <2> QED BY <2>7, <2>8
<1>2. D \subseteq S
  <2>1. rank \in [D -> Nat]
    BY <1>0
  <2> HIDE DEF D, S, rank
  <2>2. Inherited(D, S, rank)
    BY <1>1, <2>1 DEF Inherited
  <2> QED BY <2>2, RankInd
<1> QED BY <1>2

\* What a search returns.
ResultSet(U) == [rule_index : Nat, params : Seq(Pairs(U))]

Match(index, p) == [rule_index |-> index, params |-> p]

\* The matches for the URL from pos on by way of node n: the rules at n and behind it.
Cands(trie, path, U, url, n, pos) ==
  {r \in ResultSet(U) :
     \E x \in DOMAIN trie :
        /\ trie[x].rule_index # 0 /\ Starts(path[n], path[x])
        /\ \E p \in Matching(path[x], url)[Len(path[n]) + 1][pos] : r = Match(trie[x].rule_index, p)}

\* The same by way of a child that is not there yet; S: the matches behind it.
ViaChild(child, S, url, pos) ==
  LET rest  == From(url, pos)
      taken == Takes(child, rest)
  IN IF taken = 0 THEN {} ELSE {WithParam(r, child, SubSeq(rest, 1, taken)) : r \in S[pos + taken]}

CandsBy(trie, path, U, url, n) == [pos \in 1..Len(url) + 1 |-> Cands(trie, path, U, url, n, pos)]

\* A child adds its parameter to a match and leaves the rule.
LEMMA WithParamProps ==
  ASSUME NEW U, NEW r \in ResultSet(U), NEW child, child.param \in Param \cup {"none"},
         NEW text \in Seq(U)
  PROVE  /\ WithParam(r, child, text) = Match(r.rule_index, ParamOf(child, text) \o r.params)
         /\ WithParam(r, child, text) \in ResultSet(U)
         /\ WithParam(r, child, text).rule_index = r.rule_index
<1>1. ParamOf(child, text) \in Seq(Pairs(U)) /\ r.params \in Seq(Pairs(U)) /\ r.rule_index \in Nat
  BY ParamOfProps DEF ResultSet
<1>2. WithParam(r, child, text) = Match(r.rule_index, ParamOf(child, text) \o r.params)
  <2>1. PICK a \in Nat, b \in Seq(Pairs(U)) : r = [rule_index |-> a, params |-> b]
    BY DEF ResultSet
  <2> DEFINE q == ParamOf(child, text)
  <2>2. WithParam(r, child, text) = [r EXCEPT !.params = q \o r.params]
    BY <2>1 DEF WithParam
  <2> HIDE DEF q
  <2>3. ASSUME NEW v PROVE [r EXCEPT !.params = v] = [rule_index |-> a, params |-> v]
    BY <2>1, SMT
  <2> QED BY <2>1, <2>2, <2>3 DEF Match, q
<1>3. ParamOf(child, text) \o r.params \in Seq(Pairs(U))
  BY <1>1, ConcatProperties
<1> QED BY <1>1, <1>2, <1>3 DEF Match, ResultSet

\* Inside the URL a rule goes on with its token; at the end of the URL it must end as well.
LEMMA MatchingAt ==
  ASSUME NEW C, NEW pattern \in Seq(C), NEW U, NEW url \in Seq(U)
  PROVE  /\ \A i \in 1..Len(pattern), pos \in 1..Len(url) :
              Matching(pattern, url)[i][pos] =
                ParamsVia(NodeOf(pattern[i]), Matching(pattern, url)[i + 1], url, pos)
         /\ \A pos \in 1..Len(url) : Matching(pattern, url)[Len(pattern) + 1][pos] = {}
         /\ \A i \in 1..Len(pattern) : Matching(pattern, url)[i][Len(url) + 1] = {}
         /\ Matching(pattern, url)[Len(pattern) + 1][Len(url) + 1] = {<<>>}
<1> DEFINE m == Matching(pattern, url)
<1>0. Len(pattern) \in Nat /\ Len(url) \in Nat
  BY LenProperties
<1>1. MatchSteps(pattern, url, m)
  BY MatchingDef
<1> HIDE DEF m
<1>2. ASSUME NEW i \in 1..Len(pattern) + 1, NEW pos \in 1..Len(url) + 1
      PROVE  m[i][pos] = IF i > Len(pattern) \/ pos > Len(url)
                         THEN IF i > Len(pattern) /\ pos > Len(url) THEN {<<>>} ELSE {}
                         ELSE ParamsVia(NodeOf(pattern[i]), m[i + 1], url, pos)
  <2>1. m[i] = MatchStep(pattern, url, m[i + 1], i)
    BY <1>1 DEF MatchSteps
  <2> QED BY <2>1 DEF MatchStep
<1>3. ASSUME NEW i \in 1..Len(pattern), NEW pos \in 1..Len(url)
      PROVE  m[i][pos] = ParamsVia(NodeOf(pattern[i]), m[i + 1], url, pos)
  <2>1. i \in 1..Len(pattern) + 1 /\ pos \in 1..Len(url) + 1 /\ ~(i > Len(pattern) \/ pos > Len(url))
    BY <1>0
  <2> QED BY <1>2, <2>1
<1>4. ASSUME NEW pos \in 1..Len(url) PROVE m[Len(pattern) + 1][pos] = {}
  <2>1. /\ Len(pattern) + 1 \in 1..Len(pattern) + 1 /\ pos \in 1..Len(url) + 1
        /\ Len(pattern) + 1 > Len(pattern) /\ ~(pos > Len(url))
    BY <1>0
  <2> QED BY <1>2, <2>1
<1>5. ASSUME NEW i \in 1..Len(pattern) PROVE m[i][Len(url) + 1] = {}
  <2>1. /\ i \in 1..Len(pattern) + 1 /\ Len(url) + 1 \in 1..Len(url) + 1
        /\ ~(i > Len(pattern)) /\ Len(url) + 1 > Len(url)
    BY <1>0
  <2> QED BY <1>2, <2>1
<1>6. m[Len(pattern) + 1][Len(url) + 1] = {<<>>}
  <2>1. /\ Len(pattern) + 1 \in 1..Len(pattern) + 1 /\ Len(url) + 1 \in 1..Len(url) + 1
        /\ Len(pattern) + 1 > Len(pattern) /\ Len(url) + 1 > Len(url)
    BY <1>0
  <2> QED BY <1>2, <2>1
<1> QED BY <1>3, <1>4, <1>5, <1>6 DEF m

\* The parameters of a way through a node are those of its token.
LEMMA ParamsViaNode ==
  ASSUME NEW node, NEW token, IsNode(node, token), NEW next, NEW url, NEW pos
  PROVE  ParamsVia(NodeOf(token), next, url, pos) = ParamsVia(node, next, url, pos)
<1> DEFINE made == NodeOf(token)
<1>1. node.key = made.key /\ node.param = made.param
  BY DEF IsNode
<1> HIDE DEF made
<1>2. \A rest : Takes(node, rest) = Takes(made, rest)
  BY <1>1, TakesSame
<1>3. \A text : ParamOf(node, text) = ParamOf(made, text)
  BY <1>1 DEF ParamOf
<1> QED BY <1>2, <1>3 DEF ParamsVia, made

\* A rule behind a child goes on with the token of the child.
LEMMA ChildGoesOn ==
  ASSUME NEW C, NEW trie, NEW path, IsTrie(trie, path, C), NEW U, NEW url \in Seq(U),
         NEW n \in DOMAIN trie, NEW c \in Range(trie[n].children), NEW x \in DOMAIN trie,
         Starts(path[c], path[x]), NEW pos \in 1..Len(url)
  PROVE  /\ c \in DOMAIN trie /\ Starts(path[n], path[x])
         /\ Matching(path[x], url)[Len(path[n]) + 1][pos] =
              ParamsVia(trie[c], Matching(path[x], url)[Len(path[c]) + 1], url, pos)
<1>1. c \in DOMAIN trie /\ Leads(trie, path, C, n, c)
  BY DEF IsTrie
<1>2. PICK u \in C : path[c] = Append(path[n], u) /\ IsNode(trie[c], u)
  BY <1>1 DEF Leads
<1>3. path[n] \in Seq(C) /\ path[x] \in Seq(C)
  BY DEF IsTrie
<1>4. /\ Starts(path[n], path[x]) /\ Len(path[n]) + 1 \in 1..Len(path[x])
      /\ path[x][Len(path[n]) + 1] = u /\ Len(path[c]) = Len(path[n]) + 1
  BY <1>2, <1>3, AppendStarts
<1>5. PICK i \in 1..Len(path[x]) : i = Len(path[n]) + 1
  BY <1>4
<1>6. Matching(path[x], url)[i][pos] =
        ParamsVia(NodeOf(path[x][i]), Matching(path[x], url)[i + 1], url, pos)
  BY <1>3, MatchingAt
<1>7. ParamsVia(NodeOf(u), Matching(path[x], url)[i + 1], url, pos)
        = ParamsVia(trie[c], Matching(path[x], url)[i + 1], url, pos)
  BY <1>2, ParamsViaNode
<1> QED BY <1>1, <1>4, <1>5, <1>6, <1>7

\* What is needed of a child to speak of what it takes.
LEMMA ChildTakes ==
  ASSUME NEW C, NEW trie, NEW path, IsTrie(trie, path, C), NEW U, NEW url \in Seq(U),
         NEW c \in DOMAIN trie, NEW pos \in 1..Len(url)
  PROVE  LET rest  == From(url, pos)
             taken == Takes(trie[c], rest)
         IN /\ trie[c].param \in Param \cup {"none"} /\ trie[c].key \in Seq(C)
            /\ taken \in Nat /\ pos + taken \in 1..Len(url) + 1
            /\ SubSeq(rest, 1, taken) \in Seq(U)
<1>1. trie[c].param \in Param \cup {"none"} /\ trie[c].key \in Seq(C)
  BY NodeProps DEF IsTrie
<1> QED BY <1>1, TakenProps

\* What a child finds is found by way of it.
LEMMA FromChild ==
  ASSUME NEW C, NEW trie, NEW path, IsTrie(trie, path, C), NEW U, NEW url \in Seq(U),
         NEW n \in DOMAIN trie, NEW c \in Range(trie[n].children), NEW pos \in 1..Len(url)
  PROVE  ViaChild(trie[c], CandsBy(trie, path, U, url, c), url, pos) \subseteq Cands(trie, path, U, url, n, pos)
<1> DEFINE rest  == From(url, pos)
           taken == Takes(trie[c], rest)
           text  == SubSeq(rest, 1, taken)
           S     == CandsBy(trie, path, U, url, c)
<1>1. c \in DOMAIN trie
  BY DEF IsTrie
<1>2. /\ trie[c].param \in Param \cup {"none"}
      /\ pos + taken \in 1..Len(url) + 1 /\ text \in Seq(U)
  BY <1>1, ChildTakes
<1>3. ViaChild(trie[c], S, url, pos) = IF taken = 0 THEN {} ELSE {WithParam(r, trie[c], text) : r \in S[pos + taken]}
  BY DEF ViaChild
<1>4. S[pos + taken] = Cands(trie, path, U, url, c, pos + taken)
  BY <1>2 DEF CandsBy
<1>5. ASSUME NEW x \in DOMAIN trie, Starts(path[c], path[x])
      PROVE  Matching(path[x], url)[Len(path[n]) + 1][pos] =
               IF taken = 0 THEN {}
               ELSE {ParamOf(trie[c], text) \o p : p \in Matching(path[x], url)[Len(path[c]) + 1][pos + taken]}
  <2>1. Matching(path[x], url)[Len(path[n]) + 1][pos] =
          ParamsVia(trie[c], Matching(path[x], url)[Len(path[c]) + 1], url, pos)
    BY <1>5, ChildGoesOn
  <2>2. \A next : ParamsVia(trie[c], next, url, pos) =
          IF taken = 0 THEN {} ELSE {ParamOf(trie[c], text) \o p : p \in next[pos + taken]}
    BY DEF ParamsVia
  <2> HIDE DEF taken, text
  <2> QED BY <2>1, <2>2
<1> HIDE DEF S, taken, text
<1> SUFFICES ASSUME taken # 0, NEW r \in Cands(trie, path, U, url, c, pos + taken)
             PROVE  WithParam(r, trie[c], text) \in Cands(trie, path, U, url, n, pos)
  BY <1>3, <1>4 DEF S
<1>6. PICK x \in DOMAIN trie :
        /\ trie[x].rule_index # 0 /\ Starts(path[c], path[x])
        /\ \E p \in Matching(path[x], url)[Len(path[c]) + 1][pos + taken] : r = Match(trie[x].rule_index, p)
  BY DEF Cands
<1>7. PICK p \in Matching(path[x], url)[Len(path[c]) + 1][pos + taken] : r = Match(trie[x].rule_index, p)
  BY <1>6
<1>8. Starts(path[n], path[x])
  BY <1>6, ChildGoesOn
<1>9. ParamOf(trie[c], text) \o p \in Matching(path[x], url)[Len(path[n]) + 1][pos]
  BY <1>5, <1>6, <1>7
<1>10. r \in ResultSet(U)
  BY DEF Cands
<1>11. /\ WithParam(r, trie[c], text) = Match(r.rule_index, ParamOf(trie[c], text) \o r.params)
       /\ WithParam(r, trie[c], text) \in ResultSet(U)
  BY <1>2, <1>10, WithParamProps
<1>12. r.rule_index = trie[x].rule_index /\ r.params = p
  BY <1>7 DEF Match
<1> QED BY <1>6, <1>8, <1>9, <1>11, <1>12 DEF Cands

\* What is found at a node is found by way of one of its children, inside the URL.
LEMMA ByChild ==
  ASSUME NEW C, NEW trie, NEW path, IsTrie(trie, path, C), NEW U, NEW url \in Seq(U),
         NEW n \in DOMAIN trie, NEW pos \in 1..Len(url), NEW r \in Cands(trie, path, U, url, n, pos)
  PROVE  \E c \in Range(trie[n].children) : r \in ViaChild(trie[c], CandsBy(trie, path, U, url, c), url, pos)
<1>1. PICK x \in DOMAIN trie :
        /\ trie[x].rule_index # 0 /\ Starts(path[n], path[x])
        /\ \E p \in Matching(path[x], url)[Len(path[n]) + 1][pos] : r = Match(trie[x].rule_index, p)
  BY DEF Cands
<1>2. PICK p \in Matching(path[x], url)[Len(path[n]) + 1][pos] : r = Match(trie[x].rule_index, p)
  BY <1>1
<1>3. path[x] \in Seq(C) /\ path[n] \in Seq(C)
  BY DEF IsTrie
<1>4. x # n
  <2>1. Matching(path[x], url)[Len(path[x]) + 1][pos] = {}
    BY <1>3, MatchingAt
  <2> QED BY <1>2, <2>1
<1>5. PICK c \in Range(trie[n].children) : Starts(path[c], path[x])
  BY <1>1, <1>4, ByAChild
<1>6. c \in DOMAIN trie
  BY DEF IsTrie
<1> DEFINE rest  == From(url, pos)
           taken == Takes(trie[c], rest)
           text  == SubSeq(rest, 1, taken)
           S     == CandsBy(trie, path, U, url, c)
           next  == Matching(path[x], url)[Len(path[c]) + 1]
<1>7. /\ trie[c].param \in Param \cup {"none"}
      /\ taken \in Nat /\ pos + taken \in 1..Len(url) + 1 /\ text \in Seq(U)
  BY <1>6, ChildTakes
<1>8. p \in ParamsVia(trie[c], next, url, pos)
  <2> HIDE DEF next
  <2>1. Matching(path[x], url)[Len(path[n]) + 1][pos] = ParamsVia(trie[c], next, url, pos)
    BY <1>5, ChildGoesOn DEF next
  <2> QED BY <1>2, <2>1
<1>9. ParamsVia(trie[c], next, url, pos) =
        IF taken = 0 THEN {} ELSE {ParamOf(trie[c], text) \o q : q \in next[pos + taken]}
  BY DEF ParamsVia
<1>10. ViaChild(trie[c], S, url, pos) = IF taken = 0 THEN {} ELSE {WithParam(s, trie[c], text) : s \in S[pos + taken]}
  BY DEF ViaChild
<1>11. S[pos + taken] = Cands(trie, path, U, url, c, pos + taken)
  BY <1>7 DEF CandsBy
<1> HIDE DEF S, taken, text, next
<1>12. taken # 0 /\ \E q \in next[pos + taken] : p = ParamOf(trie[c], text) \o q
  BY <1>8, <1>9
<1>13. PICK q \in next[pos + taken] : p = ParamOf(trie[c], text) \o q
  BY <1>12
<1> DEFINE s == Match(trie[x].rule_index, q)
<1>14. s \in ResultSet(U) /\ s.rule_index = trie[x].rule_index /\ s.params = q
  <2>1. Len(path[c]) + 1 \in 1..Len(path[x]) + 1
    <3>1. path[c] \in Seq(C)
      BY <1>6 DEF IsTrie
    <3>2. Len(path[c]) \in Nat /\ Len(path[x]) \in Nat
      BY <1>3, <3>1, LenProperties
    <3> QED BY <1>5, <3>2 DEF Starts
  <2>2. next \in ParamSets(U, url)
    BY <1>3, <2>1, MatchingType DEF next
  <2>3. q \in Seq(Pairs(U))
    BY <1>7, <2>2, <1>13 DEF ParamSets
  <2>4. trie[x].rule_index \in Nat
    BY NodeProps DEF IsTrie
  <2> QED BY <2>3, <2>4 DEF Match, ResultSet
<1>15. s \in Cands(trie, path, U, url, c, pos + taken)
  BY <1>1, <1>5, <1>13, <1>14 DEF Cands, next
<1>16. WithParam(s, trie[c], text) = r
  <2> HIDE DEF s
  <2>1. WithParam(s, trie[c], text) = Match(s.rule_index, ParamOf(trie[c], text) \o s.params)
    BY <1>7, <1>14, WithParamProps
  <2> QED BY <2>1, <1>2, <1>13, <1>14
<1> HIDE DEF s
<1>17. r \in ViaChild(trie[c], S, url, pos)
  BY <1>10, <1>11, <1>12, <1>15, <1>16
<1> QED BY <1>17 DEF S

\* At the end of the URL a node finds its own rule, without parameters.
LEMMA AtTheEnd ==
  ASSUME NEW C, NEW trie, NEW path, IsTrie(trie, path, C), NEW U, NEW url \in Seq(U),
         NEW n \in DOMAIN trie
  PROVE  LET all == Cands(trie, path, U, url, n, Len(url) + 1)
         IN /\ trie[n].rule_index = 0 => all = {}
            /\ trie[n].rule_index # 0 => \A r : r \in all <=> r = Match(trie[n].rule_index, <<>>)
<1> DEFINE all == Cands(trie, path, U, url, n, Len(url) + 1)
           own == Match(trie[n].rule_index, <<>>)
<1>0. /\ path[n] \in Seq(C) /\ Len(path[n]) \in Nat /\ Len(url) \in Nat
      /\ \A x \in DOMAIN trie : path[x] \in Seq(C) /\ Len(path[x]) \in Nat
  BY LenProperties DEF IsTrie
<1>1. Matching(path[n], url)[Len(path[n]) + 1][Len(url) + 1] = {<<>>}
  BY <1>0, MatchingAt
<1>2. ASSUME NEW r \in all PROVE trie[n].rule_index # 0 /\ r = own
  <2>1. PICK x \in DOMAIN trie :
          /\ trie[x].rule_index # 0 /\ Starts(path[n], path[x])
          /\ \E p \in Matching(path[x], url)[Len(path[n]) + 1][Len(url) + 1] : r = Match(trie[x].rule_index, p)
    BY DEF Cands
  <2>2. Len(path[n]) = Len(path[x])
    <3> SUFFICES ASSUME Len(path[n]) # Len(path[x]) PROVE FALSE
      OBVIOUS
    <3>1. Len(path[n]) + 1 \in 1..Len(path[x])
      BY <1>0, <2>1 DEF Starts
    <3>2. Matching(path[x], url)[Len(path[n]) + 1][Len(url) + 1] = {}
      BY <1>0, <3>1, MatchingAt
    <3> QED BY <2>1, <3>2
  <2>3. x = n
    <3>1. path[n] = path[x]
      BY <1>0, <2>1, <2>2, StartsWhole
    <3> QED BY <3>1 DEF IsTrie
  <2> QED BY <1>1, <2>1, <2>3
<1>3. ASSUME trie[n].rule_index # 0 PROVE own \in all
  <2>1. own \in ResultSet(U)
    <3>1. trie[n].rule_index \in Nat
      BY NodeProps DEF IsTrie
    <3> QED BY <3>1 DEF Match, ResultSet
  <2>2. Starts(path[n], path[n])
    BY <1>0 DEF Starts
  <2>3. \E p \in Matching(path[n], url)[Len(path[n]) + 1][Len(url) + 1] : own = Match(trie[n].rule_index, p)
    BY <1>1
  <2> HIDE DEF own
  <2> QED BY <1>3, <2>1, <2>2, <2>3 DEF Cands
<1> HIDE DEF all, own
<1> QED BY <1>2, <1>3 DEF all, own

-----------------------------------------------------------------------------
(* The trie once it is compressed. *)

Only(trie, i) == trie[i].children[1]

Apart(trie, i) == trie[i].children = <<>> \/ ~IsSimpleNode(trie, trie[i])

\* A node that is merged has the key of its child behind its own.
Merge(node, child) == [child EXCEPT !.key = node.key \o @]

MergeStep(trie, merged, i) == IF Apart(trie, i) THEN trie[i] ELSE Merge(trie[i], merged[Only(trie, i)])

IsMerged(trie, merged) == merged = [i \in DOMAIN trie |-> MergeStep(trie, merged, i)]

\* The node merged with its child.
LEMMA MergeProps ==
  ASSUME NEW C, NEW node \in NodesOf(C), NEW child \in NodesOf(C)
  PROVE  /\ Merge(node, child) \in NodesOf(C)
         /\ Merge(node, child).key = node.key \o child.key
         /\ Merge(node, child).param = child.param
         /\ Merge(node, child).rule_index = child.rule_index
         /\ Merge(node, child).children = child.children
<1>1. PICK a \in Nat, k \in Seq(C), p \in Param \cup {"none"}, c \in Seq(Nat) :
        child = [rule_index |-> a, key |-> k, param |-> p, children |-> c]
  BY DEF NodesOf
<1>2. node.key \o k \in Seq(C)
  <2>1. node.key \in Seq(C)
    BY DEF NodesOf
  <2> QED BY <2>1, ConcatProperties
<1>3. ASSUME NEW v PROVE [child EXCEPT !.key = v] = [rule_index |-> a, key |-> v, param |-> p, children |-> c]
  BY <1>1, SMT
<1>4. Merge(node, child) = [child EXCEPT !.key = node.key \o child.key]
  BY <1>1 DEF Merge
<1>5. child.key = k
  BY <1>1
<1>6. PICK v \in Seq(C) : v = node.key \o k
  BY <1>2
<1>7. Merge(node, child) = [rule_index |-> a, key |-> v, param |-> p, children |-> c]
  BY <1>3, <1>4, <1>5, <1>6
<1>8. [rule_index |-> a, key |-> v, param |-> p, children |-> c] \in NodesOf(C)
  BY DEF NodesOf
<1> QED BY <1>1, <1>6, <1>7, <1>8

\* A node that is merged has one child, neither is a parameter, and no rule ends there.
LEMMA ApartProps ==
  ASSUME NEW C, NEW trie, NEW path, IsTrie(trie, path, C), NEW i \in DOMAIN trie, ~Apart(trie, i)
  PROVE  /\ Only(trie, i) \in DOMAIN trie /\ i < Only(trie, i) /\ Only(trie, i) # 1
         /\ Range(trie[i].children) = {Only(trie, i)}
         /\ trie[i].rule_index = 0 /\ trie[i].param = "none" /\ trie[Only(trie, i)].param = "none"
<1>0. trie[i].children \in Seq(Nat) /\ DOMAIN trie \subseteq Nat \ {0}
  BY NodeProps, LenProperties DEF IsTrie
<1>1. /\ trie[i].children # <<>> /\ trie[i].rule_index = 0 /\ Len(trie[i].children) < 2
      /\ trie[i].param = "none" /\ \A c \in Range(trie[i].children) : trie[c].param = "none"
  BY DEF Apart, IsSimpleNode
<1> DEFINE s == trie[i].children
<1>2. Range(s) = {s[1]}
  <2> HIDE DEF s
  <2>1. Len(s) = 1 /\ DOMAIN s = 1..1
    <3>1. Len(s) # 0 /\ Len(s) \in Nat /\ Len(s) < 2 /\ DOMAIN s = 1..Len(s)
      BY <1>0, <1>1, EmptySeq, LenProperties DEF s
    <3>2. Len(s) = 1
      BY <3>1
    <3> QED BY <3>1, <3>2
  <2>2. Range(s) = {s[k] : k \in DOMAIN s}
    BY DEF Range
  <2> QED BY <2>1, <2>2
<1>3. s[1] \in DOMAIN trie /\ i < s[1]
  BY <1>2 DEF IsTrie
<1>4. s[1] # 1
  <2>1. i \in Nat \ {0} /\ s[1] \in Nat
    BY <1>0, <1>3
  <2> QED BY <1>3, <2>1
<1> QED BY <1>1, <1>2, <1>3, <1>4 DEF Only

\* optimize is this, for every node but the first.
LEMMA OptimizeDef ==
  ASSUME NEW C, NEW trie, NEW path, IsTrie(trie, path, C)
  PROVE  /\ optimize(trie) \in [DOMAIN trie -> NodesOf(C)]
         /\ optimize(trie)[1] = trie[1]
         /\ \A i \in DOMAIN trie : i # 1 => optimize(trie)[i] = MergeStep(trie, optimize(trie), i)
<1> DEFINE D == DOMAIN trie
           V == NodesOf(C)
           rank == [i \in D |-> Len(trie) - i]
           F == [f \in [D -> V] |-> [i \in D |-> MergeStep(trie, f, i)]]
           m == CHOOSE f : IsMerged(trie, f)
           O == [i \in D |-> IF i = 1 THEN trie[1] ELSE m[i]]
<1>0. D = 1..Len(trie) /\ Len(trie) \in Nat /\ Len(trie) >= 1 /\ \A i \in D : trie[i] \in V
  BY LenProperties, EmptySeq, NodeProps DEF IsTrie
<1>1. rank \in [D -> Nat] /\ V # {}
  <2>1. rank \in [D -> Nat]
    BY <1>0
  <2>2. trie[1] \in V
    BY <1>0
  <2> HIDE DEF V
  <2> QED BY <2>1, <2>2
<1>2. F \in [[D -> V] -> [D -> V]]
  <2>1. ASSUME NEW f \in [D -> V], NEW i \in D PROVE MergeStep(trie, f, i) \in V
    <3>1. CASE Apart(trie, i)
      BY <1>0, <3>1 DEF MergeStep
    <3>2. CASE ~Apart(trie, i)
      <4>1. Only(trie, i) \in D
        BY <3>2, ApartProps
      <4>2. PICK child \in V : child = f[Only(trie, i)]
        BY <4>1
      <4>3. Merge(trie[i], child) \in V
        BY <1>0, MergeProps
      <4> QED BY <3>2, <4>2, <4>3 DEF MergeStep
    <3> QED BY <3>1, <3>2
  <2> HIDE DEF D, V
  <2> QED BY <2>1
<1>3. ASSUME NEW f \in [D -> V], NEW g \in [D -> V], NEW i \in D,
             \A j \in D : rank[j] < rank[i] => f[j] = g[j]
      PROVE  F[f][i] = F[g][i]
  <2>1. ASSUME ~Apart(trie, i) PROVE f[Only(trie, i)] = g[Only(trie, i)]
    <3>1. PICK j \in D : j = Only(trie, i) /\ i < j
      BY <2>1, ApartProps
    <3>2. rank[j] < rank[i]
      BY <1>0, <3>1
    <3> QED BY <1>3, <3>1, <3>2
  <2>2. MergeStep(trie, f, i) = MergeStep(trie, g, i)
    BY <2>1 DEF MergeStep
  <2> QED BY <2>2
<1>4. Recurses(D, V, rank, F)
  <2> HIDE DEF D, V, rank, F
  <2> QED BY <1>1, <1>2, <1>3 DEF Recurses
<1>5. PICK f \in [D -> V] : f = F[f]
  <2> HIDE DEF D, V, rank, F
  <2> QED BY <1>4, Recursion
<1>6. \E h : IsMerged(trie, h)
  <2> DEFINE h == [i \in D |-> MergeStep(trie, f, i)]
  <2>1. f = h
    BY <1>5
  <2>2. f = [i \in D |-> MergeStep(trie, f, i)]
    BY <2>1
  <2> QED BY <2>2 DEF IsMerged
<1>7. IsMerged(trie, m)
  BY <1>6, Zenon
<1>8. optimize(trie) = O
  BY DEF optimize, IsMerged, MergeStep, Apart, Merge, Only
<1>9. \A i \in D : m[i] = MergeStep(trie, m, i)
  BY <1>7 DEF IsMerged
<1> HIDE DEF m
<1>10. ASSUME NEW i \in D, i # 1 PROVE O[i] = MergeStep(trie, O, i)
  <2>1. O[i] = MergeStep(trie, m, i)
    BY <1>9, <1>10
  <2>2. ASSUME ~Apart(trie, i) PROVE O[Only(trie, i)] = m[Only(trie, i)]
    BY <2>2, ApartProps
  <2>3. MergeStep(trie, m, i) = MergeStep(trie, O, i)
    <3> HIDE DEF O
    <3> QED BY <2>2 DEF MergeStep
  <2> QED BY <2>1, <2>3
<1>11. ASSUME NEW i \in D PROVE O[i] \in V
  <2> DEFINE S == {k \in D : O[k] \in V}
  <2>1. ASSUME NEW k \in D, \A j \in D : rank[j] < rank[k] => j \in S PROVE k \in S
    <3>1. CASE k = 1
      BY <1>0, <3>1
    <3>2. CASE k # 1 /\ Apart(trie, k)
      <4>1. O[k] = trie[k]
        BY <1>10, <3>2 DEF MergeStep
      <4> QED BY <1>0, <4>1
    <3>3. CASE k # 1 /\ ~Apart(trie, k)
      <4>1. PICK j \in D : j = Only(trie, k) /\ k < j
        BY <3>3, ApartProps
      <4>2. rank[j] < rank[k]
        BY <1>0, <4>1
      <4>3. O[j] \in V
        BY <2>1, <4>2
      <4>4. O[k] = Merge(trie[k], O[j])
        BY <1>10, <3>3, <4>1 DEF MergeStep
      <4> HIDE DEF O
      <4>5. Merge(trie[k], O[j]) \in V
        BY <1>0, <4>3, MergeProps
      <4> QED BY <4>4, <4>5
    <3> QED BY <3>1, <3>2, <3>3
  <2>2. D \subseteq S
    <3> HIDE DEF D, S, rank
    <3>1. Inherited(D, S, rank)
      BY <1>1, <2>1 DEF Inherited
    <3> QED BY <3>1, RankInd
  <2> QED BY <2>2
<1>12. O \in [D -> V] /\ O[1] = trie[1]
  <2>1. O[1] = trie[1]
    BY <1>0
  <2>2. O \in [D -> V]
    BY <1>11
  <2> QED BY <2>1, <2>2
<1> HIDE DEF O
<1> QED BY <1>8, <1>10, <1>12

\* A node of the compressed trie: as it was, or merged with its only child.
Compressed(trie, O, i) ==
  /\ O[i].param = trie[i].param
  /\ Range(O[i].children) \subseteq {j \in DOMAIN trie : i < j}
  /\ i # 1 /\ O[i].param = "none" => O[i].key # <<>>
  /\ \/ O[i] = trie[i]
     \/ i # 1 /\ ~Apart(trie, i) /\ O[i] = Merge(trie[i], O[Only(trie, i)])

\* Behind the first node, every node is that of a token.
LEMMA TokenOf ==
  ASSUME NEW C, NEW trie, NEW path, IsTrie(trie, path, C), NEW i \in DOMAIN trie, i # 1
  PROVE  /\ \E token \in C : IsNode(trie[i], token)
         /\ trie[i].param = "none" => \E token \in C : trie[i].key = <<token>>
<1>1. PICK n \in DOMAIN trie : i \in Range(trie[n].children)
  BY DEF IsTrie
<1>2. Leads(trie, path, C, n, i)
  BY <1>1 DEF IsTrie
<1>3. PICK token \in C : IsNode(trie[i], token)
  BY <1>2 DEF Leads
<1>4. "none" \notin Param
  BY DEF Param
<1>5. trie[i].param = "none" => trie[i].key = <<token>>
  BY <1>3, <1>4 DEF IsNode, NodeOf, NewNode
<1> QED BY <1>3, <1>5

\* Every node of the compressed trie is such a node.
LEMMA OptimizeProps ==
  ASSUME NEW C, NEW trie, NEW path, IsTrie(trie, path, C)
  PROVE  \A i \in DOMAIN trie : Compressed(trie, optimize(trie), i)
<1> DEFINE D == DOMAIN trie
           O == optimize(trie)
           rank == [i \in D |-> Len(trie) - i]
           S == {i \in D : Compressed(trie, O, i)}
<1>0. D = 1..Len(trie) /\ Len(trie) \in Nat /\ \A i \in D : trie[i] \in NodesOf(C)
  BY LenProperties, NodeProps DEF IsTrie
<1>1. /\ O \in [D -> NodesOf(C)] /\ O[1] = trie[1]
      /\ \A i \in D : i # 1 => O[i] = MergeStep(trie, O, i)
  BY OptimizeDef
<1> HIDE DEF O
<1>2. ASSUME NEW i \in D, O[i] = trie[i] PROVE Compressed(trie, O, i)
  <2>1. Range(trie[i].children) \subseteq {j \in D : i < j}
    BY DEF IsTrie
  <2>2. ASSUME i # 1, trie[i].param = "none" PROVE trie[i].key # <<>>
    <3>1. PICK token \in C : trie[i].key = <<token>>
      BY <2>2, TokenOf
    <3>2. <<token>> # <<>>
      OBVIOUS
    <3> QED BY <3>1, <3>2
  <2> QED BY <1>2, <2>1, <2>2 DEF Compressed
<1>3. ASSUME NEW i \in D, \A j \in D : rank[j] < rank[i] => j \in S PROVE i \in S
  <2>1. CASE i = 1 \/ Apart(trie, i)
    <3>1. O[i] = trie[i]
      BY <1>1, <2>1 DEF MergeStep
    <3> QED BY <1>2, <3>1
  <2>2. CASE i # 1 /\ ~Apart(trie, i)
    <3>1. PICK j \in D : j = Only(trie, i) /\ i < j /\ trie[j].param = "none" /\ trie[i].param = "none"
      BY <2>2, ApartProps
    <3>2. Compressed(trie, O, j)
      <4>1. rank[j] < rank[i]
        BY <1>0, <3>1
      <4> QED BY <1>3, <4>1
    <3>3. O[i] = Merge(trie[i], O[j])
      BY <1>1, <2>2, <3>1 DEF MergeStep
    <3>4. /\ O[i].key = trie[i].key \o O[j].key /\ O[i].param = O[j].param
          /\ O[i].children = O[j].children
      <4>1. PICK child \in NodesOf(C) : child = O[j]
        BY <1>1
      <4>2. PICK node \in NodesOf(C) : node = trie[i]
        BY <1>0
      <4>3. /\ Merge(node, child).key = node.key \o child.key
            /\ Merge(node, child).param = child.param
            /\ Merge(node, child).children = child.children
        BY MergeProps
      <4>4. O[i] = Merge(node, child)
        BY <3>3, <4>1, <4>2
      <4> QED BY <4>1, <4>2, <4>3, <4>4
    <3>5. O[i].param = trie[i].param
      BY <3>1, <3>2, <3>4 DEF Compressed
    <3>6. Range(O[i].children) \subseteq {k \in D : i < k}
      <4>1. Range(O[j].children) \subseteq {k \in D : j < k}
        BY <3>2 DEF Compressed
      <4>2. \A k \in D : j < k => i < k
        BY <1>0, <3>1
      <4> QED BY <3>4, <4>1, <4>2
    <3>7. O[i].key # <<>>
      <4>1. PICK token \in C : trie[i].key = <<token>>
        BY <2>2, <3>1, TokenOf
      <4>2. PICK k \in Seq(C) : k = O[j].key
        BY <1>1 DEF NodesOf
      <4>3. <<token>> \o k # <<>>
        BY <4>2
      <4> QED BY <3>4, <4>1, <4>2, <4>3
    <3> QED BY <2>2, <3>1, <3>3, <3>5, <3>6, <3>7 DEF Compressed
  <2> QED BY <2>1, <2>2
<1>4. D \subseteq S
  <2>1. rank \in [D -> Nat]
    BY <1>0
  <2> HIDE DEF D, S, rank
  <2>2. Inherited(D, S, rank)
    BY <1>3, <2>1 DEF Inherited
  <2> QED BY <2>2, RankInd
<1> QED BY <1>4 DEF O

-----------------------------------------------------------------------------
(* Trie::find. *)

IsChild(C, child) == child.param \in Param \cup {"none"} /\ child.key \in Seq(C)

\* What is found behind a node, by the place in the URL.
ByPlace(U, url) == [1..Len(url) + 1 -> ResultSet(U)]

\* What a node finds from every place is the best of the matches there.
FindsBest(U, url, S, below) ==
  \A q \in 1..Len(url) + 1 : S[q] \subseteq ResultSet(U) /\ BestIn(S[q], below[q])

\* Nothing found is a result.
LEMMA NoRuleProps ==
  ASSUME NEW U
  PROVE  /\ NoRule \in ResultSet(U) /\ NoRule.rule_index = 0 /\ BestIn({}, NoRule)
         /\ \A r \in ResultSet(U) : r.rule_index \in Nat
<1>1. <<>> \in Seq(Pairs(U))
  OBVIOUS
<1> QED BY <1>1 DEF NoRule, ResultSet, BestIn

\* A child that takes something passes on what is found behind it.
LEMMA ThroughDef ==
  ASSUME NEW child, NEW below, NEW url, NEW pos
  PROVE  LET rest  == From(url, pos)
             taken == Takes(child, rest)
         IN Through(child, below, url, pos)
              = IF taken = 0 THEN NoRule ELSE WithParam(below[pos + taken], child, SubSeq(rest, 1, taken))
  BY DEF Through, Behind

\* What is found by way of a child is the best of the matches by way of it.
LEMMA ThroughProps ==
  ASSUME NEW C, NEW child, IsChild(C, child), NEW U, NEW url \in Seq(U), NEW pos \in 1..Len(url),
         NEW below \in ByPlace(U, url)
  PROVE  /\ Through(child, below, url, pos) \in ResultSet(U)
         /\ \A S : FindsBest(U, url, S, below) =>
              /\ ViaChild(child, S, url, pos) \subseteq ResultSet(U)
              /\ BestIn(ViaChild(child, S, url, pos), Through(child, below, url, pos))
<1> DEFINE rest  == From(url, pos)
           taken == Takes(child, rest)
           text  == SubSeq(rest, 1, taken)
           found == Through(child, below, url, pos)
<1>1. child.param \in Param \cup {"none"} /\ child.key \in Seq(C)
  BY DEF IsChild
<1>2. pos + taken \in 1..Len(url) + 1 /\ text \in Seq(U)
  BY <1>1, TakenProps
<1>3. found = IF taken = 0 THEN NoRule ELSE WithParam(below[pos + taken], child, text)
  BY ThroughDef
<1>4. \A S : ViaChild(child, S, url, pos) = IF taken = 0 THEN {} ELSE {WithParam(r, child, text) : r \in S[pos + taken]}
  BY DEF ViaChild
<1> HIDE DEF rest, taken, text, found
<1>5. CASE taken = 0
  BY <1>3, <1>4, <1>5, NoRuleProps DEF found
<1>6. CASE taken # 0
  <2>1. PICK b \in ResultSet(U) : b = below[pos + taken]
    BY <1>2 DEF ByPlace
  <2>2. PICK q \in 1..Len(url) + 1 : q = pos + taken
    BY <1>2
  <2>3. ASSUME NEW r \in ResultSet(U)
        PROVE  WithParam(r, child, text) \in ResultSet(U) /\ WithParam(r, child, text).rule_index = r.rule_index
    BY <1>1, <1>2, WithParamProps
  <2>4. found = WithParam(b, child, text)
    BY <1>3, <1>6, <2>1
  <2>5. found \in ResultSet(U) /\ found.rule_index = b.rule_index
    BY <2>3, <2>4
  <2>6. ASSUME NEW S, FindsBest(U, url, S, below)
        PROVE  ViaChild(child, S, url, pos) \subseteq ResultSet(U) /\ BestIn(ViaChild(child, S, url, pos), found)
    <3>1. S[q] \subseteq ResultSet(U) /\ BestIn(S[q], b)
      BY <2>1, <2>2, <2>6 DEF FindsBest
    <3> DEFINE via == {WithParam(r, child, text) : r \in S[q]}
    <3>2. ViaChild(child, S, url, pos) = via
      BY <1>4, <1>6, <2>2
    <3>3. \A v \in via : v \in ResultSet(U) /\ \E r \in S[q] : v.rule_index = r.rule_index
      <4> TAKE v \in via
      <4>1. PICK r \in S[q] : v = WithParam(r, child, text)
        OBVIOUS
      <4> QED BY <2>3, <3>1, <4>1
    <3>4. found.rule_index # 0 => found \in via
      BY <2>4, <2>5, <3>1 DEF BestIn
    <3> HIDE DEF via
    <3>5. \A v \in via : found.rule_index # 0 /\ found.rule_index <= v.rule_index
      BY <2>5, <3>1, <3>3 DEF BestIn
    <3> QED BY <3>2, <3>3, <3>4, <3>5 DEF BestIn
  <2> QED BY <2>5, <2>6 DEF found
<1> QED BY <1>5, <1>6

\* One node of find.
FindNode(O, url, below, n) ==
  [pos \in 1..(Len(url) + 1) |->
    IF pos > Len(url) THEN [rule_index |-> O[n].rule_index, params |-> <<>>]
    ELSE BestOf([i \in DOMAIN O[n].children |->
                   LET child == O[n].children[i]
                   IN Through(O[child], below[child], url, pos)])]

IsBelow(O, url, below) == below = [n \in DOMAIN O |-> FindNode(O, url, below, n)]

\* A list that a search looks through: what is found by way of each child.
Passed(O, url, below, n, pos) ==
  [i \in DOMAIN O[n].children |-> Through(O[O[n].children[i]], below[O[n].children[i]], url, pos)]

\* A trie that can be searched: the children of a node are behind it.
Searchable(C, O, N) ==
  /\ N \in Nat /\ O \in [1..N -> NodesOf(C)]
  /\ \A n \in 1..N : \A c \in Range(O[n].children) : c \in 1..N /\ n < c

\* The results of the children are results.
LEMMA PassedProps ==
  ASSUME NEW C, NEW O, NEW N, Searchable(C, O, N), NEW U, NEW url \in Seq(U), NEW n \in 1..N,
         NEW below, \A c \in Range(O[n].children) : below[c] \in ByPlace(U, url), NEW pos \in 1..Len(url)
  PROVE  /\ Results(ResultSet(U), Passed(O, url, below, n, pos))
         /\ Len(Passed(O, url, below, n, pos)) = Len(O[n].children)
         /\ DOMAIN O[n].children = 1..Len(O[n].children)
<1> DEFINE ch == O[n].children
           R  == ResultSet(U)
<1>1. ch \in Seq(Nat) /\ O \in [1..N -> NodesOf(C)]
  <2>1. O[n] \in NodesOf(C) /\ O \in [1..N -> NodesOf(C)]
    BY DEF Searchable
  <2> QED BY <2>1 DEF NodesOf
<1>2. \A i \in DOMAIN ch : ch[i] \in Range(ch)
  BY DEF Range
<1>3. DOMAIN ch = 1..Len(ch) /\ Len(ch) \in Nat
  BY <1>1, LenProperties
<1>4. ASSUME NEW i \in 1..Len(ch) PROVE Through(O[ch[i]], below[ch[i]], url, pos) \in R
  <2>1. PICK c \in 1..N : c = ch[i] /\ c \in Range(ch)
    BY <1>2, <1>3 DEF Searchable
  <2>2. below[c] \in ByPlace(U, url)
    BY <2>1
  <2>3. IsChild(C, O[c])
    BY <1>1 DEF NodesOf, IsChild
  <2>4. PICK b \in ByPlace(U, url) : b = below[c]
    BY <2>2
  <2>5. Through(O[c], b, url, pos) \in R
    BY <2>3, ThroughProps
  <2> QED BY <2>1, <2>4, <2>5
<1>5. Passed(O, url, below, n, pos) = [i \in 1..Len(ch) |-> Through(O[ch[i]], below[ch[i]], url, pos)]
  BY <1>3 DEF Passed
<1> HIDE DEF ch, R
<1>6. [i \in 1..Len(ch) |-> Through(O[ch[i]], below[ch[i]], url, pos)] \in Seq(R)
  BY <1>3, <1>4
<1>7. Len(Passed(O, url, below, n, pos)) = Len(ch)
  BY <1>3, <1>5
<1> QED BY <1>3, <1>5, <1>6, <1>7, NoRuleProps DEF Results, R, ch

\* Trie::find is this, for every node.
LEMMA FindDef ==
  ASSUME NEW C, NEW O, NEW N, Searchable(C, O, N), N >= 1, NEW U, NEW url \in Seq(U)
  PROVE  \E below \in [1..N -> ByPlace(U, url)] :
            /\ \A n \in 1..N : below[n] = FindNode(O, url, below, n)
            /\ find(O, url) = below[1][1]
<1> DEFINE D == 1..N
           V == ByPlace(U, url)
           rank == [n \in D |-> N - n]
           F == [f \in [D -> V] |-> [n \in D |-> FindNode(O, url, f, n)]]
           b == CHOOSE f : IsBelow(O, url, f)
<1>0. N \in Nat /\ Len(url) \in Nat /\ DOMAIN O = D /\ O \in [D -> NodesOf(C)]
      /\ \A n \in D : \A c \in Range(O[n].children) : c \in D /\ n < c
  BY LenProperties DEF Searchable
<1>1. rank \in [D -> Nat] /\ V # {}
  <2>1. rank \in [D -> Nat]
    BY <1>0
  <2>2. [pos \in 1..Len(url) + 1 |-> NoRule] \in V
    BY NoRuleProps DEF ByPlace
  <2> HIDE DEF V
  <2> QED BY <2>1, <2>2
<1>2. F \in [[D -> V] -> [D -> V]]
  <2>1. ASSUME NEW f \in [D -> V], NEW n \in D PROVE FindNode(O, url, f, n) \in V
    <3>1. ASSUME NEW pos \in 1..Len(url) + 1 PROVE FindNode(O, url, f, n)[pos] \in ResultSet(U)
      <4>1. FindNode(O, url, f, n)[pos] =
              IF pos > Len(url) THEN [rule_index |-> O[n].rule_index, params |-> <<>>]
              ELSE BestOf(Passed(O, url, f, n, pos))
        BY DEF FindNode, Passed
      <4>2. CASE pos > Len(url)
        <5>1. O[n].rule_index \in Nat /\ <<>> \in Seq(Pairs(U))
          BY <1>0 DEF NodesOf
        <5> QED BY <4>1, <4>2, <5>1 DEF ResultSet
      <4>3. CASE ~(pos > Len(url))
        <5>1. pos \in 1..Len(url)
          BY <1>0, <4>3
        <5>2. \A c \in Range(O[n].children) : f[c] \in ByPlace(U, url)
          BY <1>0
        <5>3. Results(ResultSet(U), Passed(O, url, f, n, pos))
          BY <5>1, <5>2, PassedProps
        <5>4. BestOf(Passed(O, url, f, n, pos)) \in ResultSet(U)
          <6> DEFINE results == Passed(O, url, f, n, pos)
          <6> HIDE DEF results
          <6>1. PICK best \in [0..Len(results) -> ResultSet(U)] : BestOf(results) = best[Len(results)]
            BY <5>3, BestDef DEF results
          <6>2. Len(results) \in Nat
            BY <5>3, LenProperties DEF Results, results
          <6> QED BY <6>1, <6>2 DEF results
        <5> QED BY <4>1, <4>3, <5>4
      <4> QED BY <4>2, <4>3
    <3>2. FindNode(O, url, f, n) = [pos \in 1..Len(url) + 1 |-> FindNode(O, url, f, n)[pos]]
      BY DEF FindNode
    <3> QED BY <3>1, <3>2 DEF ByPlace
  <2> HIDE DEF D, V
  <2> QED BY <2>1
<1>3. ASSUME NEW f \in [D -> V], NEW g \in [D -> V], NEW n \in D,
             \A m \in D : rank[m] < rank[n] => f[m] = g[m]
      PROVE  F[f][n] = F[g][n]
  <2>1. ASSUME NEW i \in DOMAIN O[n].children PROVE f[O[n].children[i]] = g[O[n].children[i]]
    <3>1. PICK c \in D : c = O[n].children[i] /\ n < c
      <4>1. O[n].children[i] \in Range(O[n].children)
        BY DEF Range
      <4> QED BY <1>0, <4>1
    <3>2. rank[c] < rank[n]
      BY <1>0, <3>1
    <3> QED BY <1>3, <3>1, <3>2
  <2>2. \A pos : Passed(O, url, f, n, pos) = Passed(O, url, g, n, pos)
    BY <2>1 DEF Passed
  <2>3. FindNode(O, url, f, n) = FindNode(O, url, g, n)
    <3>1. ASSUME NEW h
          PROVE  FindNode(O, url, h, n) =
                   [pos \in 1..(Len(url) + 1) |->
                     IF pos > Len(url) THEN [rule_index |-> O[n].rule_index, params |-> <<>>]
                     ELSE BestOf(Passed(O, url, h, n, pos))]
      BY DEF FindNode, Passed
    <3> QED BY <2>2, <3>1
  <2> QED BY <2>3
<1>4. Recurses(D, V, rank, F)
  <2> HIDE DEF D, V, rank, F
  <2> QED BY <1>1, <1>2, <1>3 DEF Recurses
<1>5. PICK f \in [D -> V] : f = F[f]
  <2> HIDE DEF D, V, rank, F
  <2> QED BY <1>4, Recursion
<1>6. \E h : IsBelow(O, url, h)
  <2> DEFINE h == [n \in D |-> FindNode(O, url, f, n)]
  <2>1. f = h
    BY <1>5
  <2>2. f = [n \in D |-> FindNode(O, url, f, n)]
    BY <2>1
  <2> QED BY <2>2, <1>0 DEF IsBelow
<1>7. IsBelow(O, url, b)
  BY <1>6, Zenon
<1>8. find(O, url) = b[1][1]
  BY DEF find, IsBelow, FindNode
<1>9. \A n \in D : b[n] = FindNode(O, url, b, n)
  <2>1. \A n \in DOMAIN O : b[n] = FindNode(O, url, b, n)
    BY <1>7 DEF IsBelow
  <2> QED BY <1>0, <2>1
<1>10. b = [n \in D |-> b[n]]
  <2>1. b = [n \in DOMAIN O |-> FindNode(O, url, b, n)]
    BY <1>7 DEF IsBelow
  <2> HIDE DEF b
  <2> QED BY <1>0, <2>1
<1> HIDE DEF b
<1>11. \A n \in D : b[n] \in V
  <2> DEFINE S == {n \in D : b[n] \in V}
  <2>1. ASSUME NEW n \in D, \A m \in D : rank[m] < rank[n] => m \in S PROVE n \in S
    <3>1. ASSUME NEW c \in Range(O[n].children) PROVE c \in D /\ b[c] \in V
      <4>1. c \in D /\ n < c
        BY <1>0
      <4>2. rank[c] < rank[n]
        BY <1>0, <4>1
      <4> QED BY <2>1, <4>1, <4>2
    <3> DEFINE g == [m \in D |-> IF b[m] \in V THEN b[m] ELSE CHOOSE v \in V : TRUE]
    <3>2. g \in [D -> V]
      <4>1. (CHOOSE v \in V : TRUE) \in V
        BY <1>1
      <4> HIDE DEF V
      <4> QED BY <4>1
    <3>3. \A m \in D : b[m] \in V => g[m] = b[m]
      BY DEF g
    <3> HIDE DEF g
    <3>4. F[g][n] \in V
      BY <1>2, <3>2
    <3>5. F[g][n] = FindNode(O, url, g, n)
      BY <3>2
    <3>6. FindNode(O, url, g, n) = FindNode(O, url, b, n)
      <4>1. ASSUME NEW i \in DOMAIN O[n].children PROVE g[O[n].children[i]] = b[O[n].children[i]]
        <5>1. O[n].children[i] \in Range(O[n].children)
          BY DEF Range
        <5> QED BY <3>1, <3>3, <5>1
      <4>2. \A pos : Passed(O, url, g, n, pos) = Passed(O, url, b, n, pos)
        BY <4>1 DEF Passed
      <4>3. ASSUME NEW h
            PROVE  FindNode(O, url, h, n) =
                     [pos \in 1..(Len(url) + 1) |->
                       IF pos > Len(url) THEN [rule_index |-> O[n].rule_index, params |-> <<>>]
                       ELSE BestOf(Passed(O, url, h, n, pos))]
        BY DEF FindNode, Passed
      <4> QED BY <4>2, <4>3
    <3> QED BY <3>4, <3>5, <3>6, <1>9
  <2>2. D \subseteq S
    <3> HIDE DEF D, S, rank
    <3>1. Inherited(D, S, rank)
      BY <1>1, <2>1 DEF Inherited
    <3> QED BY <3>1, RankInd
  <2> QED BY <2>2
<1>12. b \in [D -> V]
  <2> HIDE DEF D, V
  <2> QED BY <1>10, <1>11
<1> QED BY <1>8, <1>9, <1>12

-----------------------------------------------------------------------------
(* What a lookup finds in the compressed trie. *)

\* A prefix goes on.
LEMMA PrefixDef ==
  ASSUME NEW C, NEW s \in Seq(C), NEW U, NEW t \in Seq(U)
  PROVE  IsPrefix(s, t) <=> Starts(s, t)
<1>0. Len(s) \in Nat /\ Len(t) \in Nat /\ s \in Seq(C \cup U) /\ t \in Seq(C \cup U)
  <2>1. \A i \in 1..Len(s) : s[i] \in C
    BY ElementOfSeq
  <2>2. \A i \in 1..Len(t) : t[i] \in U
    BY ElementOfSeq
  <2> QED BY <2>1, <2>2, LenProperties
<1>1. SubSeq(s, 1, Len(s)) = s
  BY SubSeqFull
<1>2. CASE Len(s) <= Len(t)
  <2> DEFINE u == SubSeq(t, 1, Len(s))
  <2>1. u \in Seq(C \cup U) /\ Len(u) = Len(s) /\ \A i \in 1..Len(s) : u[i] = t[i]
    <3>1. \A i \in 1..Len(s) : t[i] \in C \cup U
      BY <1>0, <1>2, ElementOfSeq
    <3> QED BY <1>0, <3>1, SubSeqProperties
  <2> HIDE DEF u
  <2>2. s = u <=> \A i \in 1..Len(s) : s[i] = u[i]
    BY <1>0, <2>1, SeqEqual
  <2>3. IsPrefix(s, t) <=> s = u
    BY <1>1, <1>2 DEF IsPrefix, u
  <2> QED BY <1>2, <2>1, <2>2, <2>3 DEF Starts
<1>3. CASE ~(Len(s) <= Len(t))
  BY <1>3 DEF IsPrefix, Starts
<1> QED BY <1>2, <1>3

\* A character and a key are a prefix when the character is there and the key is behind it.
LEMMA KeyBehind ==
  ASSUME NEW C, NEW t \in C, NEW k \in Seq(C), NEW U, NEW url \in Seq(U), NEW pos \in 1..Len(url)
  PROVE  /\ IsPrefix(<<t>> \o k, From(url, pos)) <=> url[pos] = t /\ IsPrefix(k, From(url, pos + 1))
         /\ IsPrefix(<<t>>, From(url, pos)) <=> url[pos] = t
         /\ <<t>> \o k \in Seq(C) /\ Len(<<t>> \o k) = Len(k) + 1
<1> DEFINE long == <<t>> \o k
           here == From(url, pos)
           next == From(url, pos + 1)
<1>0. /\ Len(url) \in Nat /\ Len(k) \in Nat /\ pos \in Nat /\ pos \in 1..Len(url) + 1
      /\ pos + 1 \in 1..Len(url) + 1
  BY LenProperties
<1>1. /\ long \in Seq(C) /\ Len(long) = Len(k) + 1 /\ long[1] = t
      /\ \A i \in 1..Len(k) : long[i + 1] = k[i]
  <2>1. <<t>> \in Seq(C) /\ Len(<<t>>) = 1 /\ <<t>>[1] = t
    OBVIOUS
  <2> DEFINE one == <<t>>
  <2>2. one \in Seq(C) /\ Len(one) = 1 /\ one[1] = t
    BY <2>1
  <2> HIDE DEF one
  <2>3. /\ one \o k \in Seq(C) /\ Len(one \o k) = Len(one) + Len(k)
        /\ \A i \in 1..Len(one) + Len(k) : (one \o k)[i] = IF i <= Len(one) THEN one[i] ELSE k[i - Len(one)]
    BY <2>2, ConcatProperties
  <2>4. (one \o k)[1] = t
    BY <1>0, <2>2, <2>3
  <2>5. ASSUME NEW i \in 1..Len(k) PROVE (one \o k)[i + 1] = k[i]
    <3>1. i + 1 \in 1..1 + Len(k) /\ ~(i + 1 <= 1) /\ (i + 1) - 1 = i
      BY <1>0
    <3> QED BY <2>2, <2>3, <3>1
  <2> QED BY <1>0, <2>2, <2>3, <2>4, <2>5 DEF one
<1>2. /\ here \in Seq(U) /\ Len(here) = Len(url) - pos + 1
      /\ \A i \in 1..Len(url) - pos + 1 : here[i] = url[pos + i - 1]
  BY <1>0, FromProps
<1>3. /\ next \in Seq(U) /\ Len(next) = Len(url) - pos
      /\ \A i \in 1..Len(url) - pos : next[i] = url[pos + i]
  <2>1. PICK n \in 1..Len(url) + 1 : n = pos + 1
    BY <1>0
  <2>2. /\ From(url, n) \in Seq(U) /\ Len(From(url, n)) = Len(url) - n + 1
        /\ \A i \in 1..Len(url) - n + 1 : From(url, n)[i] = url[n + i - 1]
    BY FromProps
  <2>3. Len(url) - n + 1 = Len(url) - pos
    BY <1>0, <2>1
  <2>4. \A i \in Nat : n + i - 1 = pos + i
    BY <1>0, <2>1
  <2>5. \A i \in 1..Len(url) - pos : i \in Nat
    OBVIOUS
  <2> QED BY <2>1, <2>2, <2>3, <2>4, <2>5
<1> HIDE DEF long, here, next
<1>4. IsPrefix(long, here) <=> Starts(long, here)
  BY <1>1, <1>2, PrefixDef
<1>5. IsPrefix(k, next) <=> Starts(k, next)
  BY <1>3, PrefixDef
<1>6. ASSUME Starts(long, here) PROVE url[pos] = t /\ Starts(k, next)
  <2>1. Len(k) + 1 <= Len(url) - pos + 1 /\ \A i \in 1..Len(k) + 1 : long[i] = here[i]
    BY <1>1, <1>2, <1>6 DEF Starts
  <2>2. url[pos] = t
    <3>1. 1 \in 1..Len(k) + 1 /\ 1 \in 1..Len(url) - pos + 1 /\ pos + 1 - 1 = pos
      BY <1>0
    <3> QED BY <1>1, <1>2, <2>1, <3>1
  <2>3. ASSUME NEW i \in 1..Len(k) PROVE k[i] = next[i]
    <3>1. /\ i + 1 \in 1..Len(k) + 1 /\ i + 1 \in 1..Len(url) - pos + 1 /\ pos + (i + 1) - 1 = pos + i
          /\ i \in 1..Len(url) - pos
      BY <1>0, <2>1
    <3>2. long[i + 1] = here[i + 1] /\ long[i + 1] = k[i]
      BY <1>1, <2>1, <3>1
    <3>3. here[i + 1] = url[pos + i] /\ next[i] = url[pos + i]
      BY <1>2, <1>3, <3>1
    <3> QED BY <3>2, <3>3
  <2>4. Len(k) <= Len(next)
    BY <1>0, <1>3, <2>1
  <2> QED BY <2>2, <2>3, <2>4 DEF Starts
<1>7. ASSUME url[pos] = t, Starts(k, next) PROVE Starts(long, here)
  <2>1. Len(k) <= Len(url) - pos /\ \A i \in 1..Len(k) : k[i] = next[i]
    BY <1>3, <1>7 DEF Starts
  <2>2. ASSUME NEW j \in 1..Len(k) + 1 PROVE long[j] = here[j]
    <3>1. CASE j = 1
      <4>1. 1 \in 1..Len(url) - pos + 1 /\ pos + 1 - 1 = pos
        BY <1>0
      <4> QED BY <1>1, <1>2, <1>7, <3>1, <4>1
    <3>2. CASE j # 1
      <4>1. PICK i \in 1..Len(k) : j = i + 1
        <5>1. j - 1 \in 1..Len(k) /\ j = (j - 1) + 1
          BY <1>0, <3>2
        <5> QED BY <5>1
      <4>2. i + 1 \in 1..Len(url) - pos + 1 /\ pos + (i + 1) - 1 = pos + i /\ i \in 1..Len(url) - pos
        BY <1>0, <2>1
      <4>3. here[i + 1] = url[pos + i] /\ next[i] = url[pos + i]
        BY <1>2, <1>3, <4>2
      <4> QED BY <1>1, <2>1, <4>1, <4>3
    <3> QED BY <3>1, <3>2
  <2>3. Len(long) <= Len(here)
    BY <1>0, <1>1, <1>2, <2>1
  <2> QED BY <1>1, <2>2, <2>3 DEF Starts
<1>8. IsPrefix(<<t>>, here) <=> url[pos] = t
  <2> DEFINE one == <<t>>
  <2>1. one \in Seq(C) /\ Len(one) = 1 /\ one[1] = t
    OBVIOUS
  <2>2. here[1] = url[pos] /\ Len(here) >= 1
    <3>1. 1 \in 1..Len(url) - pos + 1 /\ pos + 1 - 1 = pos /\ Len(url) - pos + 1 >= 1
      BY <1>0
    <3> QED BY <1>2, <3>1
  <2>3. Len(here) \in Nat
    BY <1>2, LenProperties
  <2> HIDE DEF one
  <2>4. Starts(one, here) <=> url[pos] = t
    BY <2>1, <2>2, <2>3 DEF Starts
  <2>5. IsPrefix(one, here) <=> Starts(one, here)
    BY <1>2, <2>1, PrefixDef
  <2> QED BY <2>4, <2>5 DEF one
<1> QED BY <1>1, <1>4, <1>5, <1>6, <1>7, <1>8 DEF long, here, next

\* A search of O, the compressed trie, with its value below for every node and place.
Searching(C, trie, path, U, url, O, below) ==
  /\ IsTrie(trie, path, C) /\ url \in Seq(U)
  /\ Searchable(C, O, Len(trie))
  /\ \A i \in DOMAIN trie : Compressed(trie, O, i)
  /\ below \in [1..Len(trie) -> ByPlace(U, url)]
  /\ \A n \in 1..Len(trie) : below[n] = FindNode(O, url, below, n)

\* By way of node i the search finds the best of the matches.
FindsVia(trie, path, U, url, O, below, i) ==
  \A pos \in 1..Len(url) : BestIn(ViaChild(trie[i], CandsBy(trie, path, U, url, i), url, pos),
                                  Through(O[i], below[i], url, pos))

\* A match is a result with a rule.
LEMMA CandsProps ==
  ASSUME NEW trie, NEW path, NEW U, NEW url, NEW n, NEW pos, NEW r \in Cands(trie, path, U, url, n, pos)
  PROVE  r \in ResultSet(U) /\ r.rule_index \in Nat \ {0}
<1>1. r \in ResultSet(U) /\ \E x \in DOMAIN trie : trie[x].rule_index # 0 /\ \E p : r = Match(trie[x].rule_index, p)
  BY DEF Cands
<1> QED BY <1>1 DEF ResultSet, Match

\* At the end of the URL that is a result without parameters.
LEMMA BestAtTheEnd ==
  ASSUME NEW C, NEW trie, NEW path, IsTrie(trie, path, C), NEW U, NEW url \in Seq(U),
         NEW n \in DOMAIN trie
  PROVE  BestIn(Cands(trie, path, U, url, n, Len(url) + 1), Match(trie[n].rule_index, <<>>))
<1> DEFINE v == Match(trie[n].rule_index, <<>>)
           S == Cands(trie, path, U, url, n, Len(url) + 1)
<1>1. /\ trie[n].rule_index = 0 => S = {}
      /\ trie[n].rule_index # 0 => \A r : r \in S <=> r = v
  BY AtTheEnd
<1>2. v.rule_index = trie[n].rule_index /\ trie[n].rule_index \in Nat
  BY NodeProps DEF Match, IsTrie
<1> HIDE DEF v, S
<1>3. BestIn(S, v)
  BY <1>1, <1>2 DEF BestIn
<1> QED BY <1>3 DEF S, v

\* A node that is not merged finds the best of what its children find.
LEMMA PlainNode ==
  ASSUME NEW C, NEW trie, NEW path, NEW U, NEW url, NEW O, NEW below,
         Searching(C, trie, path, U, url, O, below),
         NEW n \in DOMAIN trie, O[n] = trie[n],
         \A c \in Range(trie[n].children) : FindsVia(trie, path, U, url, O, below, c)
  PROVE  FindsBest(U, url, CandsBy(trie, path, U, url, n), below[n])
<1>0. /\ IsTrie(trie, path, C) /\ url \in Seq(U) /\ Len(url) \in Nat
      /\ Searchable(C, O, Len(trie)) /\ DOMAIN trie = 1..Len(trie)
      /\ \A c \in 1..Len(trie) : below[c] \in ByPlace(U, url)
  BY LenProperties DEF Searching, IsTrie
<1>1. below[n] = FindNode(O, url, below, n)
  BY <1>0 DEF Searching
<1>2. ASSUME NEW pos \in 1..Len(url) + 1
      PROVE  below[n][pos] = IF pos > Len(url) THEN [rule_index |-> O[n].rule_index, params |-> <<>>]
                             ELSE BestOf(Passed(O, url, below, n, pos))
  BY <1>1 DEF FindNode, Passed
<1> DEFINE S == CandsBy(trie, path, U, url, n)
<1>3. \A pos \in 1..Len(url) + 1 : S[pos] = Cands(trie, path, U, url, n, pos) /\ S[pos] \subseteq ResultSet(U)
  BY CandsProps DEF CandsBy
<1> HIDE DEF S
<1>4. BestIn(S[Len(url) + 1], below[n][Len(url) + 1])
  <2>1. Len(url) + 1 \in 1..Len(url) + 1 /\ Len(url) + 1 > Len(url)
    BY <1>0
  <2>2. below[n][Len(url) + 1] = Match(trie[n].rule_index, <<>>)
    BY <1>2, <2>1 DEF Match
  <2>3. BestIn(Cands(trie, path, U, url, n, Len(url) + 1), Match(trie[n].rule_index, <<>>))
    BY <1>0, BestAtTheEnd
  <2> QED BY <1>3, <2>1, <2>2, <2>3
<1>5. ASSUME NEW pos \in 1..Len(url) PROVE BestIn(S[pos], below[n][pos])
  <2> DEFINE ch == trie[n].children
             results == Passed(O, url, below, n, pos)
             T == [k \in 1..Len(ch) |-> ViaChild(trie[ch[k]], CandsBy(trie, path, U, url, ch[k]), url, pos)]
  <2>1. n \in 1..Len(trie) /\ O[n].children = ch
        /\ \A c \in Range(ch) : c \in 1..Len(trie) /\ below[c] \in ByPlace(U, url)
    BY <1>0 DEF IsTrie
  <2>2. /\ Results(ResultSet(U), results) /\ Len(results) = Len(ch) /\ DOMAIN ch = 1..Len(ch)
    <3> HIDE DEF ch
    <3> QED BY <1>0, <2>1, PassedProps
  <2>3. \A k \in 1..Len(ch) : ch[k] \in Range(ch)
    BY <2>2 DEF Range
  <2>4. \A k \in 1..Len(ch) : results[k] = Through(O[ch[k]], below[ch[k]], url, pos)
    BY <2>1, <2>2 DEF Passed
  <2>5. ASSUME NEW k \in 1..Len(ch)
        PROVE  BestIn(T[k], results[k]) /\ \A r \in T[k] : r \in S[pos] /\ r.rule_index \in Nat \ {0}
    <3>1. PICK c \in Range(ch) : c = ch[k]
      BY <2>3
    <3>2. T[k] = ViaChild(trie[c], CandsBy(trie, path, U, url, c), url, pos)
      BY <3>1
    <3>3. results[k] = Through(O[c], below[c], url, pos)
      BY <2>4, <3>1
    <3> HIDE DEF T, results
    <3>4. BestIn(T[k], results[k])
      BY <3>2, <3>3 DEF FindsVia
    <3>5. T[k] \subseteq Cands(trie, path, U, url, n, pos)
      BY <1>0, <3>2, FromChild
    <3>6. pos \in 1..Len(url) + 1
      BY <1>0
    <3> QED BY <1>3, <3>4, <3>5, <3>6, CandsProps
  <2>6. UNION {T[k] : k \in 1..Len(ch)} = S[pos]
    <3>1. pos \in 1..Len(url) + 1
      BY <1>0
    <3>2. ASSUME NEW r \in S[pos] PROVE \E k \in 1..Len(ch) : r \in T[k]
      <4>1. PICK c \in Range(ch) : r \in ViaChild(trie[c], CandsBy(trie, path, U, url, c), url, pos)
        BY <1>0, <1>3, <3>1, ByChild
      <4>2. PICK k \in 1..Len(ch) : c = ch[k]
        BY <2>2 DEF Range
      <4> QED BY <4>1, <4>2
    <3> HIDE DEF T
    <3> QED BY <2>5, <3>2
  <2> HIDE DEF T, results, ch
  <2>7. EachBest(T, results)
    BY <2>2, <2>5 DEF EachBest
  <2>8. BestIn(UNION {T[k] : k \in 1..Len(results)}, BestOf(results))
    BY <2>2, <2>7, BestOfProps
  <2>9. below[n][pos] = BestOf(results)
    <3>1. pos \in 1..Len(url) + 1 /\ ~(pos > Len(url))
      BY <1>0
    <3> QED BY <1>2, <3>1 DEF results
  <2> QED BY <2>2, <2>6, <2>8, <2>9
<1>6. \A q \in 1..Len(url) + 1 : q \in 1..Len(url) \/ q = Len(url) + 1
  BY <1>0
<1>7. \A q \in 1..Len(url) + 1 : S[q] \subseteq ResultSet(U) /\ BestIn(S[q], below[n][q])
  BY <1>3, <1>4, <1>5, <1>6
<1> QED BY <1>7 DEF FindsBest, S

\* The search finds the best by way of it.
LEMMA ViaPlainNode ==
  ASSUME NEW C, NEW trie, NEW path, NEW U, NEW url, NEW O, NEW below,
         Searching(C, trie, path, U, url, O, below),
         NEW n \in DOMAIN trie, O[n] = trie[n],
         \A c \in Range(trie[n].children) : FindsVia(trie, path, U, url, O, below, c)
  PROVE  FindsVia(trie, path, U, url, O, below, n)
<1>1. FindsBest(U, url, CandsBy(trie, path, U, url, n), below[n])
  BY PlainNode
<1>2. /\ url \in Seq(U) /\ n \in 1..Len(trie) /\ below[n] \in ByPlace(U, url) /\ trie[n] \in NodesOf(C)
  <2>0. IsTrie(trie, path, C)
    BY DEF Searching
  <2>1. n \in 1..Len(trie)
    <3>1. trie \in Seq(NodesOf(C))
      BY <2>0 DEF IsTrie
    <3> QED BY <3>1, LenProperties
  <2>2. trie[n] \in NodesOf(C)
    BY <2>0, NodeProps DEF IsTrie
  <2> QED BY <2>1, <2>2 DEF Searching
<1>3. IsChild(C, trie[n])
  BY <1>2 DEF IsChild, NodesOf
<1>4. PICK b \in ByPlace(U, url) : b = below[n]
  BY <1>2
<1>5. ASSUME NEW pos \in 1..Len(url)
      PROVE  BestIn(ViaChild(trie[n], CandsBy(trie, path, U, url, n), url, pos), Through(trie[n], b, url, pos))
  BY <1>1, <1>2, <1>3, <1>4, ThroughProps
<1> QED BY <1>4, <1>5 DEF FindsVia

\* A child that is no parameter passes a result on as it is.
LEMMA PassesOn ==
  ASSUME NEW U, NEW r \in ResultSet(U), NEW child, child.param = "none", NEW text
  PROVE  WithParam(r, child, text) = r
<1>1. PICK a \in Nat, p \in Seq(Pairs(U)) : r = [rule_index |-> a, params |-> p]
  BY DEF ResultSet
<1>2. WithParam(r, child, text) = [r EXCEPT !.params = <<>> \o r.params]
  BY <1>1 DEF WithParam, ParamOf
<1>3. <<>> \o r.params = p
  BY <1>1
<1>4. [r EXCEPT !.params = p] = r
  BY <1>1, SMT
<1> QED BY <1>2, <1>3, <1>4

\* By way of a merged node the search finds what it finds by way of the child, one character on.
LEMMA ViaMergedNode ==
  ASSUME NEW C, NEW trie, NEW path, NEW U, NEW url, NEW O, NEW below,
         Searching(C, trie, path, U, url, O, below),
         NEW i \in DOMAIN trie, i # 1, NEW j, ~Apart(trie, i), j = Only(trie, i),
         O[i] = Merge(trie[i], O[j]), FindsVia(trie, path, U, url, O, below, j)
  PROVE  FindsVia(trie, path, U, url, O, below, i)
<1>0. /\ IsTrie(trie, path, C) /\ url \in Seq(U) /\ Len(url) \in Nat
      /\ O \in [1..Len(trie) -> NodesOf(C)] /\ DOMAIN trie = 1..Len(trie)
      /\ below \in [1..Len(trie) -> ByPlace(U, url)]
      /\ \A n \in 1..Len(trie) : below[n] = FindNode(O, url, below, n)
  BY LenProperties DEF Searching, IsTrie, Searchable
<1>1. /\ j \in DOMAIN trie /\ j # 1 /\ Range(trie[i].children) = {j}
      /\ trie[i].rule_index = 0 /\ trie[i].param = "none" /\ trie[j].param = "none"
  BY <1>0, ApartProps
<1>2. PICK t \in C : trie[i].key = <<t>>
  BY <1>0, <1>1, TokenOf
<1>3. PICK child \in NodesOf(C) : child = O[j]
  BY <1>0, <1>1
<1>4. /\ O[i].key = trie[i].key \o child.key /\ O[i].param = child.param
      /\ O[i].rule_index = child.rule_index /\ O[i].children = child.children
  <2>1. PICK node \in NodesOf(C) : node = trie[i]
    BY <1>0, NodeProps DEF IsTrie
  <2>2. /\ Merge(node, child).key = node.key \o child.key
        /\ Merge(node, child).param = child.param
        /\ Merge(node, child).rule_index = child.rule_index
        /\ Merge(node, child).children = child.children
    BY MergeProps
  <2>3. O[i] = Merge(node, child)
    BY <1>3, <2>1
  <2> QED BY <2>1, <2>2, <2>3
<1>5. PICK k \in Seq(C) : k = child.key /\ k # <<>> /\ child.param = "none" /\ O[i].key = <<t>> \o k
  <2>1. Compressed(trie, O, j)
    BY <1>1 DEF Searching
  <2>2. child.param = "none" /\ child.key # <<>>
    BY <1>1, <1>3, <2>1 DEF Compressed
  <2>3. child.key \in Seq(C)
    BY DEF NodesOf
  <2> QED BY <1>2, <1>4, <2>2, <2>3
<1>6. PICK b \in ByPlace(U, url) : b = below[i]
  BY <1>0
<1>7. ASSUME NEW q \in 1..Len(url) PROVE below[j][q] = b[q]
  <2> DEFINE Each(ch) == [x \in DOMAIN ch |-> Through(O[ch[x]], below[ch[x]], url, q)]
  <2>1. ASSUME NEW n \in 1..Len(trie) PROVE below[n][q] = BestOf(Each(O[n].children))
    <3>1. q \in 1..Len(url) + 1 /\ ~(q > Len(url))
      BY <1>0
    <3>2. below[n] = FindNode(O, url, below, n)
      BY <1>0
    <3> QED BY <3>1, <3>2 DEF FindNode
  <2>2. O[i].children = O[j].children
    BY <1>3, <1>4
  <2> HIDE DEF Each
  <2> QED BY <1>0, <1>1, <1>6, <2>1, <2>2
<1>8. below[j][Len(url) + 1] = b[Len(url) + 1]
  <2>1. ASSUME NEW n \in 1..Len(trie)
        PROVE  below[n][Len(url) + 1] = [rule_index |-> O[n].rule_index, params |-> <<>>]
    <3>1. Len(url) + 1 \in 1..Len(url) + 1 /\ Len(url) + 1 > Len(url)
      BY <1>0
    <3>2. below[n] = FindNode(O, url, below, n)
      BY <1>0
    <3> QED BY <3>1, <3>2 DEF FindNode
  <2>2. O[i].rule_index = O[j].rule_index
    BY <1>3, <1>4
  <2> QED BY <1>0, <1>1, <1>6, <2>1, <2>2
<1>9. \A q \in 1..Len(url) + 1 : below[j][q] = b[q] /\ b[q] \in ResultSet(U)
  <2>1. \A q \in 1..Len(url) + 1 : q \in 1..Len(url) \/ q = Len(url) + 1
    BY <1>0
  <2> QED BY <1>7, <1>8, <2>1 DEF ByPlace
<1> SUFFICES ASSUME NEW pos \in 1..Len(url)
             PROVE  BestIn(ViaChild(trie[i], CandsBy(trie, path, U, url, i), url, pos),
                           Through(O[i], below[i], url, pos))
  BY DEF FindsVia
<1> DEFINE here == From(url, pos)
           next == From(url, pos + 1)
           via  == ViaChild(trie[i], CandsBy(trie, path, U, url, i), url, pos)
           found == Through(O[i], b, url, pos)
<1>10. /\ IsPrefix(<<t>> \o k, here) <=> url[pos] = t /\ IsPrefix(k, next)
       /\ IsPrefix(<<t>>, here) <=> url[pos] = t
       /\ Len(<<t>> \o k) = Len(k) + 1
  BY <1>0, KeyBehind
<1>11. Len(k) \in Nat /\ Len(k) # 0
  BY <1>5, LenProperties, EmptySeq
<1>12. Takes(O[i], here) = IF url[pos] = t /\ IsPrefix(k, next) THEN Len(k) + 1 ELSE 0
  BY <1>4, <1>5, <1>10 DEF Takes
<1>13. Takes(trie[i], here) = IF url[pos] = t THEN 1 ELSE 0
  <2>1. Takes(trie[i], here) = IF IsPrefix(<<t>>, here) THEN Len(<<t>>) ELSE 0
    BY <1>1, <1>2 DEF Takes
  <2>2. Len(<<t>>) = 1
    OBVIOUS
  <2> QED BY <1>10, <2>1, <2>2
<1>14. found = IF Takes(O[i], here) = 0 THEN NoRule
               ELSE WithParam(b[pos + Takes(O[i], here)], O[i], SubSeq(here, 1, Takes(O[i], here)))
  BY ThroughDef
<1>15. via = IF Takes(trie[i], here) = 0 THEN {}
             ELSE {WithParam(r, trie[i], SubSeq(here, 1, Takes(trie[i], here))) :
                     r \in CandsBy(trie, path, U, url, i)[pos + Takes(trie[i], here)]}
  BY DEF ViaChild
<1> HIDE DEF here, next, via, found
<1>16. CASE url[pos] # t
  <2>1. found = NoRule /\ via = {}
    BY <1>12, <1>13, <1>14, <1>15, <1>16
  <2> QED BY <2>1, <1>6, NoRuleProps DEF via, found
<1>17. CASE url[pos] = t
  <2>1. via = Cands(trie, path, U, url, i, pos + 1)
    <3>1. Takes(trie[i], here) = 1
      BY <1>13, <1>17
    <3>2. CandsBy(trie, path, U, url, i)[pos + 1] = Cands(trie, path, U, url, i, pos + 1)
      <4>1. pos + 1 \in 1..Len(url) + 1
        BY <1>0
      <4> QED BY <4>1 DEF CandsBy
    <3> DEFINE all == Cands(trie, path, U, url, i, pos + 1)
               text == SubSeq(here, 1, 1)
    <3>3. via = {WithParam(r, trie[i], text) : r \in all}
      BY <1>15, <3>1, <3>2
    <3>4. \A r \in all : WithParam(r, trie[i], text) = r
      BY <1>1, CandsProps, PassesOn
    <3> HIDE DEF all, text
    <3>5. via = all
      BY <3>3, <3>4
    <3> QED BY <3>5 DEF all
  <2>2. CASE pos = Len(url)
    <3>1. via = {}
      BY <1>0, <1>1, <2>1, <2>2, AtTheEnd
    <3>2. ~IsPrefix(k, next)
      <4>1. next = From(url, Len(url) + 1) /\ Len(url) + 1 \in 1..Len(url) + 1
        BY <1>0, <2>2 DEF next
      <4>2. PICK n \in 1..Len(url) + 1 : n = Len(url) + 1
        BY <4>1
      <4>3. Len(From(url, n)) = Len(url) - n + 1
        BY <1>0, FromProps
      <4>4. Len(next) = 0
        BY <1>0, <4>1, <4>2, <4>3
      <4> QED BY <1>11, <4>4 DEF IsPrefix
    <3>3. found = NoRule
      BY <1>12, <1>14, <3>2
    <3> QED BY <3>1, <3>3, <1>6, NoRuleProps DEF via, found
  <2>3. CASE pos # Len(url)
    <3>1. pos + 1 \in 1..Len(url)
      BY <1>0, <2>3
    <3> DEFINE more == ViaChild(trie[j], CandsBy(trie, path, U, url, j), url, pos + 1)
               later == Through(O[j], below[j], url, pos + 1)
    <3>2. BestIn(more, later)
      BY <3>1 DEF FindsVia
    <3>3. via = more
      <4>1. PICK n \in 1..Len(url) : n = pos + 1
        BY <3>1
      <4>2. j \in Range(trie[i].children)
        BY <1>1
      <4>3. ViaChild(trie[j], CandsBy(trie, path, U, url, j), url, n) \subseteq Cands(trie, path, U, url, i, n)
        BY <1>0, <4>2, FromChild
      <4>4. ASSUME NEW r \in Cands(trie, path, U, url, i, n)
            PROVE  r \in ViaChild(trie[j], CandsBy(trie, path, U, url, j), url, n)
        <5>1. PICK c \in Range(trie[i].children) :
                 r \in ViaChild(trie[c], CandsBy(trie, path, U, url, c), url, n)
          BY <1>0, ByChild
        <5>2. c = j
          BY <1>1
        <5> QED BY <5>1, <5>2
      <4>5. more = Cands(trie, path, U, url, i, n)
        BY <4>1, <4>3, <4>4
      <4> QED BY <2>1, <4>1, <4>5
    <3>4. found = later
      <4>1. Takes(O[j], next) = IF IsPrefix(k, next) THEN Len(k) ELSE 0
        BY <1>3, <1>5 DEF Takes
      <4>2. later = IF Takes(O[j], next) = 0 THEN NoRule
                    ELSE WithParam(below[j][(pos + 1) + Takes(O[j], next)], O[j], SubSeq(next, 1, Takes(O[j], next)))
        BY ThroughDef DEF next
      <4> HIDE DEF later
      <4>3. CASE ~IsPrefix(k, next)
        BY <1>12, <1>14, <4>1, <4>2, <4>3
      <4>4. CASE IsPrefix(k, next)
        <5>1. Takes(O[i], here) = Len(k) + 1 /\ Takes(O[j], next) = Len(k)
          BY <1>12, <1>17, <4>1, <4>4
        <5>2. PICK q \in 1..Len(url) + 1 : q = pos + (Len(k) + 1) /\ q = (pos + 1) + Len(k)
          <6>1. Len(next) = Len(url) - pos
            <7>1. PICK n \in 1..Len(url) + 1 : n = pos + 1
              BY <1>0
            <7>2. Len(From(url, n)) = Len(url) - n + 1
              BY <1>0, FromProps
            <7>3. Len(url) - n + 1 = Len(url) - pos
              BY <1>0, <7>1
            <7> QED BY <7>1, <7>2, <7>3 DEF next
          <6>2. Len(k) <= Len(url) - pos
            BY <4>4, <6>1 DEF IsPrefix
          <6>3. pos + (Len(k) + 1) \in 1..Len(url) + 1 /\ pos + (Len(k) + 1) = (pos + 1) + Len(k)
            BY <1>0, <1>11, <6>2
          <6> QED BY <6>3
        <5>3. found = WithParam(b[q], O[i], SubSeq(here, 1, Len(k) + 1))
          BY <1>11, <1>14, <5>1, <5>2
        <5>4. later = WithParam(below[j][q], O[j], SubSeq(next, 1, Len(k)))
          BY <1>11, <4>2, <5>1, <5>2
        <5>5. below[j][q] = b[q] /\ b[q] \in ResultSet(U)
          BY <1>9
        <5>6. O[i].param = "none" /\ O[j].param = "none"
          BY <1>3, <1>4, <1>5
        <5> QED BY <5>3, <5>4, <5>5, <5>6, PassesOn
      <4> QED BY <4>3, <4>4
    <3> HIDE DEF more, later
    <3> QED BY <1>6, <3>2, <3>3, <3>4 DEF via, found
  <2> QED BY <2>2, <2>3
<1> QED BY <1>16, <1>17

\* By way of every node but the first, the search finds the best there is.
LEMMA AllFind ==
  ASSUME NEW C, NEW trie, NEW path, NEW U, NEW url, NEW O, NEW below,
         Searching(C, trie, path, U, url, O, below)
  PROVE  \A i \in DOMAIN trie : i # 1 => FindsVia(trie, path, U, url, O, below, i)
<1> DEFINE D == DOMAIN trie
           rank == [i \in D |-> Len(trie) - i]
           S == {i \in D : i # 1 => FindsVia(trie, path, U, url, O, below, i)}
<1>0. IsTrie(trie, path, C) /\ D = 1..Len(trie) /\ Len(trie) \in Nat
  BY LenProperties DEF Searching, IsTrie
<1>1. ASSUME NEW i \in D, \A j \in D : rank[j] < rank[i] => j \in S PROVE i \in S
  <2> SUFFICES ASSUME i # 1 PROVE FindsVia(trie, path, U, url, O, below, i)
    OBVIOUS
  <2>1. ASSUME NEW j \in D, i < j PROVE FindsVia(trie, path, U, url, O, below, j)
    <3>1. rank[j] < rank[i] /\ j # 1
      BY <1>0, <2>1
    <3> QED BY <1>1, <3>1
  <2>2. Compressed(trie, O, i)
    BY DEF Searching
  <2>3. CASE O[i] = trie[i]
    <3>1. \A c \in Range(trie[i].children) : FindsVia(trie, path, U, url, O, below, c)
      BY <1>0, <2>1 DEF IsTrie
    <3> QED BY <2>3, <3>1, ViaPlainNode
  <2>4. CASE ~Apart(trie, i) /\ O[i] = Merge(trie[i], O[Only(trie, i)])
    <3>1. PICK j \in D : j = Only(trie, i) /\ i < j
      BY <1>0, <2>4, ApartProps
    <3>2. FindsVia(trie, path, U, url, O, below, j)
      BY <2>1, <3>1
    <3>3. O[i] = Merge(trie[i], O[j])
      BY <2>4, <3>1
    <3> QED BY <2>4, <3>1, <3>2, <3>3, ViaMergedNode
  <2> QED BY <2>2, <2>3, <2>4 DEF Compressed
<1>2. D \subseteq S
  <2>1. rank \in [D -> Nat]
    BY <1>0
  <2> HIDE DEF D, S, rank
  <2>2. Inherited(D, S, rank)
    BY <1>1, <2>1 DEF Inherited
  <2> QED BY <2>2, RankInd
<1> QED BY <1>2

\* The matches of a set of rules with a URL.
MatchesAmong(entries, url) ==
  UNION {{[rule_index |-> d[2], params |-> p] : p \in MatchesOf(d[1], url)} : d \in entries}

\* Every match is by way of the first node.
LEMMA CandsAtFirst ==
  ASSUME NEW C, NEW trie, NEW path, IsTrie(trie, path, C), NEW U, NEW url \in Seq(U)
  PROVE  Cands(trie, path, U, url, 1, 1) = MatchesAmong(Entries(trie, path), url)
<1> DEFINE all == Cands(trie, path, U, url, 1, 1)
           ref == MatchesAmong(Entries(trie, path), url)
<1>0. Len(url) \in Nat /\ path[1] = <<>> /\ \A x \in DOMAIN trie : path[x] \in Seq(C) /\ Len(path[x]) \in Nat
  BY LenProperties DEF IsTrie
<1>1. Len(path[1]) + 1 = 1
  BY <1>0
<1>2. \A x \in DOMAIN trie : Starts(path[1], path[x])
  <2>1. Len(path[1]) = 0
    BY <1>0
  <2> QED BY <1>0, <2>1 DEF Starts
<1>3. ASSUME NEW r \in all PROVE r \in ref
  <2>1. PICK x \in DOMAIN trie : /\ trie[x].rule_index # 0
                                 /\ \E p \in Matching(path[x], url)[Len(path[1]) + 1][1] : r = Match(trie[x].rule_index, p)
    BY DEF Cands
  <2>2. PICK p \in Matching(path[x], url)[1][1] : r = Match(trie[x].rule_index, p)
    BY <1>1, <2>1
  <2> DEFINE d == <<path[x], trie[x].rule_index>>
  <2>3. d \in Entries(trie, path)
    BY <2>1 DEF Entries
  <2>4. p \in MatchesOf(d[1], url) /\ r = [rule_index |-> d[2], params |-> p]
    BY <2>2 DEF MatchesOf, Match
  <2> HIDE DEF d
  <2>5. r \in {[rule_index |-> d[2], params |-> q] : q \in MatchesOf(d[1], url)}
    BY <2>4
  <2> QED BY <2>3, <2>5 DEF MatchesAmong
<1>4. ASSUME NEW r \in ref PROVE r \in all
  <2>1. PICK d \in Entries(trie, path) : r \in {[rule_index |-> d[2], params |-> p] : p \in MatchesOf(d[1], url)}
    BY DEF MatchesAmong
  <2>2. PICK p \in MatchesOf(d[1], url) : r = [rule_index |-> d[2], params |-> p]
    BY <2>1
  <2>3. PICK x \in DOMAIN trie : trie[x].rule_index # 0 /\ d = <<path[x], trie[x].rule_index>>
    BY DEF Entries
  <2>4. p \in Matching(path[x], url)[Len(path[1]) + 1][1] /\ r = Match(trie[x].rule_index, p)
    BY <1>1, <2>2, <2>3 DEF MatchesOf, Match
  <2>5. p \in Seq(Pairs(U))
    <3>1. 1 \in 1..Len(path[x]) + 1 /\ 1 \in 1..Len(url) + 1
      BY <1>0
    <3>2. Matching(path[x], url)[1] \in ParamSets(U, url)
      BY <1>0, <3>1, MatchingType
    <3> QED BY <1>1, <2>4, <3>1, <3>2 DEF ParamSets
  <2>6. trie[x].rule_index \in Nat
    BY NodeProps DEF IsTrie
  <2>7. r \in ResultSet(U)
    BY <2>4, <2>5, <2>6 DEF Match, ResultSet
  <2> QED BY <1>2, <2>3, <2>4, <2>7 DEF Cands
<1> HIDE DEF all, ref
<1> QED BY <1>3, <1>4 DEF all, ref

\* A lookup in the compressed trie finds the match with the least index, or none when there is none.
LEMMA FindProps ==
  ASSUME NEW C, NEW trie, NEW path, IsTrie(trie, path, C), NEW U, NEW url \in Seq(U)
  PROVE  BestIn(MatchesAmong(Entries(trie, path), url), find(optimize(trie), url))
<1> DEFINE O == optimize(trie)
           N == Len(trie)
<1>0. DOMAIN trie = 1..N /\ N \in Nat /\ N >= 1 /\ Len(url) \in Nat
  BY LenProperties, EmptySeq DEF IsTrie
<1>1. O \in [DOMAIN trie -> NodesOf(C)] /\ O[1] = trie[1]
  BY OptimizeDef
<1>2. \A i \in DOMAIN trie : Compressed(trie, O, i)
  BY OptimizeProps
<1> HIDE DEF O, N
<1>3. Searchable(C, O, N)
  <2>1. ASSUME NEW n \in 1..N, NEW c \in Range(O[n].children) PROVE c \in 1..N /\ n < c
    BY <1>0, <1>2 DEF Compressed
  <2> QED BY <1>0, <1>1, <2>1 DEF Searchable
<1>4. PICK below \in [1..N -> ByPlace(U, url)] :
        /\ \A n \in 1..N : below[n] = FindNode(O, url, below, n)
        /\ find(O, url) = below[1][1]
  BY <1>0, <1>3, FindDef
<1>5. Searching(C, trie, path, U, url, O, below)
  BY <1>2, <1>3, <1>4 DEF Searching, N
<1>6. \A c \in Range(trie[1].children) : FindsVia(trie, path, U, url, O, below, c)
  <2>1. 1 \in DOMAIN trie
    BY <1>0
  <2>2. \A c \in Range(trie[1].children) : c \in DOMAIN trie /\ 1 < c
    BY <2>1 DEF IsTrie
  <2>3. \A c \in Range(trie[1].children) : c \in DOMAIN trie /\ c # 1
    BY <1>0, <2>2
  <2> QED BY <1>5, <2>3, AllFind
<1>7. FindsBest(U, url, CandsBy(trie, path, U, url, 1), below[1])
  <2>1. 1 \in DOMAIN trie
    BY <1>0
  <2> QED BY <1>1, <1>5, <1>6, <2>1, PlainNode
<1>8. BestIn(Cands(trie, path, U, url, 1, 1), below[1][1])
  <2>1. 1 \in 1..Len(url) + 1
    BY <1>0
  <2>2. CandsBy(trie, path, U, url, 1)[1] = Cands(trie, path, U, url, 1, 1)
    BY <2>1 DEF CandsBy
  <2> QED BY <1>7, <2>1, <2>2 DEF FindsBest
<1> QED BY <1>4, <1>8, CandsAtFirst DEF O

-----------------------------------------------------------------------------
(* The router, from the first rule to the last. *)

\* What the URLs of the rules are made of.
TokensOf(table) == UNION {ToSet(table[i].url) : i \in DOMAIN table}

\* What the first k rules declare for a method.
DeclaredBy(table, m, k) ==
  UNION {Declared(table, m, i) : i \in {j \in 1..k : m \in table[j].methods}}

\* How many of the first k rules are for a method.
HowMany(table, m, k) == Cardinality({j \in 1..k : m \in table[j].methods})

\* The list of a method has the first k rules that are for it, at the places their indices say.
Listed(table, list, m, k) ==
  /\ list \in Seq(ToSet(table)) /\ Len(list) = HowMany(table, m, k)
  /\ \A i \in {j \in 1..k : m \in table[j].methods} :
       IndexOf(table, m, i) - 1 \in 1..Len(list) /\ list[IndexOf(table, m, i) - 1] = table[i]

\* The trie of a method has what the rules so far declare for it.
Holds(table, trie, m, k) ==
  \E path : /\ IsTrie(trie, path, TokensOf(table))
            /\ Entries(trie, path) = DeclaredBy(table, m, k)

Filled(table, per_method, m, k) ==
  /\ DOMAIN per_method = {"rules", "trie"}
  /\ Listed(table, per_method.rules, m, k)
  /\ Holds(table, per_method.trie, m, k)

\* The trie of a method is such a trie, compressed, with all the rules.
Compact(table, per_method, m) ==
  /\ Listed(table, per_method.rules, m, Len(table))
  /\ \E trie : Holds(table, trie, m, Len(table)) /\ per_method.trie = optimize(trie)

\* Until the router serves, no trie is compressed and each has the rules added so far.
RouterInv ==
  /\ rules \in Tables
  /\ phase # "serving" => /\ added \in 0..Len(rules)
                          /\ DOMAIN router = Method
                          /\ \A m \in Method : Filled(rules, router[m], m, added)
  /\ phase = "serving" => \A m \in Method : Compact(rules, router[m], m)

\* A table of rules is a sequence, and so are their URLs.
LEMMA RulesProps ==
  ASSUME rules \in Tables
  PROVE  /\ rules \in Seq(ToSet(rules)) /\ Len(rules) \in Nat /\ DOMAIN rules = 1..Len(rules)
         /\ \A i \in DOMAIN rules : /\ rules[i] \in ToSet(rules) /\ rules[i].url \in Seq(TokensOf(rules))
                                    /\ WithoutSlash(rules[i].url) \in Seq(TokensOf(rules))
<1>1. rules \in Seq(ToSet(rules)) /\ \A i \in DOMAIN rules : IsSeq(rules[i].url)
  BY TablesAssumption DEF IsSeq
<1>2. Len(rules) \in Nat /\ DOMAIN rules = 1..Len(rules)
  BY <1>1, LenProperties
<1>3. ASSUME NEW i \in DOMAIN rules PROVE rules[i] \in ToSet(rules)
  BY DEF ToSet
<1>4. ASSUME NEW i \in DOMAIN rules
      PROVE  rules[i].url \in Seq(TokensOf(rules)) /\ WithoutSlash(rules[i].url) \in Seq(TokensOf(rules))
  <2> DEFINE url == rules[i].url
  <2>1. url \in Seq(ToSet(url)) /\ ToSet(url) \subseteq TokensOf(rules)
    BY <1>1 DEF IsSeq, TokensOf
  <2> HIDE DEF url
  <2>2. Len(url) \in Nat /\ DOMAIN url = 1..Len(url) /\ \A k \in 1..Len(url) : url[k] \in TokensOf(rules)
    BY <2>1, LenProperties, ElementOfSeq
  <2>3. url \in Seq(TokensOf(rules))
    BY <2>1, <2>2
  <2>4. WithoutSlash(url) \in Seq(TokensOf(rules))
    <3>1. CASE Len(url) > 1 /\ Last(url) = "/"
      <4>1. WithoutSlash(url) = SubSeq(url, 1, Len(url) - 1)
        BY <3>1 DEF WithoutSlash, Front
      <4>2. \A k \in 1..Len(url) - 1 : url[k] \in TokensOf(rules)
        BY <2>2
      <4>3. Len(url) - 1 \in Int
        BY <2>2
      <4> QED BY <4>1, <4>2, <4>3, SubSeqProperties
    <3>2. CASE ~(Len(url) > 1 /\ Last(url) = "/")
      BY <2>3, <3>2 DEF WithoutSlash
    <3> QED BY <3>1, <3>2
  <2> QED BY <2>3, <2>4 DEF url
<1> QED BY <1>1, <1>2, <1>3, <1>4

\* One more rule.
LEMMA OneMore ==
  ASSUME NEW m, NEW k \in Nat
  PROVE  /\ HowMany(rules, m, k) \in Nat
         /\ m \in rules[k + 1].methods => /\ DeclaredBy(rules, m, k + 1) = DeclaredBy(rules, m, k) \cup Declared(rules, m, k + 1)
                                          /\ HowMany(rules, m, k + 1) = HowMany(rules, m, k) + 1
                                          /\ IndexOf(rules, m, k + 1) = HowMany(rules, m, k) + 2
         /\ m \notin rules[k + 1].methods => /\ DeclaredBy(rules, m, k + 1) = DeclaredBy(rules, m, k)
                                             /\ HowMany(rules, m, k + 1) = HowMany(rules, m, k)
<1> DEFINE J(n) == {j \in 1..n : m \in rules[j].methods}
<1>1. IsFiniteSet(J(k)) /\ J(k) \in SUBSET (1..k)
  <2>1. IsFiniteSet(1..k)
    BY FS_Interval
  <2> QED BY <2>1, FS_Subset
<1>2. k + 1 \notin J(k) /\ k + 1 \in 1..k + 1
  OBVIOUS
<1>3. J(k + 1) = IF m \in rules[k + 1].methods THEN J(k) \cup {k + 1} ELSE J(k)
  <2>1. 1..k + 1 = 1..k \cup {k + 1}
    OBVIOUS
  <2> QED BY <2>1
<1>4. HowMany(rules, m, k) = Cardinality(J(k)) /\ HowMany(rules, m, k + 1) = Cardinality(J(k + 1))
  BY DEF HowMany
<1>5. IndexOf(rules, m, k + 1) = Cardinality(J(k + 1)) + 1
  BY DEF IndexOf
<1>6. /\ DeclaredBy(rules, m, k) = UNION {Declared(rules, m, i) : i \in J(k)}
      /\ DeclaredBy(rules, m, k + 1) = UNION {Declared(rules, m, i) : i \in J(k + 1)}
  BY DEF DeclaredBy
<1> HIDE DEF J
<1>7. Cardinality(J(k)) \in Nat /\ Cardinality(J(k) \cup {k + 1}) = Cardinality(J(k)) + 1
  BY <1>1, <1>2, FS_CardinalityType, FS_AddElement
<1>8. CASE m \in rules[k + 1].methods
  <2>1. J(k + 1) = J(k) \cup {k + 1}
    BY <1>3, <1>8
  <2>2. DeclaredBy(rules, m, k + 1) = DeclaredBy(rules, m, k) \cup Declared(rules, m, k + 1)
    BY <1>6, <2>1
  <2>3. HowMany(rules, m, k + 1) = HowMany(rules, m, k) + 1 /\ IndexOf(rules, m, k + 1) = HowMany(rules, m, k) + 2
    <3>1. PICK c \in Nat : c = Cardinality(J(k))
      BY <1>7
    <3>2. Cardinality(J(k + 1)) = c + 1
      BY <1>7, <2>1, <3>1
    <3> QED BY <1>4, <1>5, <3>1, <3>2
  <2> QED BY <1>4, <1>7, <1>8, <2>2, <2>3
<1>9. CASE m \notin rules[k + 1].methods
  <2>1. J(k + 1) = J(k)
    BY <1>3, <1>9
  <2> QED BY <1>4, <1>6, <1>7, <1>9, <2>1
<1> QED BY <1>8, <1>9

\* No rule yet.
LEMMA NoneYet ==
  ASSUME NEW m, NEW C
  PROVE  /\ HowMany(rules, m, 0) = 0 /\ DeclaredBy(rules, m, 0) = {}
         /\ \E path : IsTrie(EmptyTrie, path, C) /\ Entries(EmptyTrie, path) = {}
<1>1. {j \in 1..0 : m \in rules[j].methods} = {}
  OBVIOUS
<1>2. HowMany(rules, m, 0) = 0 /\ DeclaredBy(rules, m, 0) = {}
  <2>1. Cardinality({}) = 0
    BY FS_EmptySet
  <2> QED BY <1>1, <2>1 DEF HowMany, DeclaredBy
<1> DEFINE node == NewNode(<<>>, "none")
           path == [n \in {1} |-> <<>>]
<1>3. /\ node \in NodesOf(C) /\ node.rule_index = 0 /\ Range(node.children) = {}
  <2>1. node = [rule_index |-> 0, key |-> <<>>, param |-> "none", children |-> <<>>]
    BY DEF NewNode
  <2>2. <<>> \in Seq(C) /\ <<>> \in Seq(Nat)
    OBVIOUS
  <2>3. PICK key \in Seq(C), children \in Seq(Nat) : key = <<>> /\ children = <<>>
    BY <2>2
  <2>4. Range(children) = {}
    BY <2>3 DEF Range
  <2>5. node = [rule_index |-> 0, key |-> key, param |-> "none", children |-> children]
    BY <2>1, <2>3
  <2> HIDE DEF node
  <2>6. node \in NodesOf(C)
    BY <2>5 DEF NodesOf
  <2> QED BY <2>4, <2>5, <2>6
<1> HIDE DEF node
<1>4. EmptyTrie = <<node>>
  BY DEF EmptyTrie, node
<1> DEFINE trie == <<node>>
<1>5. trie \in Seq(NodesOf(C)) /\ trie # <<>> /\ DOMAIN trie = {1} /\ trie[1] = node
  BY <1>3
<1> HIDE DEF trie
<1>6. path \in [DOMAIN trie -> Seq(C)] /\ path[1] = <<>>
  BY <1>5
<1> HIDE DEF path
<1>7. IsTrie(trie, path, C)
  BY <1>3, <1>5, <1>6 DEF IsTrie
<1>8. Entries(trie, path) = {}
  BY <1>3, <1>5 DEF Entries
<1> QED BY <1>2, <1>4, <1>7, <1>8 DEF trie

\* At the start.
LEMMA RouterInit == RoutesInit => RouterInv
<1> SUFFICES ASSUME RoutesInit PROVE RouterInv
  OBVIOUS
<1>1. rules \in Tables /\ added = 0 /\ router = EmptyRouter
  BY DEF RoutesInit
<1>2. Len(rules) \in Nat
  BY <1>1, RulesProps
<1>3. ASSUME NEW m \in Method PROVE Filled(rules, router[m], m, 0)
  <2>0. {j \in 1..0 : m \in rules[j].methods} = {}
    OBVIOUS
  <2>1. router[m] = [rules |-> <<>>, trie |-> EmptyTrie]
    BY <1>1 DEF EmptyRouter, PerMethod
  <2>2. <<>> \in Seq(ToSet(rules)) /\ Len(<<>>) = 0
    OBVIOUS
  <2>3. DOMAIN router[m] = {"rules", "trie"} /\ router[m].rules = <<>> /\ router[m].trie = EmptyTrie
    BY <2>1
  <2>4. Listed(rules, <<>>, m, 0)
    BY <2>0, <2>2, NoneYet DEF Listed
  <2>5. Holds(rules, EmptyTrie, m, 0)
    BY NoneYet DEF Holds
  <2> QED BY <2>3, <2>4, <2>5 DEF Filled
<1>4. phase # "serving"
  BY DEF RoutesInit
<1> QED BY <1>1, <1>2, <1>3, <1>4 DEF RouterInv, EmptyRouter

\* A rule more, for one of its methods: what internal_add_rule_object adds to the trie of the method.
LEMMA RuleAdded ==
  ASSUME NEW C, NEW trie, NEW path, IsTrie(trie, path, C), NEW url \in Seq(C),
         NEW short \in Seq(C), NEW index \in Nat \ {0},
         RuleAt(trie, url) = 0, short # url => RuleAt(trie, short) = 0
  PROVE  LET one == Add(trie, url, index)
             two == IF short = url THEN one ELSE Add(one, short, RULE_SPECIAL_REDIRECT_SLASH)
         IN \E q : /\ IsTrie(two, q, C)
                   /\ Entries(two, q) = Entries(trie, path) \cup
                        ({<<url, index>>} \cup
                          (IF short = url THEN {} ELSE {<<short, RULE_SPECIAL_REDIRECT_SLASH>>}))
<1> DEFINE one == Add(trie, url, index)
           two == Add(one, short, RULE_SPECIAL_REDIRECT_SLASH)
           old == Entries(trie, path)
<1>1. PICK q : IsTrie(one, q, C) /\ Entries(one, q) = old \cup {<<url, index>>}
  BY AddProps
<1> HIDE DEF one
<1>2. CASE short = url
  BY <1>1, <1>2 DEF one
<1>3. CASE short # url
  <2>1. \A e \in old : e[1] # short
    BY <1>3, RuleAtProps
  <2>2. \A e \in Entries(one, q) : e[1] # short
    <3> TAKE e \in Entries(one, q)
    <3>1. e \in old \/ e = <<url, index>>
      BY <1>1
    <3> QED BY <1>3, <2>1, <3>1
  <2>3. RuleAt(one, short) = 0
    BY <1>1, <2>2, RuleAtProps
  <2>4. RULE_SPECIAL_REDIRECT_SLASH \in Nat \ {0}
    BY DEF RULE_SPECIAL_REDIRECT_SLASH
  <2>5. PICK p : /\ IsTrie(two, p, C)
                 /\ Entries(two, p) = Entries(one, q) \cup {<<short, RULE_SPECIAL_REDIRECT_SLASH>>}
    BY <1>1, <2>3, <2>4, AddProps
  <2> HIDE DEF two, old
  <2>6. Entries(two, p) = old \cup ({<<url, index>>} \cup {<<short, RULE_SPECIAL_REDIRECT_SLASH>>})
    BY <1>1, <2>5
  <2> QED BY <1>3, <2>5, <2>6 DEF one, two, old
<1> QED BY <1>2, <1>3

\* Router::validate adds the next rule.
LEMMA AddRuleKeeps == RouterInv /\ AddRule => RouterInv'
<1> SUFFICES ASSUME RouterInv, AddRule PROVE RouterInv'
  OBVIOUS
<1> DEFINE rule == rules[added + 1]
           short == WithoutSlash(rule.url)
<1>1. /\ phase = "adding" /\ added < Len(rules) /\ ~Clashes(router, rule)
      /\ router' = internal_add_rule_object(router, rule)
      /\ added' = added + 1 /\ rules' = rules /\ phase' = phase
  BY DEF AddRule
<1>2. /\ rules \in Tables /\ added \in 0..Len(rules) /\ DOMAIN router = Method
      /\ \A m \in Method : Filled(rules, router[m], m, added)
  BY <1>1 DEF RouterInv
<1>3. /\ added \in Nat /\ added + 1 \in DOMAIN rules /\ added + 1 \in 0..Len(rules)
      /\ rule \in ToSet(rules) /\ rule.url \in Seq(TokensOf(rules)) /\ short \in Seq(TokensOf(rules))
  <2>1. added \in Nat /\ added + 1 \in DOMAIN rules /\ added + 1 \in 0..Len(rules)
    BY <1>1, <1>2, RulesProps
  <2> QED BY <1>2, <2>1, RulesProps
<1> HIDE DEF rule, short
<1>4. ASSUME NEW m \in Method PROVE Filled(rules, router'[m], m, added + 1)
  <2>1. Filled(rules, router[m], m, added)
    BY <1>2
  <2> DEFINE trie == router[m].trie
             list == router[m].rules
  <2>2. PICK path : IsTrie(trie, path, TokensOf(rules)) /\ Entries(trie, path) = DeclaredBy(rules, m, added)
    BY <2>1 DEF Filled, Holds
  <2>3. list \in Seq(ToSet(rules)) /\ Len(list) = HowMany(rules, m, added) /\ DOMAIN router[m] = {"rules", "trie"}
    BY <2>1 DEF Filled, Listed
  <2>4. CASE m \notin rules[added + 1].methods
    <3>1. router'[m] = router[m]
      BY <1>1, <2>4 DEF internal_add_rule_object, rule
    <3>2. DeclaredBy(rules, m, added + 1) = DeclaredBy(rules, m, added) /\ HowMany(rules, m, added + 1) = HowMany(rules, m, added)
      BY <1>3, <2>4, OneMore
    <3>3. Listed(rules, list, m, added) /\ Holds(rules, trie, m, added)
      BY <2>1 DEF Filled
    <3> HIDE DEF list, trie
    <3>4. {j \in 1..added + 1 : m \in rules[j].methods} = {j \in 1..added : m \in rules[j].methods}
      <4>1. 1..added + 1 = 1..added \cup {added + 1}
        BY <1>3
      <4> QED BY <2>4, <4>1
    <3>5. Listed(rules, list, m, added + 1)
      BY <3>2, <3>3, <3>4 DEF Listed
    <3>6. Holds(rules, trie, m, added + 1)
      BY <3>2, <3>3 DEF Holds
    <3> QED BY <2>3, <3>1, <3>5, <3>6 DEF Filled, list, trie
  <2>5. CASE m \in rules[added + 1].methods
    <3> DEFINE index == Len(list) + 2
               one == Add(trie, rule.url, index)
               two == IF short = rule.url THEN one ELSE Add(one, short, RULE_SPECIAL_REDIRECT_SLASH)
    <3>1. router'[m] = [rules |-> Append(list, rule), trie |-> two]
      BY <1>1, <2>5 DEF internal_add_rule_object, rule, short
    <3>2. /\ DeclaredBy(rules, m, added + 1) = DeclaredBy(rules, m, added) \cup Declared(rules, m, added + 1)
          /\ HowMany(rules, m, added + 1) = HowMany(rules, m, added) + 1
          /\ IndexOf(rules, m, added + 1) = index /\ index \in Nat \ {0}
      <4>1. /\ HowMany(rules, m, added) \in Nat
            /\ DeclaredBy(rules, m, added + 1) = DeclaredBy(rules, m, added) \cup Declared(rules, m, added + 1)
            /\ HowMany(rules, m, added + 1) = HowMany(rules, m, added) + 1
            /\ IndexOf(rules, m, added + 1) = HowMany(rules, m, added) + 2
        BY <1>3, <2>5, OneMore
      <4> QED BY <2>3, <4>1
    <3>3. RuleAt(trie, rule.url) = 0 /\ (short # rule.url => RuleAt(trie, short) = 0)
      BY <1>1, <2>5 DEF Clashes, rule, short
    <3>4. Declared(rules, m, added + 1) =
            {<<rule.url, index>>} \cup (IF short = rule.url THEN {} ELSE {<<short, RULE_SPECIAL_REDIRECT_SLASH>>})
      BY <3>2 DEF Declared, rule, short
    <3> HIDE DEF index, trie, list
    <3>5. PICK q : /\ IsTrie(two, q, TokensOf(rules))
                   /\ Entries(two, q) = Entries(trie, path) \cup
                        ({<<rule.url, index>>} \cup
                          (IF short = rule.url THEN {} ELSE {<<short, RULE_SPECIAL_REDIRECT_SLASH>>}))
      BY <1>3, <2>2, <3>2, <3>3, RuleAdded
    <3> HIDE DEF two
    <3>6. Entries(two, q) = DeclaredBy(rules, m, added + 1)
      BY <2>2, <3>2, <3>4, <3>5
    <3>7. Append(list, rule) \in Seq(ToSet(rules)) /\ Len(Append(list, rule)) = HowMany(rules, m, added + 1)
      BY <1>3, <2>3, <3>2, AppendProperties
    <3>8. /\ DOMAIN router'[m] = {"rules", "trie"} /\ router'[m].rules = Append(list, rule)
          /\ router'[m].trie = two
      BY <3>1
    <3>9. Listed(rules, Append(list, rule), m, added + 1)
      <4> SUFFICES ASSUME NEW i \in {j \in 1..added + 1 : m \in rules[j].methods}
                   PROVE  /\ IndexOf(rules, m, i) - 1 \in 1..Len(Append(list, rule))
                          /\ Append(list, rule)[IndexOf(rules, m, i) - 1] = rules[i]
        BY <3>7 DEF Listed
      <4>1. /\ Len(list) \in Nat /\ Len(Append(list, rule)) = Len(list) + 1
            /\ Append(list, rule)[Len(list) + 1] = rule
            /\ \A n \in 1..Len(list) : Append(list, rule)[n] = list[n]
        BY <1>3, <2>3, LenProperties, AppendProperties
      <4>2. CASE i = added + 1
        <5>1. IndexOf(rules, m, i) - 1 = Len(list) + 1
          BY <3>2, <4>1, <4>2 DEF index
        <5>2. Len(list) + 1 \in 1..Len(Append(list, rule))
          BY <4>1
        <5> QED BY <4>1, <4>2, <5>1, <5>2 DEF rule
      <4>3. CASE i # added + 1
        <5>1. i \in {j \in 1..added : m \in rules[j].methods}
          BY <1>3, <4>3
        <5>2. IndexOf(rules, m, i) - 1 \in 1..Len(list) /\ list[IndexOf(rules, m, i) - 1] = rules[i]
          BY <2>1, <5>1 DEF Filled, Listed, list
        <5> QED BY <4>1, <5>2
      <4> QED BY <4>2, <4>3
    <3>10. Holds(rules, two, m, added + 1)
      BY <3>5, <3>6 DEF Holds
    <3> QED BY <3>8, <3>9, <3>10 DEF Filled
  <2> QED BY <2>4, <2>5
<1>5. DOMAIN router' = Method
  BY <1>1 DEF internal_add_rule_object
<1>6. ASSUME NEW m \in Method PROVE Filled(rules', router'[m], m, added')
  BY <1>1, <1>4
<1> QED BY <1>1, <1>2, <1>3, <1>5, <1>6 DEF RouterInv

\* From then on the property speaks of the rules alone.
LEMMA RouterStep ==
  ASSUME RouterInv, [Startup]_routeVars
  PROVE  /\ RouterInv'
         /\ phase # "serving" /\ phase' = "serving" => Validate
<1>1. CASE AddRule
  BY <1>1, AddRuleKeeps DEF AddRule
<1>2. CASE RuleClashes
  BY <1>2 DEF RuleClashes, RouterInv
<1>3. CASE Validate
  <2>1. added = Len(rules) /\ rules' = rules /\ phase # "serving" /\ phase' = "serving" /\ router' = Validated(router)
    BY <1>3 DEF Validate
  <2>2. ASSUME NEW m \in Method PROVE Compact(rules, router'[m], m)
    <3>1. Filled(rules, router[m], m, Len(rules))
      BY <2>1 DEF RouterInv
    <3>2. router'[m] = [router[m] EXCEPT !.trie = optimize(router[m].trie)]
      BY <2>1 DEF Validated
    <3>3. router'[m].rules = router[m].rules /\ router'[m].trie = optimize(router[m].trie)
      BY <3>1, <3>2 DEF Filled
    <3> QED BY <3>1, <3>3 DEF Filled, Compact
  <2>3. RouterInv'
    BY <2>1, <2>2 DEF RouterInv
  <2> QED BY <1>3, <2>3
<1>4. CASE UNCHANGED routeVars
  BY <1>4 DEF routeVars, RouterInv
<1> QED BY <1>1, <1>2, <1>3, <1>4 DEF Startup

\* What all rules declare is what is declared for the method.
LEMMA AllDeclared ==
  ASSUME rules \in Tables, NEW m, NEW url
  PROVE  MatchesAmong(DeclaredBy(rules, m, Len(rules)), url) = Candidates(rules, m, url)
<1>1. DOMAIN rules = 1..Len(rules)
  BY RulesProps
<1> QED BY <1>1 DEF MatchesAmong, DeclaredBy, Candidates

\* Once the tries are compressed, every lookup finds the rule it should.
LEMMA ValidateFinds ==
  ASSUME RouterInv, Validate, NEW m \in Method, NEW url \in Urls
  PROVE  LET found == Lookup(router', url)[m]
             all   == Candidates(rules, m, url)
         IN IF all = {} THEN found.rule_index = 0
            ELSE found \in {c \in all : \A d \in all : c.rule_index <= d.rule_index}
<1> DEFINE found == Lookup(router', url)[m]
           all   == Candidates(rules, m, url)
           trie  == router[m].trie
<1>1. phase = "adding" /\ added = Len(rules) /\ router' = Validated(router)
  BY DEF Validate
<1>2. rules \in Tables /\ Filled(rules, router[m], m, Len(rules))
  BY <1>1 DEF RouterInv
<1>3. PICK path : IsTrie(trie, path, TokensOf(rules)) /\ Entries(trie, path) = DeclaredBy(rules, m, Len(rules))
  BY <1>2 DEF Filled, Holds
<1>4. router'[m].trie = optimize(trie)
  <2>1. router'[m] = [router[m] EXCEPT !.trie = optimize(trie)]
    BY <1>1 DEF Validated
  <2>2. "trie" \in DOMAIN router[m]
    BY <1>2 DEF Filled
  <2> QED BY <2>1, <2>2
<1>5. found = find(optimize(trie), url)
  BY <1>4 DEF Lookup
<1>6. url \in Seq(ToSet(url))
  BY UrlsAssumption DEF IsSeq
<1> HIDE DEF trie
<1>7. BestIn(MatchesAmong(Entries(trie, path), url), find(optimize(trie), url))
  BY <1>3, <1>6, FindProps
<1> HIDE DEF found, all
<1>8. BestIn(all, found)
  BY <1>2, <1>3, <1>5, <1>7, AllDeclared DEF all
<1>9. IF all = {} THEN found.rule_index = 0
      ELSE found \in {c \in all : \A d \in all : c.rule_index <= d.rule_index}
  <2>1. CASE all = {}
    BY <1>8, <2>1 DEF BestIn
  <2>2. CASE all # {}
    <3>1. found.rule_index # 0
      BY <1>8, <2>2 DEF BestIn
    <3> QED BY <1>8, <2>2, <3>1 DEF BestIn
  <2> QED BY <2>1, <2>2
<1> QED BY <1>9 DEF found, all

-----------------------------------------------------------------------------
(* The requests leave the router alone. *)

\* What a handler answers, and that it leaves the traces alone.
Answers(a)     == \E code, shown : Answer(a, code, shown)
KeepsTraces(a) == Answers(a) /\ UNCHANGED traces

\* An answer leaves the router as it is.
LEMMA AnswerKeeps ==
  ASSUME NEW a, NEW code, NEW shown
  PROVE  /\ Answers(a) => UNCHANGED routeVars
         /\ Answer(a, code, shown) => Answers(a)
         /\ Reads(a, code, shown) => KeepsTraces(a)
         /\ Refuses(a, code) => KeepsTraces(a)
<1>1. Answers(a) => UNCHANGED routeVars
  BY DEF Answers, Answer
<1>2. Answer(a, code, shown) => Answers(a)
  BY DEF Answers
<1>3. \A s : Reads(a, code, s) => KeepsTraces(a)
  BY DEF Answers, KeepsTraces, Reads, databases, traceVars
<1> QED BY <1>1, <1>2, <1>3 DEF Refuses

\* So do the changes of an account.
LEMMA AccountsKeep ==
  ASSUME NEW a, NEW id
  PROVE  /\ Register(a) => KeepsTraces(a)
         /\ Login(a) => KeepsTraces(a)
         /\ AdminUsers(a) => KeepsTraces(a)
         /\ SetRole(a, id) => KeepsTraces(a)
         /\ Deactivate(a, id) => KeepsTraces(a)
<1>1. Register(a) => KeepsTraces(a)
  BY AnswerKeeps DEF Register, KeepsTraces, traceVars
<1>2. Login(a) => KeepsTraces(a)
  BY AnswerKeeps DEF Login
<1>3. AdminUsers(a) => KeepsTraces(a)
  BY AnswerKeeps DEF AdminUsers
<1>4. SetRole(a, id) => KeepsTraces(a)
  <2> DEFINE admin == FieldOf(a.request.body, "a")
             role == FieldOf(a.request.body, "r")
  <2>1. CASE \E code : Refuses(a, code)
    BY <2>1, AnswerKeeps
  <2>2. CASE \A code : ~Refuses(a, code)
    <3>1. SetRole(a, id) => ChangeUser(a, id, LAMBDA u : [u EXCEPT !.role = stoi(FieldOf(a.request.body, "r"))])
      BY <2>2, Zenon DEF SetRole
    <3>2. SetRole(a, id) => Answer(a, 200, <<>>) /\ UNCHANGED <<next_user_id, projectVars, traceVars>>
      BY <2>2, <3>1, Zenon DEF ChangeUser
    <3> QED BY <3>2, AnswerKeeps DEF KeepsTraces, traceVars
  <2> QED BY <2>1, <2>2
<1>5. Deactivate(a, id) => KeepsTraces(a)
  <2> DEFINE admin == AdminId(a)
  <2>1. CASE admin = <<>>
    BY <2>1, AnswerKeeps DEF Deactivate
  <2>2. CASE admin # <<>> /\ Checked(a, admin) # 200
    BY <2>2, AnswerKeeps DEF Deactivate
  <2>3. CASE admin # <<>> /\ Checked(a, admin) = 200
    BY <2>3, AnswerKeeps DEF Deactivate, ChangeUser, KeepsTraces, traceVars
  <2> QED BY <2>1, <2>2, <2>3
<1> QED BY <1>1, <1>2, <1>3, <1>4, <1>5

\* And those of a project.
LEMMA ProjectsKeep ==
  ASSUME NEW a, NEW id
  PROVE  /\ CreateProject(a) => KeepsTraces(a)
         /\ ListProjects(a, id) => KeepsTraces(a)
         /\ Settings(a, id) => KeepsTraces(a)
         /\ DeleteProject(a, id) => KeepsTraces(a)
<1>1. CreateProject(a) => KeepsTraces(a)
  <2>1. CreateProject(a) => (\E code : Refuses(a, code)) \/ ((\E shown : Answer(a, 200, shown)) /\ UNCHANGED <<accountVars, traceVars>>)
    BY Zenon DEF CreateProject
  <2> QED BY <2>1, AnswerKeeps DEF KeepsTraces, traceVars
<1>2. ListProjects(a, id) => KeepsTraces(a)
  BY AnswerKeeps DEF ListProjects
<1>3. Settings(a, id) => KeepsTraces(a)
  BY AnswerKeeps DEF Settings, KeepsTraces, traceVars
<1>4. DeleteProject(a, id) => KeepsTraces(a)
  BY AnswerKeeps DEF DeleteProject, KeepsTraces, traceVars
<1> QED BY <1>1, <1>2, <1>3, <1>4

\* And what logs and shows traces.
LEMMA TracesKeep ==
  ASSUME NEW a, NEW id
  PROVE  /\ Log(a, id) => Answers(a)
         /\ Query(a) => KeepsTraces(a)
         /\ Logs(a, id) => KeepsTraces(a)
         /\ Stats(a, id) => KeepsTraces(a)
<1>1. Log(a, id) => Answers(a)
  BY AnswerKeeps DEF Log, LogEvent, KeepsTraces
<1>2. Query(a) => KeepsTraces(a)
  BY AnswerKeeps DEF Query, Crashes
<1>3. Logs(a, id) => KeepsTraces(a)
  BY AnswerKeeps DEF Logs
<1>4. Stats(a, id) => KeepsTraces(a)
  <2>1. Stats(a, id) => \E shown : Reads(a, 200, shown)
    BY Zenon DEF Stats
  <2> QED BY <2>1, AnswerKeeps
<1> QED BY <1>1, <1>2, <1>3, <1>4

\* Every handler answers, and only one of them touches the traces.
LEMMA HandlersKeep ==
  ASSUME NEW a, NEW found, Handle(a, found)
  PROVE  Answers(a) /\ (UNCHANGED traces \/ (found.handler = "log" /\ Log(a, 0)))
<1>1. ASSUME NEW path
      PROVE  /\ Page(a) => KeepsTraces(a)
             /\ Static(a, path) => KeepsTraces(a)
             /\ Constant(a) => KeepsTraces(a)
  BY AnswerKeeps DEF Page, Static, Constant
<1>2. KeepsTraces(a) \/ (found.handler = "log" /\ Log(a, 0))
  BY <1>1, AnswerKeeps, AccountsKeep, ProjectsKeep, TracesKeep DEF Handle
<1>3. Log(a, 0) => Answers(a)
  BY TracesKeep
<1> QED BY <1>2, <1>3 DEF KeepsTraces

\* The router changes only at the start.
LEMMA OnlyAtTheStart == [Next]_vars => [Startup]_routeVars
<1>2. ASSUME NEW a, Serve(a) PROVE UNCHANGED routeVars
  BY <1>2, HandlersKeep, AnswerKeeps DEF Serve
<1>3. ASSUME NEW i, Deliver(i) PROVE UNCHANGED routeVars
  BY <1>3, AnswerKeeps, TracesKeep DEF Deliver
<1>4. CASE Start
  BY <1>4 DEF Start
<1>5. CASE Answered \/ Done \/ UNCHANGED vars
  BY <1>5 DEF Answered, Done, vars
<1>6. CASE Lose \/ \E c : SdkLog(c)
  BY <1>6 DEF Lose, SdkLog
<1>7. CASE \E k, v : SdkInit(k, v)
  BY <1>7 DEF SdkInit
<1> QED BY <1>2, <1>3, <1>4, <1>5, <1>6, <1>7 DEF Next

\* Until the router serves, its tries have the rules added so far (Router::validate, Trie::add).
THEOREM RouterInvariant == Spec => []RouterInv
<1>1. Init => RouterInv
  BY RouterInit DEF Init
<1>2. RouterInv /\ [Next]_vars => RouterInv'
  BY OnlyAtTheStart, RouterStep
<1> QED BY <1>1, <1>2, PTL DEF Spec

\* However the rules share prefixes and however the tries are compressed, every lookup finds the
\* first rule that matches, with its parameters, or a redirect before it, and nothing where none
\* matches: for every table of rules and every URL (Trie::add, optimize and find).
THEOREM LookupFindsTheRule == Spec => FindsTheRule
<1> DEFINE Finds_ == phase # "serving" /\ phase' = "serving" =>
             \A m \in Method, url \in Urls :
               LET found == Lookup(router', url)[m]
                   all   == Candidates(rules, m, url)
               IN IF all = {} THEN found.rule_index = 0
                  ELSE found \in {c \in all : \A d \in all : c.rule_index <= d.rule_index}
<1>1. RouterInv /\ [Next]_vars => [Finds_]_routeVars
  BY OnlyAtTheStart, RouterStep, ValidateFinds
<1>2. FindsTheRule <=> [][Finds_]_routeVars
  BY DEF FindsTheRule
<1> HIDE DEF Finds_
<1> QED BY <1>1, <1>2, RouterInvariant, PTL DEF Spec

-----------------------------------------------------------------------------
(* The rule of a request. *)

\* A character of a rule takes the same character of the URL.
LEMMA LiteralStep ==
  ASSUME NEW C, NEW pattern \in Seq(C), NEW U, NEW url \in Seq(U),
         NEW i \in 1..Len(pattern), pattern[i] \notin Param, NEW pos \in 1..Len(url) + 1,
         NEW p \in Matching(pattern, url)[i][pos]
  PROVE  /\ pos \in 1..Len(url) /\ url[pos] = pattern[i] /\ pos + 1 \in 1..Len(url) + 1
         /\ p \in Matching(pattern, url)[i + 1][pos + 1]
<1> DEFINE m == Matching(pattern, url)
           child == NodeOf(pattern[i])
           rest == From(url, pos)
           taken == Takes(child, rest)
<1>0. Len(pattern) \in Nat /\ Len(url) \in Nat /\ i + 1 \in 1..Len(pattern) + 1 /\ i \in 1..Len(pattern) + 1
  BY LenProperties
<1>1. m[i][Len(url) + 1] = {} /\ \A k \in 1..Len(url) : m[i][k] = ParamsVia(child, m[i + 1], url, k)
  BY MatchingAt
<1>2. m[i + 1] \in ParamSets(U, url)
  BY <1>0, MatchingType
<1> HIDE DEF m
<1>3. pos \in 1..Len(url) /\ pos + 1 \in 1..Len(url) + 1
  BY <1>0, <1>1 DEF m
<1>4. child.key = <<pattern[i]>> /\ child.param = "none"
  BY DEF NodeOf, NewNode
<1>5. /\ rest \in Seq(U) /\ Len(rest) = Len(url) - pos + 1
      /\ \A k \in 1..Len(url) - pos + 1 : rest[k] = url[pos + k - 1]
  BY <1>3, FromProps
<1> HIDE DEF child, rest
<1>6. taken = IF IsPrefix(<<pattern[i]>>, rest) THEN 1 ELSE 0
  <2>1. taken = IF IsPrefix(child.key, rest) THEN Len(child.key) ELSE 0
    BY <1>4 DEF Takes
  <2> QED BY <1>4, <2>1
<1>7. IsPrefix(<<pattern[i]>>, rest) => pattern[i] = url[pos]
  <2> SUFFICES ASSUME IsPrefix(<<pattern[i]>>, rest) PROVE pattern[i] = url[pos]
    OBVIOUS
  <2>1. <<pattern[i]>>[1] = rest[1]
    BY <1>0, <1>3, <1>5 DEF IsPrefix
  <2>2. 1 \in 1..Len(url) - pos + 1 /\ pos + 1 - 1 = pos
    BY <1>0, <1>3
  <2> QED BY <1>5, <2>1, <2>2
<1>8. taken = 1 /\ \E q \in m[i + 1][pos + 1] : p = ParamOf(child, SubSeq(rest, 1, 1)) \o q
  <2>1. p \in ParamsVia(child, m[i + 1], url, pos)
    BY <1>1, <1>3 DEF m
  <2>2. ParamsVia(child, m[i + 1], url, pos) =
          IF taken = 0 THEN {} ELSE {ParamOf(child, SubSeq(rest, 1, taken)) \o q : q \in m[i + 1][pos + taken]}
    BY DEF ParamsVia, rest
  <2> HIDE DEF taken
  <2>3. taken = 1
    BY <1>6, <2>1, <2>2
  <2> QED BY <2>1, <2>2, <2>3
<1>9. p \in m[i + 1][pos + 1]
  <2>1. PICK q \in m[i + 1][pos + 1] : p = ParamOf(child, SubSeq(rest, 1, 1)) \o q
    BY <1>8
  <2>2. ParamOf(child, SubSeq(rest, 1, 1)) = <<>>
    BY <1>4 DEF ParamOf
  <2>3. q \in Seq(Pairs(U))
    BY <1>2, <1>3 DEF ParamSets
  <2>4. <<>> \o q = q
    BY <2>3, ConcatEmptySeq
  <2> QED BY <2>1, <2>2, <2>4
<1> QED BY <1>3, <1>6, <1>7, <1>8, <1>9 DEF m

\* The parameters, one before the others.
Named(param, text, others) == <<[param |-> param, value |-> text]>> \o others

\* A parameter of a rule takes what it can, and that is its value.
LEMMA ParamStep ==
  ASSUME NEW C, NEW pattern \in Seq(C), NEW U, NEW url \in Seq(U),
         NEW i \in 1..Len(pattern), pattern[i] \in Param, NEW pos \in 1..Len(url) + 1,
         NEW p \in Matching(pattern, url)[i][pos]
  PROVE  \E text \in Seq(U), q \in Seq(Pairs(U)) : p = Named(pattern[i], text, q)
<1> DEFINE m == Matching(pattern, url)
           child == NodeOf(pattern[i])
           rest == From(url, pos)
           taken == Takes(child, rest)
           text == SubSeq(rest, 1, taken)
<1>0. Len(pattern) \in Nat /\ Len(url) \in Nat /\ i + 1 \in 1..Len(pattern) + 1 /\ pattern[i] \in C
  BY LenProperties, ElementOfSeq
<1>1. m[i][Len(url) + 1] = {} /\ \A k \in 1..Len(url) : m[i][k] = ParamsVia(child, m[i + 1], url, k)
  BY MatchingAt
<1>2. m[i + 1] \in ParamSets(U, url)
  BY <1>0, MatchingType
<1> HIDE DEF m
<1>3. pos \in 1..Len(url)
  BY <1>0, <1>1 DEF m
<1>4. child.key = <<>> /\ child.param = pattern[i]
  BY DEF NodeOf, NewNode
<1>5. child.param \in Param \cup {"none"} /\ child.key \in Seq(C)
  BY <1>4
<1> HIDE DEF child
<1>6. pos + taken \in 1..Len(url) + 1 /\ text \in Seq(U)
  BY <1>3, <1>5, TakenProps
<1>7. \A q : ParamOf(child, text) \o q = Named(pattern[i], text, q)
  <2>1. child.param # "none"
    BY <1>4 DEF Param
  <2> QED BY <1>4, <2>1 DEF ParamOf, Named
<1>8. taken # 0 /\ \E q \in m[i + 1][pos + taken] : p = ParamOf(child, text) \o q
  <2>1. p \in ParamsVia(child, m[i + 1], url, pos)
    BY <1>1, <1>3 DEF m
  <2>2. ParamsVia(child, m[i + 1], url, pos) =
          IF taken = 0 THEN {} ELSE {ParamOf(child, text) \o q : q \in m[i + 1][pos + taken]}
    BY DEF ParamsVia
  <2> HIDE DEF taken, text
  <2> QED BY <2>1, <2>2
<1>9. \A q \in m[i + 1][pos + taken] : q \in Seq(Pairs(U))
  BY <1>2, <1>6 DEF ParamSets
<1> HIDE DEF rest, taken, text
<1> QED BY <1>3, <1>6, <1>7, <1>8, <1>9

\* The rule that a lookup found, for all rules that the lists have.
RuleFor(table, list, m, found, url) ==
  found.rule_index \in {0, RULE_SPECIAL_REDIRECT_SLASH}
    \/ \E i \in DOMAIN table :
         /\ m \in table[i].methods
         /\ found.rule_index - 1 \in DOMAIN list /\ list[found.rule_index - 1] = table[i]
         /\ found.params \in MatchesOf(table[i].url, url)

\* While the router serves, a lookup finds a rule that matches the URL.
LEMMA LookupProps ==
  ASSUME RouterInv, phase = "serving", NEW m \in Method, NEW U, NEW url \in Seq(U)
  PROVE  RuleFor(rules, router[m].rules, m, Lookup(router, url)[m], url)
<1> DEFINE found == Lookup(router, url)[m]
           list == router[m].rules
<1>1. rules \in Tables /\ Listed(rules, list, m, Len(rules))
  BY DEF RouterInv, Compact
<1>2. PICK trie : Holds(rules, trie, m, Len(rules)) /\ router[m].trie = optimize(trie)
  BY DEF RouterInv, Compact
<1>3. PICK path : IsTrie(trie, path, TokensOf(rules)) /\ Entries(trie, path) = DeclaredBy(rules, m, Len(rules))
  BY <1>2 DEF Holds
<1>4. found = find(optimize(trie), url)
  BY <1>2 DEF Lookup
<1>5. BestIn(MatchesAmong(DeclaredBy(rules, m, Len(rules)), url), found)
  BY <1>3, <1>4, FindProps
<1> HIDE DEF found, list
<1>6. SUFFICES ASSUME found.rule_index \notin {0, RULE_SPECIAL_REDIRECT_SLASH}
               PROVE  \E i \in DOMAIN rules :
                        /\ m \in rules[i].methods
                        /\ found.rule_index - 1 \in DOMAIN list /\ list[found.rule_index - 1] = rules[i]
                        /\ found.params \in MatchesOf(rules[i].url, url)
  BY DEF RuleFor, found, list
<1>7. PICK d \in DeclaredBy(rules, m, Len(rules)) : \E p \in MatchesOf(d[1], url) :
        found = [rule_index |-> d[2], params |-> p]
  <2>1. found \in MatchesAmong(DeclaredBy(rules, m, Len(rules)), url)
    BY <1>5, <1>6 DEF BestIn
  <2>2. PICK d \in DeclaredBy(rules, m, Len(rules)) :
          found \in {[rule_index |-> d[2], params |-> p] : p \in MatchesOf(d[1], url)}
    BY <2>1 DEF MatchesAmong
  <2> QED BY <2>2
<1>8. PICK i \in {j \in 1..Len(rules) : m \in rules[j].methods} : d \in Declared(rules, m, i)
  BY DEF DeclaredBy
<1>9. d = <<rules[i].url, IndexOf(rules, m, i)>>
  <2>1. d[2] # RULE_SPECIAL_REDIRECT_SLASH
    BY <1>6, <1>7
  <2> QED BY <1>8, <2>1 DEF Declared
<1>10. found.rule_index = IndexOf(rules, m, i) /\ found.params \in MatchesOf(rules[i].url, url)
  BY <1>7, <1>9
<1>11. IndexOf(rules, m, i) - 1 \in DOMAIN list /\ list[IndexOf(rules, m, i) - 1] = rules[i]
  BY <1>1, <1>8, LenProperties DEF Listed
<1>12. i \in DOMAIN rules /\ m \in rules[i].methods
  BY <1>1, <1>8, RulesProps
<1> QED BY <1>10, <1>11, <1>12

\* The URL of a request as the router gets it.
PathOf(r) == SubSeq(r.url, 1, strcspn(r.url, {"?"}))

\* The handler of a rule that matches, with the parameters of the match.
Matched(found, url) ==
  \E i \in DOMAIN rules : /\ found.handler = rules[i].kind
                          /\ found.params \in MatchesOf(rules[i].url, url)

\* What a request is routed to is the handler of a rule that matches its URL, or none.
LEMMA RoutedProps ==
  ASSUME RouterInv, phase = "serving", NEW r, r.method \in Method, NEW U, PathOf(r) \in Seq(U)
  PROVE  Routed(r).handler = None \/ Matched(Routed(r), PathOf(r))
<1> DEFINE url == PathOf(r)
           looked == Lookup(router, url)
           first == Initially(router, r.method, looked, url, NewResponse)
<1>1. Routed(r) = HandlerOf(first)
  BY DEF Routed, handle_initial, PathOf
<1>2. \A m \in Method : RuleFor(rules, router[m].rules, m, looked[m], url)
  BY LookupProps
<1> HIDE DEF url, looked
<1>3. \/ first.found.rule_index = 0
      \/ \E m \in Method : /\ first.found.method = m /\ first.found.params = looked[m].params
                           /\ first.found.rule_index = looked[m].rule_index
  <2>1. CASE r.method = "HEAD"
    <3>0. {"HEAD", "GET"} \subseteq Method
      BY DEF Method
    <3>1. first = InitialHead(looked["HEAD"], looked["GET"], NewResponse)
      BY <2>1 DEF Initially
    <3> HIDE DEF first
    <3> QED BY <3>0, <3>1 DEF InitialHead, Initial, Found, NotFound, NoRule
  <2>2. CASE r.method = "OPTIONS"
    <3>1. \E methods : first = InitialOptions(methods, NewResponse)
      BY <2>2 DEF Initially
    <3> HIDE DEF first
    <3> QED BY <3>1 DEF InitialOptions, Initial, Found, NotFound, NoRule
  <2>3. CASE r.method \notin {"HEAD", "OPTIONS"}
    <3>1. \E methods : first = InitialOther(looked[r.method], r.method, methods, NewResponse)
      BY <2>3 DEF Initially
    <3> HIDE DEF first
    <3>2. PICK methods : first = InitialOther(looked[r.method], r.method, methods, NewResponse)
      BY <3>1
    <3>3. CASE looked[r.method].rule_index # 0
      BY <3>2, <3>3 DEF InitialOther, Initial, Found
    <3>4. CASE looked[r.method].rule_index = 0
      <4>1. first.found = [NotFound EXCEPT !.catch_all = TRUE]
        BY <3>2, <3>4 DEF InitialOther, Initial
      <4> QED BY <4>1 DEF NotFound, Found, NoRule
    <3> QED BY <3>3, <3>4
  <2> QED BY <2>1, <2>2, <2>3
<1> HIDE DEF first
<1>4. CASE first.found.rule_index \in {0, RULE_SPECIAL_REDIRECT_SLASH}
  BY <1>1, <1>4 DEF HandlerOf
<1>5. CASE first.found.rule_index \notin {0, RULE_SPECIAL_REDIRECT_SLASH}
  <2>1. PICK m \in Method : /\ first.found.method = m /\ first.found.params = looked[m].params
                            /\ first.found.rule_index = looked[m].rule_index
    BY <1>3, <1>5
  <2>2. PICK i \in DOMAIN rules :
          /\ router[m].rules[looked[m].rule_index - 1] = rules[i]
          /\ looked[m].params \in MatchesOf(rules[i].url, url)
    BY <1>2, <1>5, <2>1 DEF RuleFor
  <2>3. Routed(r) = [handler |-> router[m].rules[looked[m].rule_index - 1].kind,
                     params |-> looked[m].params, code |-> 200]
    BY <1>1, <1>5, <2>1 DEF HandlerOf
  <2> QED BY <2>2, <2>3 DEF Matched, url
<1> QED BY <1>4, <1>5

-----------------------------------------------------------------------------
(* The names of files. *)

\* What a character is replaced by.
Blank == "_"

\* One step through a name; next: what is made of it further on.
SanitizeStep(data, next, i, entry) ==
  IF i > Len(data) THEN <<>>
  ELSE IF entry /\ IsSpecial(From(data, i)) THEN <<Blank>> \o next[i + SpecialLength(From(data, i))][FALSE]
  ELSE IF Replaced(data, i) THEN <<Blank>> \o next[i + 1][FALSE]
  ELSE <<data[i]>> \o next[i + 1][data[i] \in Separator]

IsSanitizing(data, f) == f = [i \in 1..(Len(data) + 1) |-> [entry \in BOOLEAN |-> SanitizeStep(data, f, i, entry)]]

SanitizeSteps(data, f) ==
  \A i \in 1..(Len(data) + 1), entry \in BOOLEAN : f[i][entry] = SanitizeStep(data, f, i, entry)

\* What is special at a place has a length, which the name has room for.
LEMMA SpecialProps ==
  ASSUME NEW U, NEW data \in Seq(U), NEW i \in 1..Len(data)
  PROVE  /\ SpecialLength(From(data, i)) \in 0..2
         /\ i + SpecialLength(From(data, i)) \in 1..Len(data) + 1
         /\ From(data, i)[1] = data[i]
         /\ i + 1 \in 1..Len(data) /\ data[i] = "." /\ data[i + 1] = "."
            /\ (i + 2 \in 1..Len(data) => data[i + 2] \in Separator) => IsSpecial(From(data, i))
<1> DEFINE rest == From(data, i)
<1>0. Len(data) \in Nat /\ i \in 1..Len(data) + 1
  BY LenProperties
<1>1. /\ rest \in Seq(U) /\ Len(rest) = Len(data) - i + 1
      /\ \A k \in 1..Len(data) - i + 1 : rest[k] = data[i + k - 1]
  BY <1>0, FromProps
<1> HIDE DEF rest
<1>2. rest[1] = data[i] /\ (i + 1 \in 1..Len(data) => rest[2] = data[i + 1])
      /\ (i + 2 \in 1..Len(data) => rest[3] = data[i + 2])
  <2>1. i + 1 - 1 = i /\ 1 \in 1..Len(data) - i + 1
    BY <1>0
  <2>2. i + 1 \in 1..Len(data) => i + 2 - 1 = i + 1 /\ 2 \in 1..Len(data) - i + 1
    BY <1>0
  <2>3. i + 2 \in 1..Len(data) => i + 3 - 1 = i + 2 /\ 3 \in 1..Len(data) - i + 1
    BY <1>0
  <2> QED BY <1>1, <2>1, <2>2, <2>3
<1>3. Head(rest) = rest[1]
  <2>1. rest # <<>>
    BY <1>0, <1>1, EmptySeq
  <2> QED BY <1>1, <2>1
<1>4. IsPrefix(<<".", ".">>, rest) <=> Len(rest) >= 2 /\ rest[1] = "." /\ rest[2] = "."
  <2>1. <<".", ".">> \in Seq({"."})
    OBVIOUS
  <2>2. IsPrefix(<<".", ".">>, rest) <=> Starts(<<".", ".">>, rest)
    BY <1>1, <2>1, PrefixDef
  <2>3. Starts(<<".", ".">>, rest) <=> 2 <= Len(rest) /\ \A k \in 1..2 : <<".", ".">>[k] = rest[k]
    BY DEF Starts
  <2>4. 1..2 = {1, 2}
    OBVIOUS
  <2> QED BY <1>0, <1>1, <2>2, <2>3, <2>4
<1>5. SpecialLength(rest) \in 0..2 /\ SpecialLength(rest) <= Len(rest)
  BY <1>0, <1>1, <1>4 DEF SpecialLength
<1>6. ASSUME i + 1 \in 1..Len(data), data[i] = ".", data[i + 1] = ".",
             i + 2 \in 1..Len(data) => data[i + 2] \in Separator
      PROVE  IsSpecial(rest)
  <2>1. Len(rest) >= 2 /\ rest[1] = "." /\ rest[2] = "." /\ (Len(rest) > 2 => i + 2 \in 1..Len(data))
    BY <1>0, <1>1, <1>2, <1>6
  <2>2. SpecialLength(rest) = 2
    BY <1>3, <1>4, <2>1 DEF SpecialLength, Device
  <2>3. Len(rest) > 2 => rest[3] \in {".", ":"} \cup Separator
    BY <1>2, <1>6, <2>1
  <2> QED BY <2>2, <2>3 DEF IsSpecial
<1>7. i + SpecialLength(rest) \in 1..Len(data) + 1
  BY <1>0, <1>1, <1>5
<1> QED BY <1>2, <1>5, <1>6, <1>7 DEF rest

\* Sanitizing goes by these steps, and leaves a text.
LEMMA SanitizeDef ==
  ASSUME NEW U, Blank \in U, NEW data \in Seq(U)
  PROVE  /\ SanitizeSteps(data, SanitizedFrom(data))
         /\ \A i \in 1..Len(data) + 1, entry \in BOOLEAN : SanitizedFrom(data)[i][entry] \in Seq(U)
<1> DEFINE D == 1..(Len(data) + 1)
           V == [BOOLEAN -> Seq(U)]
           rank == [i \in D |-> Len(data) + 1 - i]
           F == [f \in [D -> V] |-> [i \in D |-> [entry \in BOOLEAN |-> SanitizeStep(data, f, i, entry)]]]
           made == CHOOSE f : IsSanitizing(data, f)
<1>0. Len(data) \in Nat /\ \A i \in 1..Len(data) : data[i] \in U
  BY LenProperties, ElementOfSeq
<1>1. rank \in [D -> Nat] /\ V # {}
  <2>1. rank \in [D -> Nat]
    BY <1>0
  <2>2. [entry \in BOOLEAN |-> <<>>] \in V
    OBVIOUS
  <2> QED BY <2>1, <2>2
<1>2. ASSUME NEW i \in 1..Len(data)
      PROVE  i + 1 \in D /\ i + SpecialLength(From(data, i)) \in D
  BY <1>0, SpecialProps
<1>3. ASSUME NEW f \in [D -> V], NEW i \in D, NEW entry \in BOOLEAN PROVE SanitizeStep(data, f, i, entry) \in Seq(U)
  <2>1. CASE i > Len(data)
    BY <2>1 DEF SanitizeStep
  <2>2. CASE i <= Len(data)
    <3>1. i \in 1..Len(data) /\ ~(i > Len(data))
      BY <1>0, <2>2
    <3>2. \A k \in D, e \in BOOLEAN : f[k][e] \in Seq(U)
      OBVIOUS
    <3>3. \A c \in U, s \in Seq(U) : <<c>> \o s \in Seq(U)
      <4> TAKE c \in U, s \in Seq(U)
      <4>1. <<c>> \in Seq(U)
        OBVIOUS
      <4> QED BY <4>1, ConcatProperties
    <3>4. (data[i] \in Separator) \in BOOLEAN /\ FALSE \in BOOLEAN
      OBVIOUS
    <3> HIDE DEF D
    <3> QED BY <1>0, <1>2, <3>1, <3>2, <3>3, <3>4 DEF SanitizeStep
  <2> QED BY <1>0, <2>1, <2>2
<1>4. F \in [[D -> V] -> [D -> V]]
  <2> HIDE DEF D
  <2> QED BY <1>3
<1>5. ASSUME NEW f \in [D -> V], NEW g \in [D -> V], NEW i \in D,
             \A j \in D : rank[j] < rank[i] => f[j] = g[j]
      PROVE  F[f][i] = F[g][i]
  <2>1. i \in 1..Len(data) =>
          f[i + 1] = g[i + 1] /\ (IsSpecial(From(data, i)) => f[i + SpecialLength(From(data, i))] = g[i + SpecialLength(From(data, i))])
    <3> SUFFICES ASSUME i \in 1..Len(data)
                 PROVE  f[i + 1] = g[i + 1] /\ (IsSpecial(From(data, i)) => f[i + SpecialLength(From(data, i))] = g[i + SpecialLength(From(data, i))])
      OBVIOUS
    <3>1. i + 1 \in D /\ rank[i + 1] < rank[i]
      BY <1>0
    <3> DEFINE n == SpecialLength(From(data, i))
    <3>2. n \in 0..2 /\ i + n \in D
      BY SpecialProps
    <3>3. IsSpecial(From(data, i)) => n > 0
      BY DEF IsSpecial
    <3> HIDE DEF n
    <3>4. n > 0 => rank[i + n] < rank[i]
      BY <1>0, <3>2
    <3>5. f[i + 1] = g[i + 1]
      BY <1>5, <3>1
    <3>6. IsSpecial(From(data, i)) => f[i + n] = g[i + n]
      BY <1>5, <3>2, <3>3, <3>4
    <3> QED BY <3>5, <3>6 DEF n
  <2>2. \A entry \in BOOLEAN : SanitizeStep(data, f, i, entry) = SanitizeStep(data, g, i, entry)
    <3> TAKE entry \in BOOLEAN
    <3>1. CASE i > Len(data)
      BY <3>1 DEF SanitizeStep
    <3>2. CASE i <= Len(data)
      <4>1. i \in 1..Len(data)
        BY <1>0, <3>2
      <4> QED BY <2>1, <4>1 DEF SanitizeStep
    <3> QED BY <1>0, <3>1, <3>2
  <2> QED BY <2>2
<1>6. Recurses(D, V, rank, F)
  <2> HIDE DEF D, V, rank, F
  <2> QED BY <1>1, <1>4, <1>5 DEF Recurses
<1>7. PICK f \in [D -> V] : f = F[f]
  <2> HIDE DEF D, V, rank, F
  <2> QED BY <1>6, Recursion
<1>8. \E h : IsSanitizing(data, h)
  <2>1. f = [i \in D |-> [entry \in BOOLEAN |-> SanitizeStep(data, f, i, entry)]]
    BY <1>7
  <2> QED BY <2>1 DEF IsSanitizing
<1>9. IsSanitizing(data, made)
  BY <1>8, Zenon
<1>10. SanitizedFrom(data) = made
  BY Zenon DEF SanitizedFrom, IsSanitizing, SanitizeStep, Blank
<1>11. SanitizeSteps(data, made)
  <2> HIDE DEF made
  <2>1. \A i \in 1..Len(data) + 1 : made[i] = [entry \in BOOLEAN |-> SanitizeStep(data, made, i, entry)]
    BY <1>9 DEF IsSanitizing
  <2>2. ASSUME NEW i \in 1..Len(data) + 1, NEW entry \in BOOLEAN
        PROVE  made[i][entry] = SanitizeStep(data, made, i, entry)
    BY <2>1
  <2> QED BY <2>2 DEF SanitizeSteps
<1> HIDE DEF made
<1>12. ASSUME NEW i \in D,
              \A j \in D : i < j => \A entry \in BOOLEAN : made[j][entry] \in Seq(U)
       PROVE  \A entry \in BOOLEAN : made[i][entry] \in Seq(U)
  <2> TAKE entry \in BOOLEAN
  <2>0. made[i][entry] = SanitizeStep(data, made, i, entry)
    BY <1>11 DEF SanitizeSteps
  <2>1. CASE i > Len(data)
    BY <2>0, <2>1 DEF SanitizeStep
  <2>2. CASE i <= Len(data)
    <3>1. i \in 1..Len(data) /\ ~(i > Len(data)) /\ i + 1 \in D /\ i < i + 1
      BY <1>0, <2>2
    <3> DEFINE n == SpecialLength(From(data, i))
    <3>2. n \in 0..2 /\ i + n \in D
      BY <3>1, SpecialProps
    <3>3. IsSpecial(From(data, i)) => n > 0
      BY DEF IsSpecial
    <3> HIDE DEF n
    <3>4. n > 0 => i < i + n
      BY <1>0, <3>2
    <3>5. \A c \in U, s \in Seq(U) : <<c>> \o s \in Seq(U)
      <4> TAKE c \in U, s \in Seq(U)
      <4>1. <<c>> \in Seq(U)
        OBVIOUS
      <4> QED BY <4>1, ConcatProperties
    <3>6. (data[i] \in Separator) \in BOOLEAN /\ FALSE \in BOOLEAN
      OBVIOUS
    <3>7. made[i + 1][FALSE] \in Seq(U) /\ made[i + 1][data[i] \in Separator] \in Seq(U)
      BY <1>12, <3>1, <3>6
    <3>8. IsSpecial(From(data, i)) => made[i + n][FALSE] \in Seq(U)
      BY <1>12, <3>2, <3>3, <3>4, <3>6
    <3>9. CASE entry /\ IsSpecial(From(data, i))
      <4>1. made[i][entry] = <<Blank>> \o made[i + n][FALSE]
        BY <2>0, <3>1, <3>9 DEF SanitizeStep, n
      <4> QED BY <3>5, <3>8, <3>9, <4>1
    <3>10. CASE ~(entry /\ IsSpecial(From(data, i))) /\ Replaced(data, i)
      <4>1. made[i][entry] = <<Blank>> \o made[i + 1][FALSE]
        BY <2>0, <3>1, <3>10 DEF SanitizeStep
      <4> QED BY <3>5, <3>7, <4>1
    <3>11. CASE ~(entry /\ IsSpecial(From(data, i))) /\ ~Replaced(data, i)
      <4>1. made[i][entry] = <<data[i]>> \o made[i + 1][data[i] \in Separator]
        BY <2>0, <3>1, <3>11 DEF SanitizeStep
      <4> QED BY <1>0, <3>1, <3>5, <3>7, <4>1
    <3> QED BY <3>9, <3>10, <3>11
  <2> QED BY <1>0, <2>1, <2>2
<1> DEFINE Good == {i \in D : \A entry \in BOOLEAN : made[i][entry] \in Seq(U)}
<1>13. Inherited(D, Good, rank)
  <2>1. ASSUME NEW i \in D, \A j \in D : rank[j] < rank[i] => j \in Good PROVE i \in Good
    <3>1. \A j \in D : i < j => rank[j] < rank[i]
      BY <1>0
    <3>2. \A j \in D : i < j => \A entry \in BOOLEAN : made[j][entry] \in Seq(U)
      BY <2>1, <3>1
    <3> QED BY <1>12, <3>2
  <2> QED BY <1>1, <2>1 DEF Inherited
<1>14. D \subseteq Good
  <2> HIDE DEF D, Good, rank
  <2> QED BY <1>13, RankInd
<1> QED BY <1>10, <1>11, <1>14

\* What stands for a character of a name is no dot and no separator.
LEMMA BlankProps == Blank # "." /\ Blank \notin Separator
<1>1. Blank # "."
  BY Zenon DEF Blank
<1>2. Blank # "/" /\ Blank # "BACKSLASH"
  BY Zenon DEF Blank
<1> QED BY <1>1, <1>2 DEF Separator

\* At j two dots end the name or one of its parts.
DotsAt(s, j) ==
  /\ j \in 1..Len(s) /\ j + 1 \in 1..Len(s) /\ s[j] = "." /\ s[j + 1] = "."
  /\ j + 2 \in 1..Len(s) => s[j + 2] \in Separator

\* No part of the name is ".."; entry: one begins where the name does.
NoParent(s, entry) == \A j \in Nat : DotsAt(s, j) => IF j = 1 THEN ~entry ELSE s[j - 1] \notin Separator

\* A character before a name.
LEMMA OneBefore ==
  ASSUME NEW U, NEW c \in U, NEW t \in Seq(U)
  PROVE  LET s == <<c>> \o t
         IN /\ s \in Seq(U) /\ Len(s) = Len(t) + 1 /\ s[1] = c
            /\ \A k \in 1..Len(t) : s[k + 1] = t[k]
<1> DEFINE s == <<c>> \o t
<1>1. <<c>> \in Seq(U) /\ Len(<<c>>) = 1 /\ <<c>>[1] = c
  OBVIOUS
<1>2. Len(t) \in Nat
  BY LenProperties
<1>3. s \in Seq(U) /\ Len(s) = 1 + Len(t)
  BY <1>1, ConcatProperties
<1>4. \A k \in 1..(1 + Len(t)) : s[k] = IF k <= 1 THEN <<c>>[k] ELSE t[k - 1]
  BY <1>1, ConcatProperties
<1>5. s[1] = c
  BY <1>1, <1>2, <1>4
<1>6. ASSUME NEW k \in 1..Len(t) PROVE s[k + 1] = t[k]
  <2>1. k + 1 \in 1..(1 + Len(t)) /\ ~(k + 1 <= 1) /\ (k + 1) - 1 = k
    BY <1>2
  <2> QED BY <1>4, <2>1
<1>7. Len(s) = Len(t) + 1
  BY <1>2, <1>3
<1> QED BY <1>3, <1>5, <1>6, <1>7

\* The parts of a name further on, and the first if it is not "..".
LEMMA NoParentBefore ==
  ASSUME NEW U, NEW c \in U, NEW t \in Seq(U), NEW entry \in BOOLEAN,
         NoParent(t, c \in Separator), entry => ~DotsAt(<<c>> \o t, 1)
  PROVE  NoParent(<<c>> \o t, entry)
<1> DEFINE s == <<c>> \o t
<1>1. /\ s \in Seq(U) /\ Len(s) = Len(t) + 1 /\ s[1] = c
      /\ \A k \in 1..Len(t) : s[k + 1] = t[k]
  BY OneBefore
<1>2. entry => ~DotsAt(s, 1)
  OBVIOUS
<1> HIDE DEF s
<1>3. Len(t) \in Nat
  BY LenProperties
<1>4. ASSUME NEW j \in Nat, DotsAt(s, j), j # 1 PROVE s[j - 1] \notin Separator
  <2>1. j - 1 \in 1..Len(t) /\ (j - 1) + 1 = j /\ j \in 1..Len(t) /\ (j + 1 \in 1..Len(t) => j + 2 \in 1..Len(s))
    BY <1>1, <1>3, <1>4 DEF DotsAt
  <2>2. t[j - 1] = s[j] /\ t[j] = s[j + 1] /\ (j + 1 \in 1..Len(t) => t[j + 1] = s[j + 2])
    <3>1. (j + 1) + 1 = j + 2
      OBVIOUS
    <3> QED BY <1>1, <2>1, <3>1
  <2>3. DotsAt(t, j - 1)
    <3>1. (j - 1) + 2 = j + 1
      OBVIOUS
    <3> QED BY <1>4, <2>1, <2>2, <3>1 DEF DotsAt
  <2>4. CASE j = 2
    <3>1. c \notin Separator
      BY <2>3, <2>4 DEF NoParent
    <3> QED BY <1>1, <2>4, <3>1
  <2>5. CASE j # 2
    <3>1. j - 1 \in Nat /\ j - 1 # 1 /\ (j - 1) - 1 = j - 2 /\ j - 2 \in 1..Len(t) /\ (j - 2) + 1 = j - 1
      BY <1>3, <2>1, <2>5
    <3>2. t[j - 2] \notin Separator
      BY <2>3, <3>1 DEF NoParent
    <3> QED BY <1>1, <3>1, <3>2
  <2> QED BY <2>4, <2>5
<1>5. ASSUME NEW j \in Nat, DotsAt(s, j) PROVE IF j = 1 THEN ~entry ELSE s[j - 1] \notin Separator
  BY <1>2, <1>4, <1>5
<1> QED BY <1>5 DEF NoParent, s

\* What sanitizing makes of a place where no entry begins.
LEMMA SanitizeNext ==
  ASSUME NEW data, NEW f, SanitizeSteps(data, f), NEW i \in 1..Len(data) + 1, Len(data) \in Nat
  PROVE  /\ i > Len(data) => f[i][FALSE] = <<>>
         /\ i <= Len(data) => f[i][FALSE] = IF Replaced(data, i) THEN <<Blank>> \o f[i + 1][FALSE]
                                           ELSE <<data[i]>> \o f[i + 1][data[i] \in Separator]
<1>1. f[i][FALSE] = SanitizeStep(data, f, i, FALSE)
  BY DEF SanitizeSteps
<1>2. i > Len(data) => f[i][FALSE] = <<>>
  BY <1>1 DEF SanitizeStep
<1>3. i <= Len(data) => f[i][FALSE] = IF Replaced(data, i) THEN <<Blank>> \o f[i + 1][FALSE]
                                     ELSE <<data[i]>> \o f[i + 1][data[i] \in Separator]
  <2> SUFFICES ASSUME i <= Len(data) PROVE f[i][FALSE] = IF Replaced(data, i) THEN <<Blank>> \o f[i + 1][FALSE]
                                     ELSE <<data[i]>> \o f[i + 1][data[i] \in Separator]
    OBVIOUS
  <2>1. ~(i > Len(data))
    OBVIOUS
  <2> QED BY <1>1, <2>1 DEF SanitizeStep
<1> QED BY <1>2, <1>3

\* The names that sanitizing makes, from all places of the name that it is given.
IsMade(U, data, f) ==
  SanitizeSteps(data, f) /\ \A i \in 1..Len(data) + 1, entry \in BOOLEAN : f[i][entry] \in Seq(U)

\* No entry ".." is left where one begins that is not special.
LEMMA NoDotsFirst ==
  ASSUME NEW U, Blank \in U, NEW data \in Seq(U), NEW f, IsMade(U, data, f), NEW i \in 1..Len(data),
         ~IsSpecial(From(data, i)), DotsAt(<<data[i]>> \o f[i + 1][data[i] \in Separator], 1)
  PROVE  FALSE
<1>0. Len(data) \in Nat /\ (\A k \in 1..Len(data) : data[k] \in U) /\ SanitizeSteps(data, f)
  BY LenProperties, ElementOfSeq DEF IsMade
<1> DEFINE t == f[i + 1][data[i] \in Separator]
<1>1. i + 1 \in 1..Len(data) + 1 /\ \A e \in BOOLEAN : f[i + 1][e] \in Seq(U)
  BY <1>0 DEF IsMade
<1>2. t \in Seq(U)
  <2>1. (data[i] \in Separator) \in BOOLEAN
    OBVIOUS
  <2> QED BY <1>1, <2>1, Zenon
<1>3. data[i] = "." /\ 1 \in 1..Len(t) /\ t[1] = "." /\ (2 \in 1..Len(t) => t[2] \in Separator)
  <2> HIDE DEF t
  <2>1. DotsAt(<<data[i]>> \o t, 1)
    BY DEF t
  <2>2. LET s == <<data[i]>> \o t
        IN /\ Len(s) = Len(t) + 1 /\ s[1] = data[i]
           /\ \A k \in 1..Len(t) : s[k + 1] = t[k]
    BY <1>0, <1>2, OneBefore
  <2>3. Len(t) \in Nat /\ 1 + 1 = 2 /\ 2 + 1 = 3 /\ 1 + 2 = 3
    BY <1>2, LenProperties
  <2> DEFINE s == <<data[i]>> \o t
  <2>4. /\ Len(s) = Len(t) + 1 /\ s[1] = data[i]
        /\ \A k \in 1..Len(t) : s[k + 1] = t[k]
    BY <2>2
  <2>5. DotsAt(s, 1)
    BY <2>1
  <2> HIDE DEF s
  <2>6. 2 \in 1..Len(s) /\ s[1] = "." /\ s[2] = "." /\ (3 \in 1..Len(s) => s[3] \in Separator)
    BY <2>3, <2>5 DEF DotsAt
  <2>7. 1 \in 1..Len(t) /\ (2 \in 1..Len(t) => 3 \in 1..Len(s))
    BY <2>3, <2>4, <2>6
  <2> QED BY <2>3, <2>4, <2>6, <2>7
<1>4. t = f[i + 1][FALSE]
  <2>1. (data[i] \in Separator) = FALSE
    BY <1>3 DEF Separator
  <2> QED BY <2>1
<1> HIDE DEF t
<1>5. i + 1 \in 1..Len(data)
  <2>1. i + 1 > Len(data) => t = <<>>
    BY <1>0, <1>1, <1>4, SanitizeNext
  <2>2. t # <<>>
    BY <1>3
  <2> QED BY <1>0, <2>1, <2>2
<1>6. t = IF Replaced(data, i + 1) THEN <<Blank>> \o f[i + 2][FALSE]
          ELSE <<data[i + 1]>> \o f[i + 2][data[i + 1] \in Separator]
  <2>1. i + 1 <= Len(data) /\ (i + 1) + 1 = i + 2
    BY <1>0, <1>5
  <2> QED BY <1>0, <1>1, <1>4, <2>1, SanitizeNext
<1>7. i + 2 \in 1..Len(data) + 1 /\ \A e \in BOOLEAN : f[i + 2][e] \in Seq(U)
  <2>1. i + 2 \in 1..Len(data) + 1
    BY <1>0, <1>5
  <2> QED BY <2>1 DEF IsMade
<1>8. t = <<data[i + 1]>> \o f[i + 2][data[i + 1] \in Separator]
  <2> SUFFICES ASSUME Replaced(data, i + 1) PROVE FALSE
    BY <1>6
  <2>1. t = <<Blank>> \o f[i + 2][FALSE] /\ f[i + 2][FALSE] \in Seq(U)
    BY <1>6, <1>7
  <2>2. t[1] = Blank
    BY <2>1, OneBefore
  <2> QED BY <1>3, <2>2, BlankProps
<1>9. data[i + 1] = "." /\ t = <<".">> \o f[i + 2][FALSE]
  <2>0. (data[i + 1] \in Separator) \in BOOLEAN
    OBVIOUS
  <2>1. f[i + 2][data[i + 1] \in Separator] \in Seq(U)
    BY <1>7, <2>0, Zenon
  <2>2. t[1] = data[i + 1]
    BY <1>0, <1>5, <1>8, <2>1, OneBefore
  <2>3. (data[i + 1] \in Separator) = FALSE
    BY <1>3, <2>2 DEF Separator
  <2> QED BY <1>3, <1>8, <2>2, <2>3
<1>10. i + 2 \in 1..Len(data) => data[i + 2] \in Separator
  <2> SUFFICES ASSUME i + 2 \in 1..Len(data) PROVE data[i + 2] \in Separator
    OBVIOUS
  <2> DEFINE u == f[i + 2][FALSE]
  <2>1. u \in Seq(U)
    BY <1>7
  <2>2. i + 2 <= Len(data) /\ (i + 2) + 1 = i + 3 /\ i + 3 \in 1..Len(data) + 1
    BY <1>0
  <2>3. u = IF Replaced(data, i + 2) THEN <<Blank>> \o f[i + 3][FALSE]
            ELSE <<data[i + 2]>> \o f[i + 3][data[i + 2] \in Separator]
    BY <1>0, <1>7, <2>2, SanitizeNext
  <2>4. \A e \in BOOLEAN : f[i + 3][e] \in Seq(U)
    BY <2>2 DEF IsMade
  <2> HIDE DEF u
  <2>5. Len(u) \in Nat /\ Len(u) > 0 /\ u[1] \in {Blank, data[i + 2]}
    <3>1. CASE Replaced(data, i + 2)
      <4>1. u = <<Blank>> \o f[i + 3][FALSE] /\ f[i + 3][FALSE] \in Seq(U)
        BY <2>3, <2>4, <3>1
      <4> DEFINE v == f[i + 3][FALSE]
      <4>2. u = <<Blank>> \o v /\ v \in Seq(U)
        BY <4>1
      <4> HIDE DEF v
      <4>3. u[1] = Blank /\ Len(u) = Len(v) + 1 /\ Len(v) \in Nat
        BY <4>2, OneBefore, LenProperties
      <4> QED BY <4>3
    <3>2. CASE ~Replaced(data, i + 2)
      <4> DEFINE v == f[i + 3][data[i + 2] \in Separator]
      <4>0. (data[i + 2] \in Separator) \in BOOLEAN
        OBVIOUS
      <4>4. v \in Seq(U)
        BY <2>4, <4>0, Zenon
      <4>1. u = <<data[i + 2]>> \o v /\ v \in Seq(U) /\ data[i + 2] \in U
        BY <1>0, <2>3, <3>2, <4>4
      <4> HIDE DEF v
      <4>2. u[1] = data[i + 2] /\ Len(u) = Len(v) + 1 /\ Len(v) \in Nat
        BY <4>1, OneBefore, LenProperties
      <4> QED BY <4>2
    <3> QED BY <3>1, <3>2
  <2>6. t = <<".">> \o u /\ "." \in U
    BY <1>0, <1>5, <1>9 DEF u
  <2>7. Len(t) = Len(u) + 1 /\ \A k \in 1..Len(u) : t[k + 1] = u[k]
    BY <2>1, <2>6, OneBefore
  <2>8. 2 \in 1..Len(t) /\ t[2] = u[1]
    <3>1. 1 \in 1..Len(u) /\ 1 + 1 = 2
      BY <2>5
    <3> QED BY <2>5, <2>7, <3>1
  <2> QED BY <1>3, <2>5, <2>8, BlankProps
<1> QED BY <1>3, <1>5, <1>9, <1>10, SpecialProps

\* No part of a sanitized name is "..".
LEMMA NoParentMade ==
  ASSUME NEW U, Blank \in U, NEW data \in Seq(U), NEW f, IsMade(U, data, f)
  PROVE  \A i \in 1..Len(data) + 1, entry \in BOOLEAN : NoParent(f[i][entry], entry)
<1>0. Len(data) \in Nat /\ (\A k \in 1..Len(data) : data[k] \in U) /\ SanitizeSteps(data, f)
  BY LenProperties, ElementOfSeq DEF IsMade
<1> DEFINE D == 1..(Len(data) + 1)
           rank == [i \in D |-> Len(data) + 1 - i]
           Good == {i \in D : \A entry \in BOOLEAN : NoParent(f[i][entry], entry)}
<1>1. ASSUME NEW i \in D, \A j \in D : i < j => j \in Good PROVE i \in Good
  <2> SUFFICES ASSUME NEW entry \in BOOLEAN PROVE NoParent(f[i][entry], entry)
    OBVIOUS
  <2>1. f[i][entry] = SanitizeStep(data, f, i, entry)
    BY <1>0 DEF SanitizeSteps
  <2>2. CASE i > Len(data)
    <3>1. f[i][entry] = <<>>
      BY <2>1, <2>2 DEF SanitizeStep
    <3> QED BY <3>1 DEF NoParent, DotsAt
  <2>3. CASE i <= Len(data)
    <3>1. i \in 1..Len(data) /\ ~(i > Len(data)) /\ i + 1 \in D /\ i < i + 1
      BY <1>0, <2>3
    <3>2. \A e \in BOOLEAN : f[i + 1][e] \in Seq(U) /\ NoParent(f[i + 1][e], e)
      BY <1>1, <3>1 DEF IsMade
    <3> DEFINE n == SpecialLength(From(data, i))
    <3>3. n \in 0..2 /\ i + n \in D
      BY <3>1, SpecialProps
    <3>4. IsSpecial(From(data, i)) => n > 0
      BY DEF IsSpecial
    <3>5. (Blank \in Separator) = FALSE /\ \A t : ~DotsAt(<<Blank>> \o t, 1) \/ t \notin Seq(U)
      <4>1. ASSUME NEW t \in Seq(U), DotsAt(<<Blank>> \o t, 1) PROVE FALSE
        <5>1. (<<Blank>> \o t)[1] = Blank
          BY OneBefore
        <5> QED BY <4>1, <5>1, BlankProps DEF DotsAt
      <4> QED BY <4>1, BlankProps
    <3>6. CASE entry /\ IsSpecial(From(data, i))
      <4>1. f[i][entry] = <<Blank>> \o f[i + n][FALSE]
        BY <2>1, <3>1, <3>6 DEF SanitizeStep, n
      <4> HIDE DEF n
      <4>2. i < i + n
        BY <1>0, <3>3, <3>4, <3>6
      <4>3. f[i + n][FALSE] \in Seq(U) /\ NoParent(f[i + n][FALSE], FALSE)
        BY <1>1, <3>3, <4>2 DEF IsMade
      <4> QED BY <3>5, <4>1, <4>3, NoParentBefore
    <3>7. CASE ~(entry /\ IsSpecial(From(data, i))) /\ Replaced(data, i)
      <4>1. f[i][entry] = <<Blank>> \o f[i + 1][FALSE]
        BY <2>1, <3>1, <3>7 DEF SanitizeStep
      <4>2. f[i + 1][FALSE] \in Seq(U) /\ NoParent(f[i + 1][FALSE], FALSE)
        BY <3>2
      <4> QED BY <3>5, <4>1, <4>2, NoParentBefore
    <3>8. CASE ~(entry /\ IsSpecial(From(data, i))) /\ ~Replaced(data, i)
      <4> DEFINE t == f[i + 1][data[i] \in Separator]
      <4>1. f[i][entry] = <<data[i]>> \o t
        BY <2>1, <3>1, <3>8 DEF SanitizeStep
      <4>5. (data[i] \in Separator) \in BOOLEAN
        OBVIOUS
      <4>2. t \in Seq(U) /\ NoParent(t, data[i] \in Separator)
        BY <3>2, <4>5, Zenon
      <4>3. entry => ~DotsAt(<<data[i]>> \o t, 1)
        BY <3>1, <3>8, NoDotsFirst
      <4>4. data[i] \in U
        BY <1>0, <3>1
      <4> HIDE DEF t
      <4> QED BY <4>1, <4>2, <4>3, <4>4, NoParentBefore
    <3> QED BY <3>6, <3>7, <3>8
  <2> QED BY <1>0, <2>2, <2>3
<1>2. Inherited(D, Good, rank)
  <2>1. rank \in [D -> Nat]
    BY <1>0
  <2>2. ASSUME NEW i \in D, \A j \in D : rank[j] < rank[i] => j \in Good PROVE i \in Good
    <3>1. \A j \in D : i < j => rank[j] < rank[i]
      BY <1>0
    <3>2. \A j \in D : i < j => j \in Good
      BY <2>2, <3>1
    <3> HIDE DEF D, Good, rank
    <3> QED BY <1>1, <3>2
  <2> QED BY <2>1, <2>2 DEF Inherited
<1>3. D \subseteq Good
  <2> HIDE DEF D, Good, rank
  <2> QED BY <1>2, RankInd
<1> QED BY <1>3

\* Nothing of the name leads out of the directory.
Inside(file) ==
  /\ file = <<>> \/ Head(file) \notin Separator
  /\ \A i \in 1..Len(file) - 1 :
       LET ends(k) == k > Len(file) \/ file[k] \in Separator
       IN file[i] = "." /\ file[i + 1] = "." => ~(ends(i + 2) /\ (i = 1 \/ ends(i - 1)))

\* What sanitize_filename makes of a path leads nowhere else.
LEMMA SanitizedInside == ASSUME NEW U, NEW path \in Seq(U) PROVE Inside(sanitize_filename(path))
<1> DEFINE C == U \cup {Blank}
           data == Shortened(path, MaxFileName)
           f == SanitizedFrom(data)
           file == f[1][TRUE]
<1>0. file = sanitize_filename(path)
  BY DEF sanitize_filename
<1>1. data \in Seq(C)
  <2>1. Len(path) \in Nat /\ \A i \in 1..Len(path) : path[i] \in C
    BY LenProperties, ElementOfSeq
  <2> DEFINE n == IF Len(path) < MaxFileName THEN Len(path) ELSE MaxFileName
  <2>2. n \in Int /\ n <= Len(path)
    BY <2>1, TextAssumption
  <2> HIDE DEF n, C
  <2>3. \A i \in 1..n : path[i] \in C
    BY <2>1, <2>2
  <2>4. SubSeq(path, 1, n) \in Seq(C)
    BY <2>2, <2>3, SubSeqProperties
  <2> QED BY <2>4 DEF Shortened, n
<1>2. Blank \in C
  OBVIOUS
<1> HIDE DEF C, data
<1>3. IsMade(C, data, f)
  BY <1>1, <1>2, SanitizeDef DEF IsMade
<1> HIDE DEF f
<1>4. Len(data) \in Nat /\ 1 \in 1..Len(data) + 1 /\ (\A k \in 1..Len(data) : data[k] \in C)
  BY <1>1, LenProperties, ElementOfSeq
<1>5. NoParent(file, TRUE) /\ file \in Seq(C)
  BY <1>1, <1>2, <1>3, <1>4, NoParentMade DEF IsMade
<1>6. Len(file) \in Nat
  BY <1>5, LenProperties
<1>7. file = <<>> \/ Head(file) \notin Separator
  <2>1. file = SanitizeStep(data, f, 1, TRUE)
    BY <1>3, <1>4 DEF IsMade, SanitizeSteps
  <2>2. ASSUME NEW c \in C, NEW t \in Seq(C), c \notin Separator, file = <<c>> \o t PROVE Head(file) \notin Separator
    <3>1. (<<c>> \o t)[1] = c /\ Len(<<c>> \o t) = Len(t) + 1 /\ <<c>> \o t \in Seq(C) /\ Len(t) \in Nat
      BY OneBefore, LenProperties
    <3>2. file # <<>> /\ file[1] = c
      BY <2>2, <3>1
    <3> QED BY <1>5, <2>2, <3>2
  <2>3. CASE 1 > Len(data)
    BY <2>1, <2>3 DEF SanitizeStep
  <2>4. CASE 1 <= Len(data)
    <3>1. 1 \in 1..Len(data) /\ ~(1 > Len(data)) /\ 1 + 1 \in 1..Len(data) + 1
      BY <1>4, <2>4
    <3>2. \A e \in BOOLEAN : f[1 + 1][e] \in Seq(C)
      BY <1>3, <3>1 DEF IsMade
    <3>3. 1 + SpecialLength(From(data, 1)) \in 1..Len(data) + 1
      BY <1>1, <3>1, SpecialProps
    <3>4. f[1 + SpecialLength(From(data, 1))][FALSE] \in Seq(C)
      BY <1>3, <3>3 DEF IsMade
    <3>5. CASE IsSpecial(From(data, 1))
      <4>1. file = <<Blank>> \o f[1 + SpecialLength(From(data, 1))][FALSE]
        BY <2>1, <3>1, <3>5 DEF SanitizeStep
      <4> QED BY <1>2, <2>2, <3>4, <4>1, BlankProps
    <3>6. CASE ~IsSpecial(From(data, 1)) /\ Replaced(data, 1)
      <4>1. file = <<Blank>> \o f[1 + 1][FALSE]
        BY <2>1, <3>1, <3>6 DEF SanitizeStep
      <4> QED BY <1>2, <2>2, <3>2, <4>1, BlankProps
    <3>7. CASE ~IsSpecial(From(data, 1)) /\ ~Replaced(data, 1)
      <4>1. file = <<data[1]>> \o f[1 + 1][data[1] \in Separator]
        BY <2>1, <3>1, <3>7 DEF SanitizeStep
      <4>2. data[1] \notin Separator
        BY <3>7 DEF Replaced
      <4>3. (data[1] \in Separator) \in BOOLEAN
        OBVIOUS
      <4>4. f[1 + 1][data[1] \in Separator] \in Seq(C)
        BY <3>2, <4>3, Zenon
      <4> QED BY <1>4, <2>2, <3>1, <4>1, <4>2, <4>4
    <3> QED BY <3>5, <3>6, <3>7
  <2>5. (1 > Len(data)) \/ (1 <= Len(data))
    BY <1>4
  <2> QED BY <2>3, <2>4, <2>5, Zenon
<1> HIDE DEF file
<1>8. ASSUME NEW i \in 1..Len(file) - 1, file[i] = ".", file[i + 1] = ".",
             i + 2 > Len(file) \/ file[i + 2] \in Separator,
             i = 1 \/ i - 1 > Len(file) \/ file[i - 1] \in Separator
      PROVE  FALSE
  <2>1. /\ i \in 1..Len(file) /\ i + 1 \in 1..Len(file) /\ i \in Nat /\ ~(i - 1 > Len(file))
        /\ (i + 2 > Len(file) => i + 2 \notin 1..Len(file))
    BY <1>6
  <2>2. DotsAt(file, i)
    BY <1>8, <2>1 DEF DotsAt
  <2> QED BY <1>5, <1>8, <2>1, <2>2 DEF NoParent
<1> QED BY <1>0, <1>7, <1>8 DEF Inside

\* A rule whose handler shows no data or whose URL begins with another name than "static".
Elsewhere(rule) ==
  \/ rule.kind \in {"page", "constant"}
  \/ /\ Len(rule.url) >= 2 /\ rule.url[1] = "/" /\ rule.url[2] \notin Param \cup {"static"}

\* The rule of the static directory.
IsStaticRule(rule) == rule.kind = "static" /\ rule.url = <<"/", "static", "/", "<path>">>

\* What those are made of.
Words == {"/", "api", "auth", "register", "log", "in", "project", "s",
          "create", "<int>", "settings", "admin", "users", "role", "info", "stats"}

\* The URLs of the application begin with "/api/".
LEMMA ApiElsewhere ==
  ASSUME NEW path \in Seq(Words), NEW method, NEW kind
  PROVE  Api(path) \in Seq(Words) /\ Elsewhere(Rule(method, Api(path), kind))
<1> DEFINE s == <<"/", "api", "/">>
<1>1. s \in Seq(Words) /\ Len(s) = 3 /\ s[1] = "/" /\ s[2] = "api"
  BY DEF Words
<1>2. Len(path) \in Nat
  BY LenProperties
<1> HIDE DEF s
<1>3. s \o path \in Seq(Words) /\ Len(s \o path) = 3 + Len(path) /\ (s \o path)[1] = "/" /\ (s \o path)[2] = "api"
  <2>1. /\ s \o path \in Seq(Words) /\ Len(s \o path) = Len(s) + Len(path)
        /\ \A i \in 1..(Len(s) + Len(path)) : (s \o path)[i] = IF i <= Len(s) THEN s[i] ELSE path[i - Len(s)]
    BY <1>1, ConcatProperties
  <2>2. 1 \in 1..(Len(s) + Len(path)) /\ 2 \in 1..(Len(s) + Len(path)) /\ 1 <= Len(s) /\ 2 <= Len(s)
    BY <1>1, <1>2
  <2> QED BY <1>1, <2>1, <2>2
<1>4. Api(path) = s \o path
  BY DEF Api, s
<1>5. "api" \notin Param \cup {"static"}
  BY DEF Param
<1>6. Rule(method, Api(path), kind).url = Api(path)
  BY DEF Rule
<1> QED BY <1>2, <1>3, <1>4, <1>5, <1>6 DEF Elsewhere

\* And those of the administration.
LEMMA AdminElsewhere ==
  ASSUME NEW path \in Seq(Words), NEW method, NEW kind
  PROVE  Elsewhere(Rule(method, Admin(path), kind))
<1>1. <<"admin", "/", "users">> \in Seq(Words)
  BY DEF Words
<1>2. <<"admin", "/", "users">> \o path \in Seq(Words)
  BY <1>1, ConcatProperties
<1> QED BY <1>2, ApiElsewhere DEF Admin

\* Only the rule of the static directory shows data for a URL that begins as it does.
LEMMA OtherRules == \A i \in DOMAIN AppRules : Elsewhere(AppRules[i]) \/ IsStaticRule(AppRules[i])
<1>1. Elsewhere(Rule("GET", <<"/">>, "page"))
  BY DEF Rule, Elsewhere, Param
<1>2. Elsewhere(Rule("GET", <<"/", "log", "in">>, "page"))
  BY DEF Rule, Elsewhere, Param
<1>3. Elsewhere(Rule("GET", <<"/", "dashboard">>, "page"))
  BY DEF Rule, Elsewhere, Param
<1>4. Elsewhere(Rule("GET", <<"/", "workspace">>, "page"))
  BY DEF Rule, Elsewhere, Param
<1>5. Elsewhere(Rule("GET", <<"/", "admin">>, "page"))
  BY DEF Rule, Elsewhere, Param
<1>6. Elsewhere(Rule("GET", <<"/", "analytics">>, "page"))
  BY DEF Rule, Elsewhere, Param
<1>7. Elsewhere(Rule("GET", <<"/", "health">>, "constant"))
  BY DEF Rule, Elsewhere, Param
<1>8. Elsewhere(Rule("POST", <<"/", "log">>, "log"))
  BY DEF Rule, Elsewhere, Param
<1>9. Elsewhere(Rule("POST", Api(<<"auth", "/", "register">>), "register"))
  <2>1. <<"auth", "/", "register">> \in Seq(Words)
    BY DEF Words
  <2> QED BY <2>1, ApiElsewhere
<1>10. Elsewhere(Rule("POST", Api(<<"auth", "/", "log", "in">>), "login"))
  <2>1. <<"auth", "/", "log", "in">> \in Seq(Words)
    BY DEF Words
  <2> QED BY <2>1, ApiElsewhere
<1>11. Elsewhere(Rule("POST", Api(<<"project", "/", "create">>), "create"))
  <2>1. <<"project", "/", "create">> \in Seq(Words)
    BY DEF Words
  <2> QED BY <2>1, ApiElsewhere
<1>12. Elsewhere(Rule("GET", Api(<<"project", "s", "/", "<int>">>), "projects"))
  <2>1. <<"project", "s", "/", "<int>">> \in Seq(Words)
    BY DEF Words
  <2> QED BY <2>1, ApiElsewhere
<1>13. Elsewhere(Rule("PUT", Api(<<"project", "/", "<int>", "/", "settings">>), "settings"))
  <2>1. <<"project", "/", "<int>", "/", "settings">> \in Seq(Words)
    BY DEF Words
  <2> QED BY <2>1, ApiElsewhere
<1>14. Elsewhere(Rule("DELETE", Api(<<"project", "/", "<int>">>), "delete"))
  <2>1. <<"project", "/", "<int>">> \in Seq(Words)
    BY DEF Words
  <2> QED BY <2>1, ApiElsewhere
<1>15. Elsewhere(Rule("GET", Admin(<<>>), "users"))
  <2>1. <<>> \in Seq(Words)
    BY DEF Words
  <2> QED BY <2>1, AdminElsewhere
<1>16. Elsewhere(Rule("PUT", Admin(<<"/", "<int>", "/", "role">>), "role"))
  <2>1. <<"/", "<int>", "/", "role">> \in Seq(Words)
    BY DEF Words
  <2> QED BY <2>1, AdminElsewhere
<1>17. Elsewhere(Rule("DELETE", Admin(<<"/", "<int>">>), "deactivate"))
  <2>1. <<"/", "<int>">> \in Seq(Words)
    BY DEF Words
  <2> QED BY <2>1, AdminElsewhere
<1>18. Elsewhere(Rule("GET", <<"/", "query", "/", "advanced">>, "query"))
  BY DEF Rule, Elsewhere, Param
<1>19. Elsewhere(Rule("GET", Api(<<"project", "/", "info">>), "constant"))
  <2>1. <<"project", "/", "info">> \in Seq(Words)
    BY DEF Words
  <2> QED BY <2>1, ApiElsewhere
<1>20. Elsewhere(Rule("GET", Api(<<"project", "s", "/", "<int>", "/", "settings">>), "constant"))
  <2>1. <<"project", "s", "/", "<int>", "/", "settings">> \in Seq(Words)
    BY DEF Words
  <2> QED BY <2>1, ApiElsewhere
<1>21. Elsewhere(Rule("GET", <<"/", "log", "s", "/", "<int>">>, "logs"))
  BY DEF Rule, Elsewhere, Param
<1>22. Elsewhere(Rule("GET", Api(<<"stats", "/", "<int>">>), "stats"))
  <2>1. <<"stats", "/", "<int>">> \in Seq(Words)
    BY DEF Words
  <2> QED BY <2>1, ApiElsewhere
<1>23. IsStaticRule(Rule("GET", <<"/", "static", "/", "<path>">>, "static"))
  BY DEF Rule, IsStaticRule
<1> QED
  BY <1>1, <1>2, <1>3, <1>4, <1>5, <1>6, <1>7, <1>8, <1>9, <1>10, <1>11, <1>12, <1>13, <1>14, <1>15, <1>16, <1>17, <1>18, <1>19, <1>20, <1>21, <1>22, <1>23 DEF AppRules

\* A URL of the static directory.
IsStatic(url) == IsPrefix(<<"/", "static", "/">>, url)

\* Its path begins as it does.
LEMMA StaticPath ==
  ASSUME NEW r, NEW U, r.url \in Seq(U), IsStatic(r.url)
  PROVE  /\ PathOf(r) \in Seq(U)
         /\ Len(PathOf(r)) >= 2 => PathOf(r)[1] = "/" /\ PathOf(r)[2] = "static"
<1> DEFINE url == r.url
           chars == {url[i] : i \in DOMAIN url} \ {"?"}
           n == Span(url, chars)
           prefix == <<"/", "static", "/">>
<1>1. Len(url) \in Nat /\ DOMAIN url = 1..Len(url) /\ \A i \in 1..Len(url) : url[i] \in U
  BY LenProperties, ElementOfSeq
<1>2. Len(url) >= 3 /\ url[1] = "/" /\ url[2] = "static"
  <2>1. prefix \in Seq({"/", "static"})
    OBVIOUS
  <2>2. Starts(prefix, url)
    BY <2>1, PrefixDef DEF IsStatic
  <2>3. Len(prefix) = 3 /\ 1 \in 1..3 /\ 2 \in 1..3 /\ prefix[1] = "/" /\ prefix[2] = "static"
    OBVIOUS
  <2> HIDE DEF prefix
  <2> QED BY <2>2, <2>3 DEF Starts
<1>3. PathOf(r) = SubSeq(url, 1, n)
  BY DEF PathOf, strcspn
<1>4. n \in 0..Len(url)
  <2> HIDE DEF chars
  <2> QED BY SpanProps
<1> HIDE DEF n
<1>5. PathOf(r) \in Seq(U) /\ Len(PathOf(r)) = n /\ \A i \in 1..n : PathOf(r)[i] = url[i]
  <2> HIDE DEF url
  <2>1. n \in Int /\ 1 \in Int /\ \A i \in 1..n : url[i] \in U
    BY <1>1, <1>4
  <2>2. /\ SubSeq(url, 1, n) \in Seq(U)
        /\ Len(SubSeq(url, 1, n)) = IF 1 <= n THEN n - 1 + 1 ELSE 0
        /\ \A i \in 1..(n - 1 + 1) : SubSeq(url, 1, n)[i] = url[1 + i - 1]
    BY <2>1, SubSeqProperties
  <2>3. n - 1 + 1 = n /\ (~(1 <= n) => n = 0) /\ \A i \in 1..n : 1 + i - 1 = i
    BY <1>4
  <2> QED BY <1>3, <2>2, <2>3
<1> QED BY <1>2, <1>4, <1>5

\* What shows the data of a static file, or nothing.
LEMMA ShownStatic ==
  ASSUME NEW a, NEW U, NEW found,
         \/ found.handler \in {None, "page", "constant"}
         \/ found.handler = "static" /\ found.params[1].value \in Seq(U),
         Handle(a, found)
  PROVE  last'.shown = <<>> \/ Inside(Head(last'.shown))
<1>1. ASSUME NEW code, NEW shown, Answer(a, code, shown) PROVE last'.shown = shown
  BY <1>1 DEF Answer
<1>2. CASE found.handler \in {None, "page", "constant"}
  <2>1. (\E code : Refuses(a, code)) \/ Page(a) \/ Constant(a)
    BY <1>2 DEF Handle, None
  <2> QED BY <1>1, <2>1 DEF Page, Constant, Refuses, Reads
<1>3. CASE found.handler = "static" /\ found.params[1].value \in Seq(U)
  <2>1. Static(a, found.params[1].value)
    BY <1>3 DEF Handle, None
  <2>2. PICK code \in {200, 404} : Answer(a, code, <<sanitize_filename(found.params[1].value)>>)
    BY <2>1 DEF Static, Reads
  <2>3. last'.shown = <<sanitize_filename(found.params[1].value)>>
    BY <1>1, <2>2
  <2>4. Head(last'.shown) = sanitize_filename(found.params[1].value)
    BY <2>3
  <2>5. Inside(sanitize_filename(found.params[1].value))
    BY <1>3, SanitizedInside
  <2> QED BY <2>4, <2>5
<1> QED BY <1>2, <1>3

\* A URL of the static directory is routed to its rule, or to one that shows nothing.
LEMMA StaticRoute ==
  ASSUME RouterInv, Serving, NEW r, r.method \in Method, NEW U, r.url \in Seq(U), IsStatic(r.url)
  PROVE  \/ Routed(r).handler \in {None, "page", "constant"}
         \/ Routed(r).handler = "static" /\ Routed(r).params[1].value \in Seq(U)
<1> DEFINE found == Routed(r)
           url == PathOf(r)
<1>1. url \in Seq(U) /\ (Len(url) >= 2 => url[1] = "/" /\ url[2] = "static")
  BY StaticPath
<1>2. rules = AppRules /\ rules \in Tables /\ phase = "serving"
  BY DEF Serving, RouterInv
<1>3. SUFFICES ASSUME Matched(found, url)
               PROVE  \/ found.handler \in {"page", "constant"}
                      \/ found.handler = "static" /\ found.params[1].value \in Seq(U)
  BY <1>1, <1>2, RoutedProps
<1>4. PICK i \in DOMAIN AppRules : /\ found.handler = AppRules[i].kind
                                  /\ found.params \in MatchesOf(AppRules[i].url, url)
  BY <1>2, <1>3 DEF Matched
<1> HIDE DEF found, url
<1> DEFINE pattern == AppRules[i].url
           p == found.params
<1>5. pattern \in Seq(TokensOf(AppRules)) /\ Len(pattern) \in Nat
  BY <1>2, RulesProps, LenProperties
<1>6. p \in Matching(pattern, url)[1][1] /\ Len(url) \in Nat /\ 1 \in 1..Len(url) + 1
  BY <1>1, <1>4, LenProperties DEF MatchesOf
<1>7. CASE IsStaticRule(AppRules[i])
  <2>1. pattern = <<"/", "static", "/", "<path>">> /\ found.handler = "static"
    BY <1>4, <1>7 DEF IsStaticRule
  <2>2. Len(pattern) = 4 /\ pattern[1] = "/" /\ pattern[2] = "static" /\ pattern[3] = "/" /\ pattern[4] = "<path>"
    BY <2>1
  <2> HIDE DEF pattern
  <2>3. pattern[1] \notin Param /\ pattern[2] \notin Param /\ pattern[3] \notin Param /\ pattern[4] \in Param
    BY <2>2 DEF Param
  <2>4. 1 + 1 \in 1..Len(url) + 1 /\ p \in Matching(pattern, url)[1 + 1][1 + 1]
    BY <1>1, <1>5, <1>6, <2>2, <2>3, LiteralStep
  <2>5. 2 \in 1..Len(url) + 1 /\ p \in Matching(pattern, url)[2][2]
    BY <2>4
  <2>6. 2 + 1 \in 1..Len(url) + 1 /\ p \in Matching(pattern, url)[2 + 1][2 + 1]
    BY <1>1, <1>5, <2>2, <2>3, <2>5, LiteralStep
  <2>7. 3 \in 1..Len(url) + 1 /\ p \in Matching(pattern, url)[3][3]
    BY <2>6
  <2>8. 3 + 1 \in 1..Len(url) + 1 /\ p \in Matching(pattern, url)[3 + 1][3 + 1]
    BY <1>1, <1>5, <2>2, <2>3, <2>7, LiteralStep
  <2>9. 4 \in 1..Len(url) + 1 /\ p \in Matching(pattern, url)[4][4] /\ 4 \in 1..Len(pattern)
    BY <2>2, <2>8
  <2>10. PICK text \in Seq(U), q \in Seq(Pairs(U)) : p = Named(pattern[4], text, q)
    BY <1>1, <1>5, <2>3, <2>9, ParamStep
  <2>11. [param |-> pattern[4], value |-> text] \in Pairs(U)
    BY <2>3 DEF Pairs
  <2>12. Named(pattern[4], text, q)[1] = [param |-> pattern[4], value |-> text]
    BY <2>11, OneBefore DEF Named
  <2>13. p[1].value = text
    BY <2>10, <2>12
  <2> QED BY <2>1, <2>13
<1>8. CASE Elsewhere(AppRules[i]) /\ AppRules[i].kind \notin {"page", "constant"}
  <2>1. Len(pattern) >= 2 /\ pattern[1] = "/" /\ pattern[2] \notin Param \cup {"static"}
    BY <1>8 DEF Elsewhere
  <2> HIDE DEF pattern
  <2>2. pattern[1] \notin Param /\ 1 \in 1..Len(pattern) /\ 2 \in 1..Len(pattern)
    BY <1>5, <2>1 DEF Param
  <2>3. 1 + 1 \in 1..Len(url) + 1 /\ p \in Matching(pattern, url)[1 + 1][1 + 1]
    BY <1>1, <1>5, <1>6, <2>2, LiteralStep
  <2>4. 2 \in 1..Len(url) + 1 /\ p \in Matching(pattern, url)[2][2]
    BY <2>3
  <2>5. 2 \in 1..Len(url) /\ url[2] = pattern[2]
    BY <1>1, <1>5, <2>1, <2>2, <2>4, LiteralStep
  <2>6. Len(url) >= 2
    BY <1>6, <2>5
  <2> QED BY <1>1, <2>1, <2>5, <2>6
<1>9. CASE AppRules[i].kind \in {"page", "constant"}
  BY <1>4, <1>9
<1> QED BY <1>7, <1>8, <1>9, OtherRules

\* No request for a static file names one outside of the static directory, whatever characters its
\* path has: the router hands the path to no other handler, and no part of what sanitize_filename
\* makes of it is ".." or absolute.
THEOREM StaticFilesStayInside == Spec => []FilesStayInside
<1> DEFINE NamedInside == last.code # 0 /\ last.form.page = None /\ IsStatic(last.request.url) =>
                      (last.shown = <<>> \/ Inside(Head(last.shown)))
<1>1. Init => NamedInside
  BY DEF Init, Idle
<1>2. ASSUME RouterInv, NamedInside, [Next]_vars PROVE NamedInside'
  <2>1. CASE last' = last
    BY <1>2, <2>1
  <2>2. CASE Answered
    BY <2>2 DEF Answered, Idle
  <2>3. CASE Serving /\ \E a \in Asks : Serve(a)
    <3>1. PICK a \in Asks : Serve(a)
      BY <2>3
    <3>2. a.request.method \in Method /\ a.request.url \in Seq(ToSet(a.request.url))
      BY AsksAssumption DEF IsSeq
    <3>3. Handle(a, Routed(a.request))
      BY <3>1 DEF Serve
    <3>4. last'.request = a.request
      BY <3>3, HandlersKeep DEF Answers, Answer
    <3>5. SUFFICES ASSUME IsStatic(a.request.url)
                   PROVE  last'.shown = <<>> \/ Inside(Head(last'.shown))
      BY <3>4
    <3>6. \/ Routed(a.request).handler \in {None, "page", "constant"}
          \/ Routed(a.request).handler = "static" /\ Routed(a.request).params[1].value \in Seq(ToSet(a.request.url))
      BY <1>2, <2>3, <3>2, <3>5, StaticRoute
    <3> QED BY <3>3, <3>6, ShownStatic
  <2>4. CASE \E i : Deliver(i)
    <3>1. PICK i : Deliver(i)
      BY <2>4
    <3>2. last'.request.url = <<"/", "log">>
      BY <3>1, TracesKeep DEF Deliver, Answers, Answer, Request
    <3>3. ~IsStatic(<<"/", "log">>)
      BY DEF IsStatic, IsPrefix
    <3> QED BY <3>2, <3>3
  <2>5. Start \/ Done \/ UNCHANGED vars \/ (\E c : SdkLog(c)) \/ (\E k, v : SdkInit(k, v)) \/ Lose => last' = last
    BY DEF Start, Done, vars, SdkLog, SdkInit, Lose
  <2> QED BY <1>2, <2>1, <2>2, <2>3, <2>4, <2>5 DEF Next
<1>3. NamedInside => FilesStayInside
  BY DEF IsStatic, Inside, FilesStayInside
<1> QED BY <1>1, <1>2, <1>3, RouterInvariant, PTL DEF Spec

-----------------------------------------------------------------------------
(* The fields of a post. *)

\* Where a piece with this name begins, and the value behind it.
FieldPlaces(body, name) ==
  {i \in 1..(Len(body) - 1) : (i = 1 \/ body[i - 1] = "&") /\ body[i] = name /\ body[i + 1] = "="}

ValueAt(body, i) == LET rest == From(body, i + 2) IN SubSeq(rest, 1, strcspn(rest, {"&"}))

LastOf(S) == CHOOSE i \in S : \A j \in S : j <= i

\* The value goes up to the next "&" or to the end.
IsValue(body, i, v) ==
  /\ i + 1 + Len(v) <= Len(body)
  /\ \A j \in 1..Len(v) : body[i + 1 + j] = v[j] /\ v[j] # "&"
  /\ i + 1 + Len(v) < Len(body) => body[i + 2 + Len(v)] = "&"

\* How many characters there are before the first "&".
LEMMA CutProps ==
  ASSUME NEW U, NEW text \in Seq(U)
  PROVE  LET k == strcspn(text, {"&"})
         IN /\ k \in 0..Len(text) /\ \A i \in 1..k : text[i] # "&"
            /\ k < Len(text) => text[k + 1] = "&"
<1> DEFINE chars == {text[i] : i \in DOMAIN text} \ {"&"}
           k == Span(text, chars)
<1>1. Len(text) \in Nat /\ DOMAIN text = 1..Len(text)
  BY LenProperties
<1>2. /\ k \in 0..Len(text) /\ \A i \in 1..k : text[i] \in chars
      /\ k < Len(text) => text[k + 1] \notin chars
  <2> HIDE DEF chars
  <2> QED BY SpanProps
<1>3. strcspn(text, {"&"}) = k
  BY DEF strcspn
<1> HIDE DEF k
<1>4. k < Len(text) => text[k + 1] = "&"
  <2>1. k < Len(text) => k + 1 \in DOMAIN text
    BY <1>1, <1>2
  <2> QED BY <1>2, <2>1
<1> QED BY <1>2, <1>3, <1>4

\* What stands behind a place is a value.
LEMMA ValueProps ==
  ASSUME NEW U, NEW body \in Seq(U), NEW i \in Nat, i + 1 <= Len(body)
  PROVE  ValueAt(body, i) \in Seq(U) /\ IsValue(body, i, ValueAt(body, i))
<1> DEFINE rest == From(body, i + 2)
           k == strcspn(rest, {"&"})
           v == SubSeq(rest, 1, k)
<1>1. Len(body) \in Nat /\ i + 2 \in 1..Len(body) + 1
  BY LenProperties
<1>2. /\ rest \in Seq(U) /\ Len(rest) = Len(body) - (i + 2) + 1
      /\ \A j \in 1..Len(body) - (i + 2) + 1 : rest[j] = body[i + 2 + j - 1]
  BY <1>1, FromProps
<1> HIDE DEF rest
<1>3. /\ k \in 0..Len(rest) /\ \A j \in 1..k : rest[j] # "&"
      /\ k < Len(rest) => rest[k + 1] = "&"
  BY <1>2, CutProps
<1> HIDE DEF k
<1>4. v \in Seq(U) /\ Len(v) = k /\ \A j \in 1..k : v[j] = rest[j]
  <2>0. \A j \in 1..Len(rest) : rest[j] \in U
    BY <1>2, ElementOfSeq
  <2>1. k \in Int /\ 1 \in Int /\ \A j \in 1..k : rest[j] \in U
    BY <1>1, <1>2, <1>3, <2>0
  <2>2. /\ SubSeq(rest, 1, k) \in Seq(U)
        /\ Len(SubSeq(rest, 1, k)) = IF 1 <= k THEN k - 1 + 1 ELSE 0
        /\ \A j \in 1..(k - 1 + 1) : SubSeq(rest, 1, k)[j] = rest[1 + j - 1]
    BY <2>1, SubSeqProperties
  <2>3. k - 1 + 1 = k /\ (~(1 <= k) => k = 0) /\ \A j \in 1..k : 1 + j - 1 = j
    BY <1>1, <1>2, <1>3
  <2> QED BY <2>2, <2>3
<1>5. ValueAt(body, i) = v
  BY DEF ValueAt, rest, k
<1> HIDE DEF v
<1>6. ASSUME NEW j \in 1..k PROVE body[i + 1 + j] = v[j] /\ v[j] # "&"
  <2>1. j \in 1..Len(body) - (i + 2) + 1 /\ i + 2 + j - 1 = i + 1 + j
    BY <1>1, <1>2, <1>3
  <2> QED BY <1>2, <1>3, <1>4, <2>1
<1>7. i + 1 + k <= Len(body)
  BY <1>1, <1>2, <1>3
<1>8. i + 1 + k < Len(body) => body[i + 2 + k] = "&"
  <2>1. i + 1 + k < Len(body) => k < Len(rest) /\ k + 1 \in 1..Len(body) - (i + 2) + 1 /\ i + 2 + (k + 1) - 1 = i + 2 + k
    BY <1>1, <1>2, <1>3
  <2> QED BY <1>2, <1>3, <2>1
<1> QED BY <1>4, <1>5, <1>6, <1>7, <1>8 DEF IsValue

\* There is one value behind a place.
LEMMA OneValue ==
  ASSUME NEW U, NEW body \in Seq(U), NEW i \in Nat, NEW v \in Seq(U), NEW w \in Seq(U),
         IsValue(body, i, v), IsValue(body, i, w)
  PROVE  v = w
<1>1. Len(v) \in Nat /\ Len(w) \in Nat /\ Len(body) \in Nat
  BY LenProperties
<1>2. ASSUME NEW x \in Seq(U), NEW y \in Seq(U), IsValue(body, i, x), IsValue(body, i, y) PROVE ~(Len(x) < Len(y))
  <2> SUFFICES ASSUME Len(x) < Len(y) PROVE FALSE
    OBVIOUS
  <2>0. Len(x) \in Nat /\ Len(y) \in Nat
    BY LenProperties
  <2>1. i + 1 + Len(x) < Len(body) /\ Len(x) + 1 \in 1..Len(y) /\ i + 1 + (Len(x) + 1) = i + 2 + Len(x)
    BY <1>1, <1>2, <2>0 DEF IsValue
  <2>2. body[i + 2 + Len(x)] = "&"
    BY <1>2, <2>1 DEF IsValue
  <2>3. body[i + 1 + (Len(x) + 1)] # "&"
    BY <1>2, <2>1 DEF IsValue
  <2> QED BY <2>1, <2>2, <2>3
<1>3. ~(Len(v) < Len(w)) /\ ~(Len(w) < Len(v))
  BY <1>2
<1>4. Len(v) = Len(w)
  BY <1>1, <1>3
<1>5. \A j \in 1..Len(v) : v[j] = w[j]
  BY <1>4 DEF IsValue
<1> QED BY <1>4, <1>5, SeqEqual

\* A field of a post by its places.
LEMMA ParamDef ==
  ASSUME NEW body, NEW name, NEW default
  PROVE  PostParam(body, name, default) =
           IF FieldPlaces(body, name) = {} THEN default ELSE ValueAt(body, LastOf(FieldPlaces(body, name)))
  BY DEF PostParam, FieldPlaces, ValueAt, LastOf

\* A text without "&", which ends a field.
Unsplit(v) == \A j \in 1..Len(v) : v[j] # "&"

\* The last of the places.
LEMMA LastOfProps ==
  ASSUME NEW S \in SUBSET Nat, NEW x \in S, \A y \in S : y <= x
  PROVE  LastOf(S) = x
<1>1. \E i \in S : \A j \in S : j <= i
  OBVIOUS
<1>2. LastOf(S) \in S /\ \A j \in S : j <= LastOf(S)
  BY <1>1, Zenon DEF LastOf
<1>3. LastOf(S) <= x /\ x <= LastOf(S) /\ x \in Nat /\ LastOf(S) \in Nat
  BY <1>2
<1> QED BY <1>3

\* Fields, put together: the first, and another behind a post.
Opening(n, v)      == <<n, "=">> \o v
Joined(post, n, v) == post \o <<"&", n, "=">> \o v

\* The first field of a post.
LEMMA FirstField ==
  ASSUME NEW U, NEW n \in U, "=" \in U, n # "&", NEW v \in Seq(U), Unsplit(v), NEW name, NEW default
  PROVE  /\ Opening(n, v) \in Seq(U) /\ Len(Opening(n, v)) >= 2
         /\ PostParam(Opening(n, v), name, default) = IF name = n THEN v ELSE default
<1> DEFINE body == <<n, "=">> \o v
<1>1. <<n, "=">> \in Seq(U) /\ Len(<<n, "=">>) = 2 /\ <<n, "=">>[1] = n /\ <<n, "=">>[2] = "="
  OBVIOUS
<1>2. Len(v) \in Nat
  BY LenProperties
<1>3. /\ body \in Seq(U) /\ Len(body) = 2 + Len(v)
      /\ \A i \in 1..(2 + Len(v)) : body[i] = IF i <= 2 THEN <<n, "=">>[i] ELSE v[i - 2]
  BY <1>1, ConcatProperties
<1> HIDE DEF body, Opening
<1>4. body[1] = n /\ body[2] = "="
  <2>1. 1 \in 1..(2 + Len(v)) /\ 2 \in 1..(2 + Len(v)) /\ 1 <= 2 /\ 2 <= 2
    BY <1>2
  <2> QED BY <1>1, <1>3, <2>1
<1>5. \A j \in 1..Len(v) : body[j + 2] = v[j] /\ v[j] # "&"
  <2> TAKE j \in 1..Len(v)
  <2>1. j + 2 \in 1..(2 + Len(v)) /\ ~(j + 2 <= 2) /\ (j + 2) - 2 = j
    BY <1>2
  <2> QED BY <1>3, <2>1 DEF Unsplit
<1>6. ASSUME NEW i \in FieldPlaces(body, name) PROVE i = 1
  <2> SUFFICES ASSUME i # 1 PROVE FALSE
    OBVIOUS
  <2>1. i \in 1..Len(body) - 1 /\ body[i - 1] = "&"
    BY <1>6 DEF FieldPlaces
  <2>2. i - 1 = 1 \/ i - 1 = 2 \/ (i - 3 \in 1..Len(v) /\ (i - 3) + 2 = i - 1)
    BY <1>2, <1>3, <2>1
  <2> QED BY <1>4, <1>5, <2>1, <2>2
<1>7. 1 \in FieldPlaces(body, name) <=> name = n
  <2>1. 1 \in 1..Len(body) - 1 /\ 1 + 1 = 2
    BY <1>2, <1>3
  <2> QED BY <1>4, <2>1 DEF FieldPlaces
<1>8. CASE name # n
  <2>1. FieldPlaces(body, name) = {}
    BY <1>6, <1>7, <1>8
  <2> QED BY <1>2, <1>3, <1>8, <2>1, ParamDef DEF body, Opening
<1>9. CASE name = n
  <2>1. FieldPlaces(body, name) = {1}
    BY <1>6, <1>7, <1>9
  <2>2. LastOf({1}) = 1
    BY DEF LastOf
  <2>3. PostParam(body, name, default) = ValueAt(body, 1)
    BY <2>1, <2>2, ParamDef
  <2>4. IsValue(body, 1, v)
    <3>1. \A j \in 1..Len(v) : 1 + 1 + j = j + 2
      OBVIOUS
    <3> QED BY <1>2, <1>3, <1>5, <3>1 DEF IsValue
  <2>5. ValueAt(body, 1) \in Seq(U) /\ IsValue(body, 1, ValueAt(body, 1))
    BY <1>2, <1>3, ValueProps
  <2>6. ValueAt(body, 1) = v
    BY <1>3, <2>4, <2>5, OneValue
  <2> QED BY <1>2, <1>3, <1>9, <2>3, <2>6 DEF body, Opening
<1> QED BY <1>8, <1>9

\* Another field behind the others.
LEMMA NextField ==
  ASSUME NEW U, "&" \in U, "=" \in U, NEW n \in U, n # "&", NEW v \in Seq(U), Unsplit(v),
         NEW body \in Seq(U), Len(body) >= 2, NEW name, name # "&", NEW default
  PROVE  /\ Joined(body, n, v) \in Seq(U) /\ Len(Joined(body, n, v)) >= 2
         /\ PostParam(Joined(body, n, v), name, default) = IF name = n THEN v ELSE PostParam(body, name, default)
<1> DEFINE sep == <<"&", n, "=">>
           L == Len(body)
           head == body \o sep
           more == head \o v
<1>1. sep \in Seq(U) /\ Len(sep) = 3 /\ sep[1] = "&" /\ sep[2] = n /\ sep[3] = "="
  OBVIOUS
<1>2. Len(v) \in Nat /\ L \in Nat /\ L >= 2
  BY LenProperties
<1> HIDE DEF sep
<1>3. /\ head \in Seq(U) /\ Len(head) = L + 3
      /\ \A i \in 1..(L + 3) : head[i] = IF i <= L THEN body[i] ELSE sep[i - L]
  <2>1. /\ head \in Seq(U) /\ Len(head) = Len(body) + Len(sep)
        /\ \A i \in 1..(Len(body) + Len(sep)) :
             head[i] = IF i <= Len(body) THEN body[i] ELSE sep[i - Len(body)]
    BY <1>1, ConcatProperties
  <2> QED BY <1>1, <2>1
<1> HIDE DEF head
<1>4. /\ more \in Seq(U) /\ Len(more) = L + 3 + Len(v)
      /\ \A i \in 1..(L + 3 + Len(v)) : more[i] = IF i <= L + 3 THEN head[i] ELSE v[i - (L + 3)]
  <2>1. /\ more \in Seq(U) /\ Len(more) = Len(head) + Len(v)
        /\ \A i \in 1..(Len(head) + Len(v)) :
             more[i] = IF i <= Len(head) THEN head[i] ELSE v[i - Len(head)]
    BY <1>3, ConcatProperties
  <2> QED BY <1>3, <2>1
<1> HIDE DEF more
<1>5. \A i \in 1..L : more[i] = body[i]
  <2> TAKE i \in 1..L
  <2>1. i \in 1..(L + 3 + Len(v)) /\ i \in 1..(L + 3) /\ i <= L + 3 /\ i <= L
    BY <1>2
  <2> QED BY <1>3, <1>4, <2>1
<1>6. more[L + 1] = "&" /\ more[L + 2] = n /\ more[L + 3] = "="
  <2>1. \A k \in 1..3 : more[L + k] = sep[k]
    <3> TAKE k \in 1..3
    <3>1. L + k \in 1..(L + 3 + Len(v)) /\ L + k \in 1..(L + 3) /\ L + k <= L + 3 /\ ~(L + k <= L) /\ (L + k) - L = k
      BY <1>2
    <3> QED BY <1>3, <1>4, <3>1
  <2> QED BY <1>1, <2>1
<1>7. \A j \in 1..Len(v) : more[L + 3 + j] = v[j] /\ v[j] # "&"
  <2> TAKE j \in 1..Len(v)
  <2>1. L + 3 + j \in 1..(L + 3 + Len(v)) /\ ~(L + 3 + j <= L + 3) /\ (L + 3 + j) - (L + 3) = j
    BY <1>2
  <2> QED BY <1>4, <2>1 DEF Unsplit
<1>8. \A i \in 1..L - 1 : i \in FieldPlaces(more, name) <=> i \in FieldPlaces(body, name)
  <2> TAKE i \in 1..L - 1
  <2>1. i \in 1..Len(more) - 1 /\ i \in 1..L /\ i + 1 \in 1..L /\ (i # 1 => i - 1 \in 1..L)
    BY <1>2, <1>4
  <2> QED BY <1>5, <2>1 DEF FieldPlaces
<1>9. FieldPlaces(body, name) \subseteq 1..L - 1
  BY DEF FieldPlaces
<1>10. ASSUME NEW i \in FieldPlaces(more, name), i \notin 1..L - 1 PROVE i = L + 2
  <2> SUFFICES ASSUME i # L + 2 PROVE FALSE
    OBVIOUS
  <2>1. i \in 1..Len(more) - 1 /\ more[i] = name /\ more[i + 1] = "=" /\ (i = 1 \/ more[i - 1] = "&")
    BY <1>10 DEF FieldPlaces
  <2>2. i # L /\ i # L + 1
    BY <1>6, <2>1
  <2>3. i # 1 /\ (i - 1 = L + 2 \/ i - 1 = L + 3 \/ (i - 1 - (L + 3) \in 1..Len(v) /\ L + 3 + (i - 1 - (L + 3)) = i - 1))
    BY <1>2, <1>4, <1>10, <2>1, <2>2
  <2> QED BY <1>6, <1>7, <2>1, <2>3
<1>11. L + 2 \in FieldPlaces(more, name) <=> name = n
  <2>1. L + 2 \in 1..Len(more) - 1 /\ (L + 2) - 1 = L + 1 /\ (L + 2) + 1 = L + 3
    BY <1>2, <1>4
  <2> QED BY <1>6, <2>1 DEF FieldPlaces
<1>12. CASE name = n
  <2>1. FieldPlaces(more, name) \subseteq 1..L + 2 /\ L + 2 \in FieldPlaces(more, name)
    <3>1. \A i \in FieldPlaces(more, name) : i \in 1..L - 1 \/ i = L + 2
      BY <1>10
    <3>2. L + 2 \in 1..L + 2 /\ \A i \in 1..L - 1 : i \in 1..L + 2
      BY <1>2
    <3> QED BY <1>11, <1>12, <3>1, <3>2
  <2> DEFINE P == FieldPlaces(more, name)
  <2>2. LastOf(P) = L + 2
    <3> HIDE DEF P
    <3>1. \A j \in P : j <= L + 2
      BY <1>2, <2>1 DEF P
    <3>2. P \subseteq Nat /\ L + 2 \in P
      BY <1>2, <2>1 DEF P
    <3> QED BY <3>1, <3>2, LastOfProps
  <2>3. PostParam(more, name, default) = ValueAt(more, L + 2)
    BY <2>1, <2>2, ParamDef
  <2>4. IsValue(more, L + 2, v)
    <3>1. \A j \in 1..Len(v) : L + 2 + 1 + j = L + 3 + j
      BY <1>2
    <3>2. L + 2 + 1 + Len(v) = Len(more)
      BY <1>2, <1>4
    <3> QED BY <1>2, <1>4, <1>7, <3>1, <3>2 DEF IsValue
  <2>5. ValueAt(more, L + 2) \in Seq(U) /\ IsValue(more, L + 2, ValueAt(more, L + 2))
    <3>1. L + 2 \in Nat /\ L + 2 + 1 <= Len(more)
      BY <1>2, <1>4
    <3> QED BY <1>4, <3>1, ValueProps
  <2>6. ValueAt(more, L + 2) = v
    <3>1. L + 2 \in Nat
      BY <1>2
    <3> QED BY <1>4, <2>4, <2>5, <3>1, OneValue
  <2>7. Len(more) >= 2
    BY <1>2, <1>4
  <2> QED BY <1>4, <1>12, <2>3, <2>6, <2>7 DEF more, head, sep, Joined
<1>13. CASE name # n
  <2>1. FieldPlaces(more, name) = FieldPlaces(body, name)
    <3>1. \A i : i \in FieldPlaces(more, name) <=> i \in FieldPlaces(body, name)
      BY <1>8, <1>9, <1>10, <1>11, <1>13
    <3> QED BY <3>1
  <2>2. ASSUME NEW i \in FieldPlaces(body, name) PROVE ValueAt(more, i) = ValueAt(body, i)
    <3> DEFINE w == ValueAt(body, i)
    <3>1. i \in Nat /\ i + 1 <= L
      BY <1>2, <1>9
    <3>2. w \in Seq(U) /\ IsValue(body, i, w)
      BY <3>1, ValueProps
    <3>3. Len(w) \in Nat
      BY <3>2, LenProperties
    <3> HIDE DEF w
    <3>4. IsValue(more, i, w)
      <4>1. i + 1 + Len(w) <= Len(more)
        BY <1>2, <1>4, <3>1, <3>2, <3>3 DEF IsValue
      <4>2. ASSUME NEW j \in 1..Len(w) PROVE more[i + 1 + j] = w[j] /\ w[j] # "&"
        <5>1. i + 1 + j \in 1..L
          BY <1>2, <3>1, <3>2, <3>3 DEF IsValue
        <5> QED BY <1>5, <3>2, <5>1 DEF IsValue
      <4>3. more[i + 2 + Len(w)] = "&"
        <5>1. CASE i + 1 + Len(w) < L
          <6>1. i + 2 + Len(w) \in 1..L
            BY <1>2, <3>1, <3>3, <5>1
          <6> QED BY <1>5, <3>2, <5>1, <6>1 DEF IsValue
        <5>2. CASE ~(i + 1 + Len(w) < L)
          <6>1. i + 2 + Len(w) = L + 1
            BY <1>2, <3>1, <3>2, <3>3, <5>2 DEF IsValue
          <6> QED BY <1>6, <6>1
        <5> QED BY <5>1, <5>2
      <4> QED BY <4>1, <4>2, <4>3 DEF IsValue
    <3>5. ValueAt(more, i) \in Seq(U) /\ IsValue(more, i, ValueAt(more, i))
      <4>1. i + 1 <= Len(more)
        BY <1>2, <1>4, <3>1
      <4> QED BY <1>4, <3>1, <4>1, ValueProps
    <3>6. ValueAt(more, i) = w
      BY <1>4, <3>1, <3>2, <3>4, <3>5, OneValue
    <3> QED BY <3>6 DEF w
  <2> DEFINE P == FieldPlaces(body, name)
  <2>3. P # {} => LastOf(P) \in P
    <3>0. P \subseteq 0..L - 1
      BY <1>2, <1>9
    <3> HIDE DEF P
    <3> SUFFICES ASSUME P # {} PROVE LastOf(P) \in P
      OBVIOUS
    <3>1. L - 1 \in Nat
      BY <1>2
    <3>2. \E x \in P : \A y \in P : y <= x
      BY <3>0, <3>1, Greatest
    <3> QED BY <3>2 DEF LastOf
  <2>4. PostParam(more, name, default) = PostParam(body, name, default)
    BY <2>1, <2>2, <2>3, ParamDef
  <2>5. Len(more) >= 2
    BY <1>2, <1>4
  <2> QED BY <1>4, <1>13, <2>4, <2>5 DEF more, head, sep, Joined
<1> QED BY <1>12, <1>13

-----------------------------------------------------------------------------
(* The texts that are stored. *)

\* The texts put together so far.
FlattenStep(s, f, i) == IF i = 1 THEN s[i] ELSE f[i - 1] \o s[i]

IsFlattened(s, f) == f = [i \in 1..Len(s) |-> FlattenStep(s, f, i)]

FlattenSteps(s, f) == \A i \in 1..Len(s) : f[i] = FlattenStep(s, f, i)

\* FlattenSeq puts one text behind the other.
LEMMA FlattenDef ==
  ASSUME NEW A, NEW s \in Seq(Seq(A)), Len(s) # 0
  PROVE  \E f : /\ FlattenSteps(s, f) /\ FlattenSeq(s) = f[Len(s)]
                /\ \A i \in 1..Len(s) : f[i] \in Seq(A)
<1> DEFINE D == 1..Len(s)
           V == Seq(A)
           rank == [i \in D |-> i]
           F == [f \in [D -> V] |-> [i \in D |-> FlattenStep(s, f, i)]]
           made == CHOOSE f : IsFlattened(s, f)
<1>0. Len(s) \in Nat /\ \A i \in 1..Len(s) : s[i] \in Seq(A)
  BY LenProperties, ElementOfSeq
<1>1. rank \in [D -> Nat] /\ V # {}
  <2>1. rank \in [D -> Nat]
    BY <1>0
  <2>2. <<>> \in V
    OBVIOUS
  <2> QED BY <2>1, <2>2
<1>2. \A i \in D : i # 1 => i - 1 \in D
  BY <1>0
<1>3. ASSUME NEW f \in [D -> V], NEW i \in D PROVE FlattenStep(s, f, i) \in V
  <2>1. CASE i = 1
    BY <1>0, <2>1 DEF FlattenStep
  <2>2. CASE i # 1
    <3>1. f[i - 1] \in Seq(A) /\ s[i] \in Seq(A)
      BY <1>0, <1>2, <2>2
    <3> QED BY <2>2, <3>1, ConcatProperties DEF FlattenStep
  <2> QED BY <2>1, <2>2
<1>4. F \in [[D -> V] -> [D -> V]]
  <2> HIDE DEF D, V
  <2> QED BY <1>3
<1>5. ASSUME NEW f \in [D -> V], NEW g \in [D -> V], NEW i \in D,
             \A j \in D : rank[j] < rank[i] => f[j] = g[j]
      PROVE  F[f][i] = F[g][i]
  <2>1. i # 1 => i - 1 \in D /\ rank[i - 1] < rank[i]
    BY <1>0
  <2>2. FlattenStep(s, f, i) = FlattenStep(s, g, i)
    BY <1>5, <2>1 DEF FlattenStep
  <2> QED BY <2>2
<1>6. Recurses(D, V, rank, F)
  <2> HIDE DEF D, V, rank, F
  <2> QED BY <1>1, <1>4, <1>5 DEF Recurses
<1>7. PICK f \in [D -> V] : f = F[f]
  <2> HIDE DEF D, V, rank, F
  <2> QED BY <1>6, Recursion
<1>8. \E h : IsFlattened(s, h)
  <2>1. f = [i \in D |-> FlattenStep(s, f, i)]
    BY <1>7
  <2> QED BY <2>1 DEF IsFlattened
<1>9. IsFlattened(s, made)
  BY <1>8, Zenon
<1>10. FlattenSeq(s) = made[Len(s)]
  BY DEF FlattenSeq, IsFlattened, FlattenStep
<1> HIDE DEF made
<1>11. FlattenSteps(s, made)
  BY <1>9 DEF IsFlattened, FlattenSteps
<1> DEFINE Good == {i \in D : made[i] \in Seq(A)}
<1>12. Inherited(D, Good, rank)
  <2>1. ASSUME NEW i \in D, \A j \in D : rank[j] < rank[i] => j \in Good PROVE i \in Good
    <3>1. made[i] = FlattenStep(s, made, i) /\ s[i] \in Seq(A)
      BY <1>0, <1>11 DEF FlattenSteps
    <3>2. CASE i = 1
      BY <3>1, <3>2 DEF FlattenStep
    <3>3. CASE i # 1
      <4>1. i - 1 \in D /\ rank[i - 1] < rank[i]
        BY <1>0, <3>3
      <4>2. made[i - 1] \in Seq(A)
        BY <2>1, <4>1
      <4>3. made[i - 1] \o s[i] \in Seq(A)
        BY <3>1, <4>2, ConcatProperties
      <4> QED BY <3>1, <3>3, <4>3 DEF FlattenStep
    <3> QED BY <3>2, <3>3
  <2> QED BY <1>1, <2>1 DEF Inherited
<1>13. D \subseteq Good
  <2> HIDE DEF D, Good, rank
  <2> QED BY <1>12, RankInd
<1> QED BY <1>10, <1>11, <1>13

\* What is put together is made of what its parts are made of.
LEMMA FlattenType ==
  ASSUME NEW A, NEW s \in Seq(Seq(A))
  PROVE  FlattenSeq(s) \in Seq(A)
<1>0. Len(s) \in Nat
  BY LenProperties
<1>1. CASE Len(s) = 0
  <2>1. s = <<>>
    BY <1>1, EmptySeq
  <2>2. FlattenSeq(s) = <<>>
    BY <1>1, <2>1 DEF FlattenSeq
  <2> QED BY <2>2
<1>2. CASE Len(s) # 0
  <2>1. Len(s) \in 1..Len(s)
    BY <1>0, <1>2
  <2> QED BY <1>2, <2>1, FlattenDef
<1> QED BY <1>1, <1>2

\* Single characters put together are their text.
LEMMA FlattenSingles ==
  ASSUME NEW A, NEW text \in Seq(A)
  PROVE  FlattenSeq([i \in DOMAIN text |-> <<text[i]>>]) = text
<1> DEFINE s == [i \in DOMAIN text |-> <<text[i]>>]
<1>0. Len(text) \in Nat /\ DOMAIN text = 1..Len(text) /\ \A i \in 1..Len(text) : text[i] \in A
  BY LenProperties, ElementOfSeq
<1>1. s \in Seq(Seq(A)) /\ Len(s) = Len(text) /\ \A i \in 1..Len(text) : s[i] = <<text[i]>>
  <2>1. \A i \in 1..Len(text) : <<text[i]>> \in Seq(A)
    BY <1>0
  <2> QED BY <1>0, <2>1
<1> HIDE DEF s
<1>2. CASE Len(text) = 0
  <2>1. s = <<>> /\ text = <<>>
    BY <1>1, <1>2, EmptySeq
  <2>2. FlattenSeq(s) = s
    BY <1>1, <1>2 DEF FlattenSeq
  <2> QED BY <2>1, <2>2 DEF s
<1>3. CASE Len(text) # 0
  <2>0. Len(s) # 0
    BY <1>1, <1>3
  <2>1. PICK f : /\ FlattenSteps(s, f) /\ FlattenSeq(s) = f[Len(s)]
                 /\ \A i \in 1..Len(s) : f[i] \in Seq(A)
    BY <1>1, <2>0, FlattenDef
  <2> DEFINE D == 1..Len(text)
             rank == [i \in D |-> i]
             Good == {i \in D : Len(f[i]) = i /\ \A j \in 1..i : f[i][j] = text[j]}
  <2>2. Inherited(D, Good, rank)
    <3>1. rank \in [D -> Nat]
      BY <1>0
    <3>2. ASSUME NEW i \in D, \A j \in D : rank[j] < rank[i] => j \in Good PROVE i \in Good
      <4>1. f[i] = FlattenStep(s, f, i) /\ s[i] = <<text[i]>> /\ text[i] \in A
        BY <1>0, <1>1, <2>1 DEF FlattenSteps
      <4>2. CASE i = 1
        <5>1. f[i] = <<text[1]>>
          BY <4>1, <4>2 DEF FlattenStep
        <5>2. Len(f[i]) = 1 /\ f[i][1] = text[1]
          BY <5>1
        <5> QED BY <4>2, <5>2
      <4>3. CASE i # 1
        <5>1. i - 1 \in D /\ rank[i - 1] < rank[i]
          BY <1>0, <4>3
        <5>2. Len(f[i - 1]) = i - 1 /\ \A j \in 1..i - 1 : f[i - 1][j] = text[j]
          BY <3>2, <5>1
        <5>3. f[i - 1] \in Seq(A)
          BY <1>1, <2>1, <5>1
        <5>4. f[i] = f[i - 1] \o <<text[i]>>
          BY <4>1, <4>3 DEF FlattenStep
        <5>5. <<text[i]>> \in Seq(A) /\ Len(<<text[i]>>) = 1 /\ <<text[i]>>[1] = text[i]
          BY <4>1
        <5>6. /\ Len(f[i]) = Len(f[i - 1]) + Len(<<text[i]>>)
              /\ \A j \in 1..(Len(f[i - 1]) + Len(<<text[i]>>)) :
                   f[i][j] = IF j <= Len(f[i - 1]) THEN f[i - 1][j] ELSE <<text[i]>>[j - Len(f[i - 1])]
          BY <5>3, <5>4, <5>5, ConcatProperties
        <5>7. Len(f[i]) = i
          BY <1>0, <5>2, <5>5, <5>6
        <5>8. ASSUME NEW j \in 1..i PROVE f[i][j] = text[j]
          <6>1. f[i][j] = IF j <= i - 1 THEN f[i - 1][j] ELSE <<text[i]>>[j - (i - 1)]
            BY <1>0, <5>2, <5>5, <5>6
          <6>2. CASE j <= i - 1
            BY <5>2, <6>1, <6>2
          <6>3. CASE ~(j <= i - 1)
            <7>1. j = i /\ j - (i - 1) = 1
              BY <6>3
            <7> QED BY <5>5, <6>1, <6>3, <7>1
          <6> QED BY <6>2, <6>3
        <5> QED BY <5>7, <5>8
      <4> QED BY <4>2, <4>3
    <3> QED BY <3>1, <3>2 DEF Inherited
  <2>3. D \subseteq Good
    <3> HIDE DEF D, Good, rank
    <3> QED BY <2>2, RankInd
  <2>4. Len(text) \in D
    BY <1>0, <1>3
  <2>5. Len(f[Len(text)]) = Len(text) /\ \A j \in 1..Len(text) : f[Len(text)][j] = text[j]
    BY <2>3, <2>4
  <2>6. f[Len(text)] \in Seq(A)
    BY <1>1, <2>1, <2>4
  <2>7. f[Len(text)] = text
    BY <2>5, <2>6, SeqEqual
  <2> QED BY <1>1, <2>1, <2>7 DEF s
<1> QED BY <1>2, <1>3

\* What stands for characters that would be markup.
Entities == {"&", "l", "t", Semicolon, "q", "u", "o", "a", "m", "p"}

\* The characters that are replaced, and by what.
LEMMA MarkupProps ==
  /\ DOMAIN Markup = {"<", Quote, "&"} /\ Quote \notin Entities
  /\ \A c \in DOMAIN Markup : Markup[c] \in Seq(Entities)
<1>0. Quote # "<" /\ Quote # "&" /\ Quote \notin Entities
  <2>1. Quote # "<" /\ Quote # "&" /\ Quote # "l" /\ Quote # "t" /\ Quote # Semicolon /\ Quote # "q" /\ Quote # "u"
    BY Zenon DEF Quote, Semicolon
  <2>2. Quote # "o" /\ Quote # "a" /\ Quote # "m" /\ Quote # "p"
    BY Zenon DEF Quote, Semicolon
  <2> QED BY <2>1, <2>2 DEF Entities
<1>5. Semicolon \in Entities
  BY DEF Entities
<1>1. DOMAIN Markup = {"<", Quote, "&"}
  BY DEF Markup
<1>2. Markup["<"] \in Seq(Entities)
  <2>1. Markup["<"] = <<"&", "l", "t", Semicolon>>
    BY <1>0 DEF Markup
  <2> QED BY <2>1 DEF Entities
<1>3. Markup[Quote] \in Seq(Entities)
  <2>1. Markup[Quote] = <<"&", "q", "u", "o", "t", Semicolon>>
    BY <1>0 DEF Markup
  <2> QED BY <2>1 DEF Entities
<1>4. Markup["&"] \in Seq(Entities)
  <2>1. Markup["&"] = <<"&", "a", "m", "p", Semicolon>>
    BY <1>0 DEF Markup
  <2> QED BY <2>1 DEF Entities
<1> QED BY <1>0, <1>1, <1>2, <1>3, <1>4

\* The beginning of a text.
LEMMA ShortenedProps ==
  ASSUME NEW U, NEW text \in Seq(U), NEW n \in Nat
  PROVE  /\ Shortened(text, n) \in Seq(U)
         /\ Len(Shortened(text, n)) = IF Len(text) < n THEN Len(text) ELSE n
         /\ \A i \in 1..Len(Shortened(text, n)) : Shortened(text, n)[i] = text[i]
<1> DEFINE k == IF Len(text) < n THEN Len(text) ELSE n
<1>1. Len(text) \in Nat /\ \A i \in 1..Len(text) : text[i] \in U
  BY LenProperties, ElementOfSeq
<1>2. k \in Nat /\ k <= Len(text)
  BY <1>1
<1>3. Shortened(text, n) = SubSeq(text, 1, k)
  BY DEF Shortened
<1> HIDE DEF k
<1>4. \A i \in 1..k : text[i] \in U
  BY <1>1, <1>2
<1>5. /\ SubSeq(text, 1, k) \in Seq(U)
      /\ Len(SubSeq(text, 1, k)) = IF 1 <= k THEN k - 1 + 1 ELSE 0
      /\ \A i \in 1..(k - 1 + 1) : SubSeq(text, 1, k)[i] = text[1 + i - 1]
  BY <1>2, <1>4, SubSeqProperties
<1>6. k - 1 + 1 = k /\ (~(1 <= k) => k = 0) /\ \A i \in 1..k : 1 + i - 1 = i
  BY <1>2
<1> QED BY <1>3, <1>5, <1>6 DEF k

\* The beginning of a beginning.
LEMMA ShortenedTwice ==
  ASSUME NEW U, NEW text \in Seq(U), NEW n \in Nat, NEW m \in Nat, m <= n
  PROVE  Shortened(Shortened(text, n), m) = Shortened(text, m)
<1> DEFINE s == Shortened(text, n)
           t == Shortened(s, m)
           u == Shortened(text, m)
<1>0. Len(text) \in Nat
  BY LenProperties
<1>1. s \in Seq(U) /\ Len(s) = (IF Len(text) < n THEN Len(text) ELSE n) /\ \A i \in 1..Len(s) : s[i] = text[i]
  BY ShortenedProps
<1> HIDE DEF s
<1>2. t \in Seq(U) /\ Len(t) = (IF Len(s) < m THEN Len(s) ELSE m) /\ \A i \in 1..Len(t) : t[i] = s[i]
  BY <1>1, ShortenedProps
<1>3. u \in Seq(U) /\ Len(u) = (IF Len(text) < m THEN Len(text) ELSE m) /\ \A i \in 1..Len(u) : u[i] = text[i]
  BY ShortenedProps
<1> HIDE DEF t, u
<1>4. Len(t) = Len(u) /\ Len(t) \in Nat /\ Len(t) <= Len(s)
  BY <1>0, <1>1, <1>2, <1>3
<1>5. \A i \in 1..Len(t) : t[i] = u[i]
  BY <1>0, <1>1, <1>2, <1>3, <1>4
<1>6. t = u
  BY <1>2, <1>3, <1>4, <1>5, SeqEqual
<1> QED BY <1>6 DEF t, u, s

\* What is made of one character.
Sanitized(c) == IF c \in DOMAIN Markup THEN Markup[c] ELSE IF c \in Dropped THEN <<>> ELSE <<c>>

\* What a text may be made of that is stored.
Storable(U) == (U \ {"<", Quote}) \cup Entities

\* sanitize_string leaves nothing that is markup.
LEMMA SanitizedType ==
  ASSUME NEW U, NEW text \in Seq(U), NEW n \in Nat
  PROVE  sanitize_string(text, n) \in Seq(Storable(U))
<1> DEFINE kept == Shortened(text, n)
           A == Storable(U)
           parts == [i \in DOMAIN kept |-> Sanitized(kept[i])]
<1>1. kept \in Seq(U)
  BY ShortenedProps
<1> HIDE DEF kept
<1>2. Len(kept) \in Nat /\ DOMAIN kept = 1..Len(kept) /\ \A i \in 1..Len(kept) : kept[i] \in U
  BY <1>1, LenProperties, ElementOfSeq
<1>3. \A c \in U : Sanitized(c) \in Seq(A)
  <2> TAKE c \in U
  <2>1. CASE c \in DOMAIN Markup
    <3>1. Markup[c] \in Seq(Entities)
      BY <2>1, MarkupProps
    <3>2. Entities \subseteq A
      BY DEF Storable
    <3>3. Markup[c] \in Seq(A)
      <4> DEFINE m == Markup[c]
      <4>1. m \in Seq(Entities)
        BY <3>1
      <4> HIDE DEF m, A
      <4>2. Len(m) \in Nat /\ \A i \in 1..Len(m) : m[i] \in A
        BY <3>2, <4>1, LenProperties, ElementOfSeq
      <4>3. m \in Seq(A)
        BY <4>1, <4>2
      <4> QED BY <4>3 DEF m
    <3> QED BY <2>1, <3>3 DEF Sanitized
  <2>2. CASE c \notin DOMAIN Markup /\ c \in Dropped
    <3>1. <<>> \in Seq(A)
      OBVIOUS
    <3> QED BY <2>2, <3>1 DEF Sanitized
  <2>3. CASE c \notin DOMAIN Markup /\ c \notin Dropped
    <3>1. c \in A
      BY <2>3, MarkupProps DEF Storable
    <3>2. <<c>> \in Seq(A)
      BY <3>1
    <3> QED BY <2>3, <3>2 DEF Sanitized
  <2> QED BY <2>1, <2>2, <2>3
<1> HIDE DEF A
<1>4. parts \in Seq(Seq(A))
  BY <1>2, <1>3
<1>5. sanitize_string(text, n) = FlattenSeq(parts)
  BY DEF sanitize_string, Sanitized, kept
<1> HIDE DEF parts
<1> QED BY <1>4, <1>5, FlattenType DEF A

\* A text that is kept is only shortened.
LEMMA SanitizedKept ==
  ASSUME NEW U, NEW text \in Seq(U), NEW n \in Nat, Kept(text)
  PROVE  sanitize_string(text, n) = Shortened(text, n)
<1> DEFINE kept == Shortened(text, n)
<1>0. Len(text) \in Nat /\ DOMAIN text = 1..Len(text)
  BY LenProperties
<1>1. kept \in Seq(U) /\ Len(kept) <= Len(text) /\ \A i \in 1..Len(kept) : kept[i] = text[i]
  <2>1. Len(kept) = IF Len(text) < n THEN Len(text) ELSE n
    BY ShortenedProps
  <2> QED BY <1>0, <2>1, ShortenedProps
<1> HIDE DEF kept
<1>2. Len(kept) \in Nat /\ DOMAIN kept = 1..Len(kept)
  BY <1>1, LenProperties
<1>3. \A i \in DOMAIN kept : Sanitized(kept[i]) = <<kept[i]>>
  <2> TAKE i \in DOMAIN kept
  <2>1. i \in 1..Len(text) /\ kept[i] = text[i]
    BY <1>0, <1>1, <1>2
  <2>2. text[i] \in ToSet(text)
    BY <1>0, <2>1 DEF ToSet
  <2>3. text[i] \notin DOMAIN Markup /\ text[i] \notin Dropped
    BY <2>2 DEF Kept
  <2> QED BY <2>1, <2>3 DEF Sanitized
<1>4. [i \in DOMAIN kept |-> Sanitized(kept[i])] = [i \in DOMAIN kept |-> <<kept[i]>>]
  BY <1>3
<1>5. sanitize_string(text, n) = FlattenSeq([i \in DOMAIN kept |-> Sanitized(kept[i])])
  BY DEF sanitize_string, Sanitized, kept
<1>6. FlattenSeq([i \in DOMAIN kept |-> <<kept[i]>>]) = kept
  BY <1>1, FlattenSingles
<1> QED BY <1>4, <1>5, <1>6 DEF kept

-----------------------------------------------------------------------------
(* The numbers of the SDK. *)

\* A number is written with digits.
LEMMA TextProps ==
  ASSUME NEW n, \E t \in Numerals : Number(t) = n
  PROVE  /\ Text(n) \in Seq(Digit) /\ Len(Text(n)) \in 1..MaxDigits
         /\ Number(Text(n)) = n
<1>1. Text(n) \in Numerals /\ Number(Text(n)) = n
  BY Zenon DEF Text
<1> DEFINE t == Text(n)
<1>2. t \in SeqOf(Digit, MaxDigits) /\ t # <<>>
  BY <1>1 DEF Numerals
<1> HIDE DEF t
<1>3. PICK m \in 0..MaxDigits : t \in [1..m -> Digit]
  BY <1>2 DEF SeqOf
<1>4. t \in Seq(Digit) /\ Len(t) = m
  BY <1>3, MaxDigitsAssumption
<1>5. m # 0
  BY <1>2, <1>4, EmptySeq
<1> QED BY <1>1, <1>3, <1>4, <1>5, MaxDigitsAssumption DEF t

\* All of it is read, and is the number.
LEMMA NumeralProps ==
  ASSUME NEW n \in Nat, \E t \in Numerals : Number(t) = n
  PROVE  Numeral(Text(n)) = Text(n) /\ ValueOf(Text(n)) = n /\ Text(n) # <<>>
<1> DEFINE t == Text(n)
<1>1. t \in Seq(Digit) /\ Len(t) \in 1..MaxDigits /\ Number(t) = n
  BY TextProps
<1> HIDE DEF t
<1>2. Len(t) \in Nat /\ t # <<>> /\ t[1] \in Digit /\ Head(t) = t[1] /\ \A i \in 1..Len(t) : t[i] \in Digit
  <2>1. Len(t) \in Nat /\ 1 \in 1..Len(t) /\ \A i \in 1..Len(t) : t[i] \in Digit
    BY <1>1, MaxDigitsAssumption, ElementOfSeq
  <2>2. t # <<>>
    BY <1>1, <2>1, EmptySeq
  <2> QED BY <1>1, <2>1, <2>2
<1>3. SubSeq(t, 1, Len(t)) = t
  BY <1>1, SubSeqFull
<1>4. From(t, 1) = t
  BY <1>3 DEF From
<1>5. Span(t, {Space}) = 0
  <2> DEFINE blank == {Space}
  <2>1. t[1] \notin blank
    BY <1>2, Zenon DEF Digit, Space
  <2> HIDE DEF blank
  <2>2. Span(t, blank) \in 0..Len(t) /\ \A i \in 1..Span(t, blank) : t[i] \in blank
    BY <1>1, SpanProps
  <2>3. Span(t, blank) = 0
    BY <1>2, <2>1, <2>2
  <2> QED BY <2>3, Zenon DEF blank
<1>6. Span(t, Digit) = Len(t)
  <2>1. /\ Span(t, Digit) \in 0..Len(t)
        /\ Span(t, Digit) < Len(t) => t[Span(t, Digit) + 1] \notin Digit
    BY <1>1, SpanProps
  <2>2. Span(t, Digit) < Len(t) => Span(t, Digit) + 1 \in 1..Len(t)
    BY <1>2, <2>1
  <2> QED BY <1>2, <2>1, <2>2
<1>7. Head(t) \notin Sign
  BY <1>2 DEF Digit, Sign
<1>8. SignOf(t, Sign) = 0
  BY <1>7 DEF SignOf
<1>9. IntegerSpan(t, Sign) = Len(t)
  <2>1. From(t, 0 + 1) = t
    BY <1>4
  <2>2. IntegerSpan(t, Sign) = Signed(0, InRange(Len(t)))
    BY <1>6, <1>8, <2>1 DEF IntegerSpan
  <2>3. InRange(Len(t)) = Len(t) /\ Len(t) # 0
    BY <1>1, <1>2, MaxDigitsAssumption DEF InRange
  <2> QED BY <1>2, <2>2, <2>3 DEF Signed
<1>10. Numeral(t) = t
  <2>1. From(t, Span(t, {Space}) + 1) = t
    <3>1. 0 + 1 = 1
      OBVIOUS
    <3> QED BY <1>4, <1>5, <3>1, Zenon
  <2> QED BY <1>2, <1>3, <1>9, <2>1, Zenon DEF Numeral
<1>11. ValueOf(t) = n
  BY <1>1, <1>7 DEF ValueOf, Sign
<1> QED BY <1>2, <1>10, <1>11 DEF t

\* Reading such a number gives it.
LEMMA StoullProps ==
  ASSUME NEW n \in Nat, \E t \in Numerals : Number(t) = n
  PROVE  stoull(Text(n)) = n
<1>1. Numeral(Text(n)) = Text(n) /\ ValueOf(Text(n)) = n /\ Text(n) # <<>>
  BY NumeralProps
<1>2. ~(n < 0)
  OBVIOUS
<1> QED BY <1>1, <1>2 DEF stoull

-----------------------------------------------------------------------------
(* What is logged. *)

\* A call of log(), with numbers that can be written and a version that does not end its field.
ValidCall(c) ==
  /\ IsSeq(c.func) /\ IsSeq(c.message) /\ IsSeq(c.version) /\ Unsplit(c.version)
  /\ \A n \in {c.duration, c.ram} : n \in Nat /\ \E t \in Numerals : Number(t) = n

\* What posts of the SDK are made of.
PostChars(c) ==
  ToSet(c.func) \cup ToSet(c.message) \cup ToSet(c.version) \cup Digit \cup {"f", "m", "d", "r", "v", "=", "&"}

\* A text over fewer characters.
LEMMA SeqOver == ASSUME NEW A, NEW B, A \subseteq B, NEW s \in Seq(A) PROVE s \in Seq(B)
<1>1. Len(s) \in Nat /\ DOMAIN s = 1..Len(s) /\ \A i \in 1..Len(s) : s[i] \in B
  BY LenProperties, ElementOfSeq
<1> QED BY <1>1

\* The texts of a call, which its post is made of.
LEMMA CallProps ==
  ASSUME NEW c, ValidCall(c)
  PROVE  /\ c.func \in Seq(PostChars(c)) /\ c.message \in Seq(PostChars(c)) /\ c.version \in Seq(PostChars(c))
         /\ \A n \in {c.duration, c.ram} : Text(n) \in Seq(PostChars(c)) /\ Unsplit(Text(n)) /\ stoull(Text(n)) = n
<1> DEFINE U == PostChars(c)
<1>1. ToSet(c.func) \subseteq U /\ ToSet(c.message) \subseteq U /\ ToSet(c.version) \subseteq U /\ Digit \subseteq U
  BY DEF PostChars
<1>2. c.func \in Seq(ToSet(c.func)) /\ c.message \in Seq(ToSet(c.message)) /\ c.version \in Seq(ToSet(c.version))
  BY DEF ValidCall, IsSeq
<1> HIDE DEF U
<1>3. c.func \in Seq(U) /\ c.message \in Seq(U) /\ c.version \in Seq(U)
  BY <1>1, <1>2, SeqOver
<1>4. ASSUME NEW n \in {c.duration, c.ram} PROVE Text(n) \in Seq(U) /\ Unsplit(Text(n)) /\ stoull(Text(n)) = n
  <2>1. n \in Nat /\ \E t \in Numerals : Number(t) = n
    BY DEF ValidCall
  <2>2. Text(n) \in Seq(Digit) /\ stoull(Text(n)) = n
    BY <2>1, TextProps, StoullProps
  <2> DEFINE t == Text(n)
  <2>3. t \in Seq(Digit)
    BY <2>2
  <2> HIDE DEF t
  <2>4. t \in Seq(U) /\ \A i \in 1..Len(t) : t[i] \in Digit
    BY <1>1, <2>3, SeqOver, ElementOfSeq
  <2>5. Unsplit(t)
    BY <2>4 DEF Unsplit, Digit
  <2> QED BY <2>2, <2>4, <2>5 DEF t
<1> QED BY <1>3, <1>4 DEF U

\* A post of the SDK is a text.
LEMMA PostDataType == ASSUME NEW c, ValidCall(c) PROVE post_data(c) \in Seq(PostChars(c))
<1> DEFINE U == PostChars(c)
<1>1. /\ c.func \in Seq(U) /\ c.message \in Seq(U) /\ c.version \in Seq(U)
      /\ Text(c.duration) \in Seq(U) /\ Text(c.ram) \in Seq(U)
  BY CallProps
<1>2. /\ <<"f", "=">> \in Seq(U) /\ <<"&", "m", "=">> \in Seq(U) /\ <<"&", "d", "=">> \in Seq(U)
      /\ <<"&", "r", "=">> \in Seq(U) /\ <<"&", "v", "=">> \in Seq(U)
  BY DEF PostChars
<1>3. \A s, t \in Seq(U) : s \o t \in Seq(U)
  <2> HIDE DEF U
  <2> QED BY ConcatProperties
<1> HIDE DEF U
<1> DEFINE b1 == <<"f", "=">> \o c.func
           b2 == b1 \o <<"&", "m", "=">> \o c.message
           b3 == b2 \o <<"&", "d", "=">> \o Text(c.duration)
           b4 == b3 \o <<"&", "r", "=">> \o Text(c.ram)
           b5 == b4 \o <<"&", "v", "=">> \o c.version
<1>4. b1 \in Seq(U)
  BY <1>1, <1>2, <1>3
<1>5. b2 \in Seq(U)
  <2> HIDE DEF b1
  <2> QED BY <1>1, <1>2, <1>3, <1>4
<1>6. b3 \in Seq(U)
  <2> HIDE DEF b2
  <2> QED BY <1>1, <1>2, <1>3, <1>5
<1>7. b4 \in Seq(U)
  <2> HIDE DEF b3
  <2> QED BY <1>1, <1>2, <1>3, <1>6
<1>8. b5 \in Seq(U)
  <2> HIDE DEF b4
  <2> QED BY <1>1, <1>2, <1>3, <1>7
<1>9. post_data(c) = b5
  BY DEF post_data
<1> QED BY <1>8, <1>9 DEF U

\* What fields are made of: texts over U that do not end, with these names, put together to posts.
Values(U) == {v \in Seq(U) : Unsplit(v)}
Keys(U)   == {n \in U : n # "&"}
Posts(U)  == {b \in Seq(U) : Len(b) >= 2}

\* The fields of more are this one and those of post, of which there are none at the start.
Opens(U, more, n, v) ==
  \A name \in Keys(U) : \A default : PostParam(more, name, default) = IF name = n THEN v ELSE default
Joins(U, more, n, v, post) ==
  \A name \in Keys(U) : \A default :
    PostParam(more, name, default) = IF name = n THEN v ELSE PostParam(post, name, default)

\* A field that is put behind a post is found, and the others as they were.
LEMMA JoinedFields ==
  ASSUME NEW U, "&" \in U, "=" \in U
  PROVE  /\ \A n \in Keys(U) : \A v \in Values(U) :
              Opening(n, v) \in Posts(U) /\ Opens(U, Opening(n, v), n, v)
         /\ \A b \in Posts(U) : \A n \in Keys(U) : \A v \in Values(U) :
              Joined(b, n, v) \in Posts(U) /\ Joins(U, Joined(b, n, v), n, v, b)
<1>1. ASSUME NEW n \in Keys(U), NEW v \in Values(U), NEW name, NEW default
      PROVE  /\ Opening(n, v) \in Posts(U)
             /\ PostParam(Opening(n, v), name, default) = IF name = n THEN v ELSE default
  BY FirstField DEF Keys, Values, Posts
<1>2. ASSUME NEW b \in Posts(U), NEW n \in Keys(U), NEW v \in Values(U), NEW name, name # "&", NEW default
      PROVE  /\ Joined(b, n, v) \in Posts(U)
             /\ PostParam(Joined(b, n, v), name, default) = IF name = n THEN v ELSE PostParam(b, name, default)
  <2>1. b \in Seq(U) /\ Len(b) >= 2 /\ v \in Seq(U) /\ Unsplit(v) /\ n \in U /\ n # "&"
    BY DEF Keys, Values, Posts
  <2>2. /\ Joined(b, n, v) \in Seq(U) /\ Len(Joined(b, n, v)) >= 2
        /\ PostParam(Joined(b, n, v), name, default) = IF name = n THEN v ELSE PostParam(b, name, default)
    <3>1. PostParam(Joined(b, n, v), name, default) = IF name = n THEN v ELSE PostParam(b, name, default)
      BY <1>2, <2>1, NextField
    <3>2. Joined(b, n, v) \in Seq(U)
      BY <1>2, <2>1, NextField
    <3>3. Len(Joined(b, n, v)) >= 2
      BY <1>2, <2>1, NextField
    <3> QED BY <3>1, <3>2, <3>3
  <2> QED BY <2>2 DEF Posts
<1>3. "=" \in Keys(U) /\ \A name \in Keys(U) : name # "&"
  BY DEF Keys
<1>4. ASSUME NEW n \in Keys(U), NEW v \in Values(U)
      PROVE  Opening(n, v) \in Posts(U) /\ Opens(U, Opening(n, v), n, v)
  <2>1. Opening(n, v) \in Posts(U)
    BY <1>1, <1>3
  <2>2. Opens(U, Opening(n, v), n, v)
    BY <1>1, <1>3 DEF Opens
  <2> QED BY <2>1, <2>2
<1>5. ASSUME NEW b \in Posts(U), NEW n \in Keys(U), NEW v \in Values(U)
      PROVE  Joined(b, n, v) \in Posts(U) /\ Joins(U, Joined(b, n, v), n, v, b)
  <2>1. Joined(b, n, v) \in Posts(U)
    BY <1>2, <1>3
  <2>2. Joins(U, Joined(b, n, v), n, v, b)
    BY <1>2, <1>3 DEF Joins
  <2> QED BY <2>1, <2>2
<1> QED BY <1>4, <1>5

\* The fields of such a post are what the call was made with, where nothing in it ends a field.
LEMMA PostDataFields ==
  ASSUME NEW c, ValidCall(c), Unsplit(c.func), Unsplit(c.message)
  PROVE  /\ \A default : PostParam(post_data(c), "f", default) = c.func
         /\ \A default : PostParam(post_data(c), "m", default) = c.message
         /\ \A default : PostParam(post_data(c), "d", default) = Text(c.duration)
         /\ \A default : PostParam(post_data(c), "r", default) = Text(c.ram)
<1> DEFINE U == PostChars(c)
           b1 == Opening("f", c.func)
           b2 == Joined(b1, "m", c.message)
           b3 == Joined(b2, "d", Text(c.duration))
           b4 == Joined(b3, "r", Text(c.ram))
           b5 == Joined(b4, "v", c.version)
<1>1. /\ c.func \in Values(U) /\ c.message \in Values(U) /\ c.version \in Values(U)
      /\ Text(c.duration) \in Values(U) /\ Text(c.ram) \in Values(U)
  BY CallProps DEF ValidCall, Values
<1>2. /\ "=" \in U /\ "&" \in U
      /\ "f" \in Keys(U) /\ "m" \in Keys(U) /\ "d" \in Keys(U) /\ "r" \in Keys(U) /\ "v" \in Keys(U)
  BY DEF PostChars, Keys
<1> HIDE DEF U
<1>3. b1 \in Posts(U) /\ Opens(U, b1, "f", c.func)
  BY <1>1, <1>2, JoinedFields
<1> HIDE DEF b1
<1>4. b2 \in Posts(U) /\ Joins(U, b2, "m", c.message, b1)
  BY <1>1, <1>2, <1>3, JoinedFields
<1> HIDE DEF b2
<1>5. b3 \in Posts(U) /\ Joins(U, b3, "d", Text(c.duration), b2)
  BY <1>1, <1>2, <1>4, JoinedFields
<1> HIDE DEF b3
<1>6. b4 \in Posts(U) /\ Joins(U, b4, "r", Text(c.ram), b3)
  BY <1>1, <1>2, <1>5, JoinedFields
<1> HIDE DEF b4
<1>7. Joins(U, b5, "v", c.version, b4)
  BY <1>1, <1>2, <1>6, JoinedFields
<1>8. post_data(c) = b5
  BY DEF post_data, b4, b3, b2, b1, Opening, Joined
<1> HIDE DEF b5
<1>9. ASSUME NEW default
      PROVE  /\ PostParam(b5, "f", default) = c.func /\ PostParam(b5, "m", default) = c.message
             /\ PostParam(b5, "d", default) = Text(c.duration) /\ PostParam(b5, "r", default) = Text(c.ram)
  BY <1>2, <1>3, <1>4, <1>5, <1>6, <1>7 DEF Opens, Joins
<1> QED BY <1>8, <1>9

\* A field of a post is a text, where its default is one.
LEMMA ParamType ==
  ASSUME NEW U, NEW body \in Seq(U), NEW default \in Seq(U), NEW name
  PROVE  PostParam(body, name, default) \in Seq(U)
<1> DEFINE P == FieldPlaces(body, name)
<1>1. CASE P = {}
  BY <1>1, ParamDef
<1>2. CASE P # {}
  <2>0. Len(body) \in Nat
    BY LenProperties
  <2>1. P \subseteq 1..Len(body) - 1
    BY DEF FieldPlaces
  <2>2. PostParam(body, name, default) = ValueAt(body, LastOf(P))
    BY <1>2, ParamDef
  <2> HIDE DEF P
  <2>3. LastOf(P) \in P
    <3>1. CASE Len(body) = 0
      <4>1. \A i \in 1..Len(body) - 1 : FALSE
        BY <3>1
      <4> QED BY <1>2, <2>1, <4>1
    <3>2. CASE Len(body) # 0
      <4>1. P \subseteq 0..Len(body) - 1 /\ Len(body) - 1 \in Nat
        BY <2>0, <2>1, <3>2
      <4>2. \E x \in P : \A y \in P : y <= x
        BY <1>2, <4>1, Greatest
      <4> QED BY <4>2 DEF LastOf
    <3> QED BY <3>1, <3>2
  <2>4. LastOf(P) \in Nat /\ LastOf(P) + 1 <= Len(body)
    <3>1. LastOf(P) \in 1..Len(body) - 1
      BY <2>1, <2>3
    <3> QED BY <2>0, <3>1
  <2>5. ValueAt(body, LastOf(P)) \in Seq(U)
    BY <2>4, ValueProps
  <2> QED BY <2>2, <2>5
<1> QED BY <1>1, <1>2

\* What sanitize_string made of any text is no markup, in whatever field it is stored.
LEMMA StoredHarmless ==
  ASSUME NEW U, NEW text \in Seq(U)
  PROVE  LET stored == Field(sanitize_string(text, FieldSize), FieldSize)
         IN {"<", Quote} \cap ToSet(stored) = {}
<1> DEFINE A == Storable(U)
           s == sanitize_string(text, FieldSize)
           stored == Field(s, FieldSize)
<1>1. FieldSize \in Nat /\ FieldSize - 1 \in Nat
  BY TracesAssumption
<1>2. s \in Seq(A)
  BY <1>1, SanitizedType
<1>3. "<" \notin A /\ Quote \notin A
  <2>1. "<" \notin Entities
    <3>1. "<" # Semicolon
      BY Zenon DEF Semicolon
    <3> QED BY <3>1 DEF Entities
  <2> QED BY <2>1, MarkupProps DEF Storable
<1> HIDE DEF A, s
<1>4. stored \in Seq(A)
  BY <1>1, <1>2, ShortenedProps DEF Field
<1> HIDE DEF stored
<1>5. ToSet(stored) \subseteq A
  <2>1. DOMAIN stored = 1..Len(stored)
    BY <1>4, LenProperties
  <2> QED BY <1>4, <2>1, ElementOfSeq DEF ToSet
<1>6. {"<", Quote} \cap ToSet(stored) = {}
  BY <1>3, <1>5
<1> QED BY <1>6 DEF stored, s

\* Whatever is posted, nothing of the trace that is made of it is markup.
LEMMA LoggedHarmless ==
  ASSUME NEW body, IsSeq(body), NEW project, NEW call
  PROVE  Harmless(TraceEntry(project, Logged(body), call))
<1> DEFINE U == ToSet(body) \cup {"unknown", "Trace", "v1"}
           t == TraceEntry(project, Logged(body), call)
<1>1. body \in Seq(ToSet(body)) /\ ToSet(body) \subseteq U
  BY DEF IsSeq
<1>2. <<"unknown">> \in Seq(U) /\ <<"Trace">> \in Seq(U) /\ <<"v1">> \in Seq(U)
  OBVIOUS
<1> HIDE DEF U
<1>3. body \in Seq(U)
  BY <1>1, SeqOver
<1>4. /\ PostParam(body, "f", <<"unknown">>) \in Seq(U)
      /\ PostParam(body, "m", <<"Trace">>) \in Seq(U)
      /\ PostParam(body, "v", <<"v1">>) \in Seq(U)
  BY <1>2, <1>3, ParamType
<1>5. {"<", Quote} \cap ToSet(t.func) = {}
  <2>1. t.func = Field(sanitize_string(PostParam(body, "f", <<"unknown">>), FieldSize), FieldSize)
    BY DEF TraceEntry, Logged
  <2> QED BY <1>4, <2>1, StoredHarmless
<1>6. {"<", Quote} \cap ToSet(t.message) = {}
  <2>1. t.message = Field(sanitize_string(PostParam(body, "m", <<"Trace">>), FieldSize), FieldSize)
    BY DEF TraceEntry, Logged
  <2> QED BY <1>4, <2>1, StoredHarmless
<1>7. {"<", Quote} \cap ToSet(t.version) = {}
  <2>1. t.version = Field(sanitize_string(PostParam(body, "v", <<"v1">>), FieldSize), FieldSize)
    BY DEF TraceEntry, Logged
  <2> QED BY <1>4, <2>1, StoredHarmless
<1> HIDE DEF t
<1>8. Harmless(t)
  BY <1>5, <1>6, <1>7 DEF Harmless
<1> QED BY <1>8 DEF t

\* A trace that is made of a call.
StoredAs(t, c) ==
  Kept(c.func) /\ Kept(c.message) =>
    /\ t.func = Field(c.func, FieldSize) /\ t.message = Field(c.message, FieldSize)
    /\ t.duration = c.duration /\ t.ram = c.ram

\* A text that is kept is stored as far as its field goes.
LEMMA KeptField ==
  ASSUME NEW U, NEW text \in Seq(U), Kept(text)
  PROVE  Unsplit(text) /\ Field(sanitize_string(text, FieldSize), FieldSize) = Field(text, FieldSize)
<1>1. FieldSize \in Nat /\ FieldSize - 1 \in Nat /\ FieldSize - 1 <= FieldSize
  BY TracesAssumption
<1>2. Unsplit(text)
  <2>1. DOMAIN text = 1..Len(text)
    BY LenProperties
  <2>2. \A j \in 1..Len(text) : text[j] \in ToSet(text)
    BY <2>1 DEF ToSet
  <2>3. "&" \in DOMAIN Markup
    BY MarkupProps
  <2> QED BY <2>2, <2>3 DEF Kept, Unsplit
<1>3. sanitize_string(text, FieldSize) = Shortened(text, FieldSize)
  BY <1>1, SanitizedKept
<1>4. Shortened(Shortened(text, FieldSize), FieldSize - 1) = Shortened(text, FieldSize - 1)
  BY <1>1, ShortenedTwice
<1> QED BY <1>2, <1>3, <1>4 DEF Field

\* What the thread of a call posts is stored as the call.
LEMMA PostStoredAs ==
  ASSUME NEW c, ValidCall(c), NEW project, NEW call
  PROVE  StoredAs(TraceEntry(project, Logged(post_data(c)), call), c)
<1> DEFINE t == TraceEntry(project, Logged(post_data(c)), call)
<1> SUFFICES ASSUME Kept(c.func), Kept(c.message)
             PROVE  /\ t.func = Field(c.func, FieldSize) /\ t.message = Field(c.message, FieldSize)
                    /\ t.duration = c.duration /\ t.ram = c.ram
  BY DEF StoredAs
<1>1. c.func \in Seq(PostChars(c)) /\ c.message \in Seq(PostChars(c))
  BY CallProps
<1>2. /\ Unsplit(c.func) /\ Field(sanitize_string(c.func, FieldSize), FieldSize) = Field(c.func, FieldSize)
      /\ Unsplit(c.message) /\ Field(sanitize_string(c.message, FieldSize), FieldSize) = Field(c.message, FieldSize)
  BY <1>1, KeptField
<1>3. /\ PostParam(post_data(c), "f", <<"unknown">>) = c.func
      /\ PostParam(post_data(c), "m", <<"Trace">>) = c.message
      /\ PostParam(post_data(c), "d", <<"0">>) = Text(c.duration)
      /\ PostParam(post_data(c), "r", <<"0">>) = Text(c.ram)
  BY <1>2, PostDataFields
<1>4. stoull(Text(c.duration)) = c.duration /\ stoull(Text(c.ram)) = c.ram
  BY CallProps
<1>5. /\ t.func = Field(sanitize_string(PostParam(post_data(c), "f", <<"unknown">>), FieldSize), FieldSize)
      /\ t.message = Field(sanitize_string(PostParam(post_data(c), "m", <<"Trace">>), FieldSize), FieldSize)
      /\ t.duration = stoull(PostParam(post_data(c), "d", <<"0">>))
      /\ t.ram = stoull(PostParam(post_data(c), "r", <<"0">>))
  BY DEF TraceEntry, Logged
<1> HIDE DEF t
<1> QED BY <1>2, <1>3, <1>4, <1>5

\* A trace that is no markup, and if a call was sent for it, made of that call.
TraceOk(t) ==
  /\ Harmless(t)
  /\ t.call # 0 => /\ t.call \in DOMAIN calls /\ t.call \notin senders
                   /\ StoredAs(t, calls[t.call])

\* Every call is stored once at most.
Once == \A i, j \in DOMAIN traces : i # j => traces[i].call = 0 \/ traces[i].call # traces[j].call

\* What the SDK and the log keep: senders stand for calls that have not been stored.
TraceInv ==
  /\ IsSeq(traces) /\ IsSeq(calls)
  /\ \A i \in DOMAIN calls : ValidCall(calls[i])
  /\ senders \subseteq DOMAIN calls
  /\ sdk.version \in {<<>>, <<"v1">>}
  /\ \A i \in DOMAIN traces : TraceOk(traces[i])
  /\ Once

\* A list is one of what it holds.
LEMMA SeqOwn == ASSUME NEW S, NEW a \in Seq(S) PROVE IsSeq(a)
<1>1. Len(a) \in Nat /\ DOMAIN a = 1..Len(a)
  BY LenProperties
<1> DEFINE T == ToSet(a)
<1>2. \A i \in 1..Len(a) : a[i] \in T
  BY <1>1 DEF ToSet
<1> HIDE DEF T
<1>3. a \in Seq(T)
  BY <1>1, <1>2
<1> QED BY <1>3 DEF IsSeq, T

\* A list with one entry more.
LEMMA AppendKeeps ==
  ASSUME NEW s, IsSeq(s), NEW x
  PROVE  /\ IsSeq(Append(s, x)) /\ Len(s) \in Nat /\ DOMAIN s = 1..Len(s)
         /\ DOMAIN Append(s, x) = DOMAIN s \cup {Len(s) + 1} /\ Len(s) + 1 \notin DOMAIN s
         /\ \A i \in DOMAIN s : Append(s, x)[i] = s[i]
         /\ Append(s, x)[Len(s) + 1] = x
<1> DEFINE S == ToSet(s) \cup {x}
           a == Append(s, x)
<1>1. s \in Seq(ToSet(s)) /\ ToSet(s) \subseteq S /\ x \in S
  BY DEF IsSeq
<1> HIDE DEF S
<1>2. s \in Seq(S) /\ x \in S
  BY <1>1, SeqOver
<1>3. Len(s) \in Nat /\ DOMAIN s = 1..Len(s)
  BY <1>2, LenProperties
<1>4. /\ a \in Seq(S) /\ Len(a) = Len(s) + 1
      /\ \A i \in 1..Len(s) : a[i] = s[i]
      /\ a[Len(s) + 1] = x
  BY <1>2, AppendProperties
<1>5. DOMAIN a = 1..Len(a)
  BY <1>4, LenProperties
<1>6. 1..Len(s) + 1 = 1..Len(s) \cup {Len(s) + 1}
  BY <1>3
<1>7. DOMAIN a = DOMAIN s \cup {Len(s) + 1} /\ Len(s) + 1 \notin DOMAIN s
  BY <1>3, <1>4, <1>5, <1>6
<1> HIDE DEF a
<1>8. IsSeq(a)
  BY <1>4, SeqOwn
<1> QED BY <1>3, <1>4, <1>7, <1>8 DEF a

\* A list into which an entry is inserted has it at one place, and elsewhere what it had; what stood
\* at that place had the same id.
LEMMA InsertedKeeps ==
  ASSUME NEW s, IsSeq(s), NEW x, NEW r \in Inserted(s, x)
  PROVE  \E n : /\ IsSeq(r) /\ n \in DOMAIN r /\ r[n] = x
                /\ \A i \in DOMAIN r \ {n} : i \in DOMAIN s /\ r[i] = s[i]
                /\ \A i \in DOMAIN s : i \in DOMAIN r /\ (i = n => s[i].id = x.id)
<1>1. CASE r = Append(s, x)
  <2> DEFINE n == Len(s) + 1
             a == Append(s, x)
  <2>1. /\ IsSeq(a) /\ DOMAIN a = DOMAIN s \cup {n} /\ n \notin DOMAIN s
        /\ \A i \in DOMAIN s : a[i] = s[i]
        /\ a[n] = x
    BY AppendKeeps
  <2>2. r = a
    BY <1>1
  <2> HIDE DEF n, a
  <2> QED BY <2>1, <2>2
<1>2. CASE \E n \in DOMAIN s : s[n].id = x.id /\ r = [s EXCEPT ![n] = x]
  <2>1. PICK n \in DOMAIN s : s[n].id = x.id /\ r = [s EXCEPT ![n] = x]
    BY <1>2
  <2>2. Len(s) \in Nat /\ DOMAIN s = 1..Len(s) /\ s = [i \in 1..Len(s) |-> s[i]]
    <3>1. s \in Seq(ToSet(s))
      BY DEF IsSeq
    <3> QED BY <3>1, LenProperties, IsASeq
  <2>3. DOMAIN r = 1..Len(s) /\ r[n] = x /\ \A i \in DOMAIN r \ {n} : r[i] = s[i]
    BY <2>1, <2>2
  <2> DEFINE S == ToSet(s) \cup {x}
  <2>4. \A i \in 1..Len(s) : r[i] \in S
    BY <2>2, <2>3 DEF ToSet
  <2> HIDE DEF S
  <2>5. r = [i \in 1..Len(s) |-> r[i]]
    BY <2>1, <2>2
  <2>6. r \in Seq(S)
    BY <2>2, <2>4, <2>5
  <2>7. IsSeq(r)
    BY <2>6, SeqOwn
  <2> QED BY <2>1, <2>2, <2>3, <2>7
<1> QED BY <1>1, <1>2 DEF Inserted

\* What POST /log does to the traces.
LEMMA LogProps ==
  ASSUME NEW a, NEW call, Log(a, call)
  PROVE  /\ UNCHANGED <<sdk, calls>>
         /\ \/ UNCHANGED traces
            \/ \E project : traces' \in Inserted(traces, TraceEntry(project, Logged(a.request.body), call))
<1>1. UNCHANGED <<sdk, calls>>
  BY TracesKeep DEF Answers, Answer
<1>2. UNCHANGED traces \/ LogEvent(a, call, Logged(a.request.body), ProjectOf(a.request.key))
  BY AnswerKeeps DEF Log, KeepsTraces
<1>3. \A logged, project : LogEvent(a, call, logged, project) =>
        UNCHANGED traces \/ traces' \in Inserted(traces, TraceEntry(IF project = 0 THEN 1 ELSE project, logged, call))
  BY AnswerKeeps DEF LogEvent, KeepsTraces
<1> QED BY <1>1, <1>2, <1>3

\* A trace that is stored.
LEMMA StoreStep ==
  ASSUME TraceInv, UNCHANGED <<sdk, calls>>, senders' \subseteq senders,
         NEW t, traces' \in Inserted(traces, t), Harmless(t),
         t.call # 0 => t.call \in senders /\ t.call \notin senders' /\ StoredAs(t, calls[t.call])
  PROVE  TraceInv'
<1>0. IsSeq(traces)
  BY DEF TraceInv
<1>1. PICK n : /\ IsSeq(traces') /\ n \in DOMAIN traces' /\ traces'[n] = t
               /\ \A i \in DOMAIN traces' \ {n} : i \in DOMAIN traces /\ traces'[i] = traces[i]
  BY <1>0, InsertedKeeps
<1>2. ASSUME NEW u, TraceOk(u) PROVE TraceOk(u)'
  BY <1>2 DEF TraceOk, StoredAs
<1>3. TraceOk(t)'
  BY DEF TraceOk, TraceInv, StoredAs
<1>4. \A i \in DOMAIN traces' : TraceOk(traces[i])'
  <2> TAKE i \in DOMAIN traces'
  <2>1. traces'[i] = t \/ (i \in DOMAIN traces /\ traces'[i] = traces[i])
    BY <1>1
  <2>2. CASE traces'[i] = t
    BY <1>3, <2>2 DEF TraceOk, StoredAs, Harmless
  <2>3. CASE i \in DOMAIN traces /\ traces'[i] = traces[i]
    <3>1. TraceOk(traces[i])
      BY <2>3 DEF TraceInv
    <3> QED BY <2>3, <3>1 DEF TraceOk, StoredAs, Harmless
  <2> QED BY <2>1, <2>2, <2>3
<1>5. \A i \in DOMAIN traces : t.call = 0 \/ traces[i].call # t.call
  BY DEF TraceInv, TraceOk
<1>6. Once'
  <2> SUFFICES ASSUME NEW i \in DOMAIN traces', NEW j \in DOMAIN traces', i # j, traces'[i].call # 0
               PROVE  traces'[i].call # traces'[j].call
    BY DEF Once
  <2>1. CASE i # n /\ j # n
    BY <1>1, <2>1 DEF TraceInv, Once
  <2>2. CASE i = n
    BY <1>1, <1>5, <2>2
  <2>3. CASE j = n
    BY <1>1, <1>5, <2>3
  <2> QED BY <1>1, <2>1, <2>2, <2>3
<1> QED BY <1>1, <1>4, <1>6 DEF TraceInv

\* No trace is stored, and perhaps fewer calls have still to be sent.
LEMMA KeepStep ==
  ASSUME TraceInv, UNCHANGED <<traces, calls>>, sdk'.version \in {sdk.version, <<"v1">>}, senders' \subseteq senders
  PROVE  TraceInv'
<1>1. \A i \in DOMAIN traces : TraceOk(traces[i]) => TraceOk(traces[i])'
  BY DEF TraceOk, StoredAs, Harmless
<1>2. Once' = Once
  BY DEF Once
<1> QED BY <1>1, <1>2 DEF TraceInv

\* log() starts a thread that has still to send.
LEMMA CallStep == ASSUME TraceInv, NEW c \in SdkCalls, SdkLog(c) PROVE TraceInv'
<1> DEFINE call == [func |-> c.func, message |-> c.message, duration |-> c.duration,
                    ram |-> c.ram, version |-> sdk.version]
           n == Len(calls) + 1
<1>1. /\ calls' = Append(calls, call) /\ senders' = senders \cup {n} /\ UNCHANGED <<traces, sdk>>
  BY DEF SdkLog, databases, traceVars
<1>2. ValidCall(call)
  <2>1. IsSeq(c.func) /\ IsSeq(c.message) /\ \A k \in {c.duration, c.ram} : k \in Nat /\ \E t \in Numerals : Number(t) = k
    BY TracesAssumption
  <2>2. IsSeq(sdk.version) /\ Unsplit(sdk.version)
    <3>1. CASE sdk.version = <<>>
      BY <3>1 DEF IsSeq, Unsplit
    <3>2. CASE sdk.version = <<"v1">>
      BY <3>2 DEF IsSeq, Unsplit, ToSet
    <3> QED BY <3>1, <3>2 DEF TraceInv
  <2> QED BY <2>1, <2>2 DEF ValidCall
<1> HIDE DEF call
<1>3. /\ IsSeq(calls') /\ DOMAIN calls' = DOMAIN calls \cup {n} /\ n \notin DOMAIN calls
      /\ \A i \in DOMAIN calls : calls'[i] = calls[i]
      /\ calls'[n] = call
  <2> DEFINE a == Append(calls, call)
  <2>1. IsSeq(calls)
    BY DEF TraceInv
  <2>2. /\ IsSeq(a) /\ DOMAIN a = DOMAIN calls \cup {n} /\ n \notin DOMAIN calls
        /\ \A i \in DOMAIN calls : a[i] = calls[i]
        /\ a[n] = call
    BY <2>1, AppendKeeps
  <2>3. calls' = a
    BY <1>1
  <2> HIDE DEF a, n
  <2> QED BY <2>2, <2>3
<1> HIDE DEF n
<1>4. ASSUME NEW i \in DOMAIN traces PROVE TraceOk(traces[i])'
  <2>1. TraceOk(traces[i])
    BY DEF TraceInv
  <2>2. traces'[i] = traces[i] /\ Harmless(traces[i])'
    BY <1>1, <2>1 DEF TraceOk, Harmless
  <2>3. traces[i].call # 0 => /\ traces[i].call \in DOMAIN calls' /\ traces[i].call \notin senders'
                              /\ calls'[traces[i].call] = calls[traces[i].call]
    BY <1>1, <1>3, <2>1 DEF TraceOk
  <2> QED BY <1>1, <2>1, <2>2, <2>3 DEF TraceOk, StoredAs
<1>5. Once'
  BY <1>1 DEF TraceInv, Once
<1>6. \A i \in DOMAIN calls' : ValidCall(calls'[i])
  BY <1>2, <1>3 DEF TraceInv
<1>7. senders' \subseteq DOMAIN calls'
  BY <1>1, <1>3 DEF TraceInv
<1>8. IsSeq(traces') /\ sdk'.version \in {<<>>, <<"v1">>}
  BY <1>1 DEF TraceInv
<1>9. \A i \in DOMAIN traces' : TraceOk(traces[i])'
  BY <1>1, <1>4
<1> QED BY <1>3, <1>5, <1>6, <1>7, <1>8, <1>9 DEF TraceInv

\* The thread of a call posts it.
LEMMA DeliverStep == ASSUME TraceInv, NEW i \in senders, Deliver(i) PROVE TraceInv'
<1> DEFINE c == calls[i]
           a == [form |-> [page |-> None], request |-> Request("POST", <<"/", "log">>, sdk.key, post_data(c))]
<1>1. Log(a, i) /\ senders' = senders \ {i}
  BY DEF Deliver
<1>2. ValidCall(c) /\ IsSeq(post_data(c))
  <2>1. ValidCall(c)
    BY DEF TraceInv
  <2> HIDE DEF c
  <2>2. post_data(c) \in Seq(PostChars(c))
    BY <2>1, PostDataType
  <2> QED BY <2>1, <2>2, SeqOwn
<1>3. a.request.body = post_data(c)
  BY DEF Request
<1> HIDE DEF a
<1>4. /\ UNCHANGED <<sdk, calls>>
      /\ UNCHANGED traces \/ \E project : traces' \in Inserted(traces, TraceEntry(project, Logged(post_data(c)), i))
  BY <1>1, <1>3, LogProps
<1>5. CASE UNCHANGED traces
  BY <1>1, <1>4, <1>5, KeepStep
<1>6. CASE \E project : traces' \in Inserted(traces, TraceEntry(project, Logged(post_data(c)), i))
  <2>1. PICK project : traces' \in Inserted(traces, TraceEntry(project, Logged(post_data(c)), i))
    BY <1>6
  <2> DEFINE t == TraceEntry(project, Logged(post_data(c)), i)
  <2>2. t.call = i
    BY DEF TraceEntry
  <2>3. Harmless(t) /\ StoredAs(t, c)
    BY <1>2, LoggedHarmless, PostStoredAs
  <2>4. traces' \in Inserted(traces, t)
    BY <2>1
  <2> HIDE DEF t
  <2>5. StoredAs(t, calls[t.call])
    BY <2>2, <2>3
  <2> QED BY <1>1, <1>4, <2>2, <2>3, <2>4, <2>5, StoreStep
<1> QED BY <1>4, <1>5, <1>6

\* A request is answered.
LEMMA ServeStep == ASSUME TraceInv, NEW a \in Asks, Serve(a), UNCHANGED senders PROVE TraceInv'
<1>1. Answers(a) /\ (UNCHANGED traces \/ Log(a, 0))
  BY HandlersKeep DEF Serve
<1>2. UNCHANGED <<sdk, calls>>
  BY <1>1 DEF Answers, Answer
<1>3. CASE UNCHANGED traces
  BY <1>2, <1>3, KeepStep
<1>4. CASE Log(a, 0) /\ ~UNCHANGED traces
  <2>1. PICK project : traces' \in Inserted(traces, TraceEntry(project, Logged(a.request.body), 0))
    BY <1>4, LogProps
  <2> DEFINE t == TraceEntry(project, Logged(a.request.body), 0)
  <2>2. t.call = 0
    BY DEF TraceEntry
  <2>3. Harmless(t)
    BY AsksAssumption, LoggedHarmless
  <2>4. traces' \in Inserted(traces, t)
    BY <2>1
  <2> HIDE DEF t
  <2> QED BY <1>2, <2>2, <2>3, <2>4, StoreStep
<1> QED BY <1>1, <1>3, <1>4

\* So these are kept.
LEMMA TracesInvariant == Spec => []TraceInv
<1>1. Init => TraceInv
  <2> SUFFICES ASSUME Init PROVE TraceInv
    OBVIOUS
  <2>1. PICK d \in Databases : traces = d.traces
    BY DEF Init
  <2>2. IsSeq(traces) /\ \A i \in DOMAIN traces : traces[i].call = 0 /\ Harmless(traces[i])
    BY <2>1, TracesAssumption
  <2>3. calls = <<>> /\ senders = {} /\ sdk.version = <<>>
    BY DEF Init, Nobody
  <2>4. IsSeq(calls) /\ DOMAIN calls = {}
    BY <2>3 DEF IsSeq
  <2> QED BY <2>2, <2>3, <2>4 DEF TraceInv, TraceOk, Once
<1>2. TraceInv /\ [Next]_vars => TraceInv'
  <2> SUFFICES ASSUME TraceInv, [Next]_vars PROVE TraceInv'
    OBVIOUS
  <2>1. CASE Start \/ Answered \/ Done \/ UNCHANGED vars
    <3>1. UNCHANGED <<traces, calls, senders, sdk>>
      BY <2>1 DEF Start, Answered, Done, vars, databases, traceVars
    <3> QED BY <3>1, KeepStep
  <2>2. CASE Serving /\ \E a \in Asks : Serve(a) /\ UNCHANGED senders
    BY <2>2, ServeStep
  <2>3. CASE Serving /\ \E i \in senders : Deliver(i)
    BY <2>3, DeliverStep
  <2>4. CASE Serving /\ \E c \in SdkCalls : SdkLog(c)
    BY <2>4, CallStep
  <2>5. CASE Serving /\ \E k \in 1..next_project_id - 1 : SdkInit(k, <<"v1">>)
    <3>1. UNCHANGED <<traces, calls, senders>> /\ sdk'.version = <<"v1">>
      BY <2>5 DEF SdkInit, databases, traceVars
    <3> QED BY <3>1, KeepStep
  <2>6. CASE Serving /\ Lose
    <3>1. UNCHANGED <<traces, calls, sdk>> /\ senders' \subseteq senders
      BY <2>6 DEF Lose, databases, traceVars
    <3> QED BY <3>1, KeepStep
  <2> QED BY <2>1, <2>2, <2>3, <2>4, <2>5, <2>6 DEF Next
<1> QED BY <1>1, <1>2, PTL DEF Spec

\* Every call that is logged is stored at most once, and with what it was made where nothing of it is
\* replaced, however many threads send in whatever order; and nothing that is stored is markup
\* (log() of the SDK, POST /log, sanitize_string).
THEOREM CallsAreStoredAsMade == Spec => []TracesAsLogged
<1>1. TraceInv => TracesAsLogged
  BY DEF TraceInv, TraceOk, Once, StoredAs, TracesAsLogged
<1> QED BY <1>1, TracesInvariant, PTL
=============================================================================
