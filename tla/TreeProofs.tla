----------------------------- MODULE TreeProofs -----------------------------
(***************************************************************************)
(* Proofs about BTree, for every Degree >= 2, set of keys and values.       *)
(*                                                                          *)
(* The first part is about the node operations, what a split does to a tree *)
(* of nodes, and the invariant of the page file.  The second is about the   *)
(* tree: whatever inserts, page writes and restarts come in which order,    *)
(* the pages below the root are a balanced B-tree with its keys in order,   *)
(* no entry is lost or stored twice, and the whole is the store of          *)
(* KeyStore.                                                                *)
(*                                                                          *)
(* Tree is the inductive invariant. Its witnesses are the pages T of the    *)
(* tree, the height h of each page and the keys R that may stand below it,  *)
(* and it speaks of Cur, the nodes with the writes that are due counted in. *)
(***************************************************************************)
EXTENDS BTree, SequenceTheorems, FiniteSetTheorems, NaturalsInduction,
        WellFoundedInduction, TLAPS

WriteRec == [page: Page, node: Node]

-----------------------------------------------------------------------------
(* Sequences: what InsertAt and SubSeq return. *)

\* What the vector insert of insert_non_full gives: one element more, old ones and the new.
LEMMA InsertAtProps ==
  ASSUME NEW S, NEW s \in Seq(S), NEW e \in S, NEW i \in 1..Len(s) + 1
  PROVE  /\ InsertAt(s, i, e) \in Seq(S)
         /\ Len(InsertAt(s, i, e)) = Len(s) + 1
         /\ \A k \in 1..Len(s) + 1 :
              \/ InsertAt(s, i, e)[k] = e
              \/ \E j \in 1..Len(s) : InsertAt(s, i, e)[k] = s[j]
<1> DEFINE a == SubSeq(s, 1, i - 1)
           c == SubSeq(s, i, Len(s))
<1>0. Len(s) \in Nat /\ i \in 1..Len(s) + 1 /\ i \in Nat
  BY LenProperties
<1>1. /\ a \in Seq(S) /\ Len(a) = i - 1
      /\ \A j \in 1..i - 1 : a[j] = s[j]
  <2>1. \A j \in 1..i - 1 : s[j] \in S
    BY <1>0, ElementOfSeq
  <2> QED BY <1>0, <2>1, SubSeqProperties
<1>2. /\ c \in Seq(S) /\ Len(c) = Len(s) - i + 1
      /\ \A j \in 1..Len(s) - i + 1 : c[j] = s[i + j - 1]
  <2>1. \A j \in i..Len(s) : s[j] \in S
    BY <1>0, ElementOfSeq
  <2> QED BY <1>0, <2>1, SubSeqProperties
<1>3. <<e>> \in Seq(S) /\ Len(<<e>>) = 1 /\ <<e>>[1] = e
  OBVIOUS
<1> HIDE DEF a, c
<1> DEFINE b == a \o <<e>>
<1>4. /\ b \in Seq(S) /\ Len(b) = i
      /\ \A k \in 1..i : b[k] = IF k <= i - 1 THEN a[k] ELSE e
  BY <1>0, <1>1, <1>3, ConcatProperties
<1> HIDE DEF b
<1>5. /\ b \o c \in Seq(S) /\ Len(b \o c) = Len(s) + 1
      /\ \A k \in 1..Len(s) + 1 : (b \o c)[k] = IF k <= i THEN b[k] ELSE c[k - i]
  <2>1. /\ b \o c \in Seq(S) /\ Len(b \o c) = Len(b) + Len(c)
        /\ \A k \in 1..Len(b) + Len(c) :
             (b \o c)[k] = IF k <= Len(b) THEN b[k] ELSE c[k - Len(b)]
    BY <1>2, <1>4, ConcatProperties
  <2> QED BY <1>0, <1>2, <1>4, <2>1
<1>6. InsertAt(s, i, e) = b \o c
  BY DEF InsertAt, a, b, c
<1>7. ASSUME NEW k \in 1..Len(s) + 1
      PROVE  (b \o c)[k] = e \/ \E j \in 1..Len(s) : (b \o c)[k] = s[j]
  <2>1. CASE k <= i - 1
    <3>1. k \in 1..i - 1 /\ k \in 1..i /\ k \in 1..Len(s)
      BY <2>1, <1>0
    <3>2. (b \o c)[k] = s[k]
      BY <3>1, <1>0, <1>1, <1>4, <1>5
    <3> QED BY <3>1, <3>2
  <2>2. CASE k = i
    BY <2>2, <1>0, <1>4, <1>5
  <2>3. CASE i < k
    <3>1. k - i \in 1..Len(s) - i + 1 /\ k - 1 \in 1..Len(s)
      BY <2>3, <1>0
    <3>2. (b \o c)[k] = s[k - 1]
      BY <3>1, <2>3, <1>0, <1>2, <1>5
    <3> QED BY <3>1, <3>2
  <2>4. k <= i - 1 \/ k = i \/ i < k
    BY <1>0
  <2> QED BY <2>1, <2>2, <2>3, <2>4
<1> QED BY <1>5, <1>6, <1>7

\* What the copies of split_child give: elements of the vector, as many as asked for.
LEMMA SubSeqProps ==
  ASSUME NEW S, NEW s \in Seq(S), NEW m \in Nat \ {0}, NEW n \in Nat,
         n <= Len(s), m <= n + 1
  PROVE  /\ SubSeq(s, m, n) \in Seq(S)
         /\ Len(SubSeq(s, m, n)) = n - m + 1
         /\ \A k \in 1..n - m + 1 : \E j \in 1..Len(s) : SubSeq(s, m, n)[k] = s[j]
<1>1. \A i \in m..n : s[i] \in S
  BY ElementOfSeq, LenProperties
<1>2. /\ SubSeq(s, m, n) \in Seq(S)
      /\ Len(SubSeq(s, m, n)) = n - m + 1
      /\ \A k \in 1..n - m + 1 : SubSeq(s, m, n)[k] = s[m + k - 1]
  BY <1>1, SubSeqProperties
<1>3. \A k \in 1..n - m + 1 : m + k - 1 \in 1..Len(s)
  BY LenProperties
<1> QED BY <1>2, <1>3

-----------------------------------------------------------------------------
(* Nodes: what loading, halving and promoting return. *)

\* MAX_KEYS is 2 * DEGREE - 1, a number above 2.
LEMMA MaxKeysProps == MaxKeys \in Nat /\ Degree \in Nat /\ Degree >= 2
                      /\ MaxKeys = 2 * Degree - 1
BY DegreeAssumption DEF MaxKeys

\* A sequence is empty iff its length is 0.
LEMMA EmptySequence ==
  ASSUME NEW S, NEW s \in Seq(S)
  PROVE  /\ Len(s) \in Nat
         /\ DOMAIN s = 1..Len(s)
         /\ s = <<>> <=> Len(s) = 0
OBVIOUS

\* A page of zeros is no sound node, but loads as the empty leaf, which is one.
LEMMA ZeroPageProps ==
  /\ ZeroPage \in Node /\ EmptyLeaf \in Node
  /\ Sound(EmptyLeaf) /\ ~Sound(ZeroPage)
  /\ Load(ZeroPage) = EmptyLeaf
  /\ Linked(ZeroPage) = {} /\ Linked(EmptyLeaf) = {}
  /\ ~Full(EmptyLeaf)
<1>1. ZeroPage \in Node /\ EmptyLeaf \in Node
  BY DEF ZeroPage, EmptyLeaf, Node
<1>2. Sound(EmptyLeaf) /\ ~Sound(ZeroPage) /\ ~Full(EmptyLeaf)
  BY MaxKeysProps DEF ZeroPage, EmptyLeaf, Sound, Full
<1>3. Load(ZeroPage) = EmptyLeaf
  BY MaxKeysProps DEF ZeroPage, EmptyLeaf, Load
<1>4. Linked(ZeroPage) = {} /\ Linked(EmptyLeaf) = {}
  BY DEF ZeroPage, EmptyLeaf, Linked
<1> QED BY <1>1, <1>2, <1>3, <1>4

\* The fields of a node.
LEMMA NodeProps ==
  ASSUME NEW n \in Node
  PROVE  /\ n.leaf \in BOOLEAN
         /\ n.ents \in Seq(Entry) /\ Len(n.ents) \in Nat
         /\ n.kids \in Seq(Page) /\ Len(n.kids) \in Nat
         /\ DOMAIN n.kids = 1..Len(n.kids)
         /\ n = [leaf |-> n.leaf, ents |-> n.ents, kids |-> n.kids]
BY EmptySequence DEF Node

\* deserialize returns a sound node as it was serialized.
LEMMA LoadSound ==
  ASSUME NEW n \in Node, Sound(n)
  PROVE  Load(n) = n
<1>1. n.leaf => n.kids = <<>>
  BY DEF Sound
<1>2. ~n.leaf => n.kids # <<>> /\ ~(Len(n.kids) > MaxKeys + 1)
  BY NodeProps, MaxKeysProps, EmptySequence DEF Sound
<1>3. ~(Len(n.ents) > MaxKeys)
  BY NodeProps, MaxKeysProps DEF Sound
<1>4. Load(n) = [leaf |-> n.leaf, ents |-> n.ents, kids |-> n.kids]
  BY <1>1, <1>2, <1>3, NodeProps DEF Load
<1> QED BY <1>4, NodeProps
\* What a reader gets of a page when every page written is sound.
LEMMA ReadPageSound ==
  ASSUME NEW d, NEW p, NEW size \in Nat, d \in [0..size - 1 -> Node],
         \A q \in DOMAIN d : d[q] = ZeroPage \/ Sound(d[q])
  PROVE  /\ ReadPage(d, p) \in Node
         /\ Sound(ReadPage(d, p))
         /\ p \in DOMAIN d /\ d[p] # ZeroPage => ReadPage(d, p) = d[p]
         /\ ~(p \in DOMAIN d /\ d[p] # ZeroPage) => ReadPage(d, p) = EmptyLeaf
<1>1. CASE p \in DOMAIN d /\ d[p] # ZeroPage
  <2>1. d[p] \in Node /\ Sound(d[p])
    BY <1>1
  <2>2. ReadPage(d, p) = d[p]
    BY <1>1, <2>1, LoadSound DEF ReadPage
  <2> QED BY <1>1, <2>1, <2>2
<1>2. CASE ~(p \in DOMAIN d /\ d[p] # ZeroPage)
  <2>1. ReadPage(d, p) = EmptyLeaf
    BY <1>2, ZeroPageProps DEF ReadPage
  <2> QED BY <1>2, <2>1, ZeroPageProps
<1> QED BY <1>1, <1>2

\* The two halves of a full node are sound, have room and link nothing new.
LEMMA HalvesProps ==
  ASSUME NEW n \in Node, Sound(n), Full(n)
  PROVE  /\ LowerHalf(n) \in Node /\ UpperHalf(n) \in Node
         /\ Sound(LowerHalf(n)) /\ Sound(UpperHalf(n))
         /\ ~Full(LowerHalf(n)) /\ ~Full(UpperHalf(n))
         /\ Linked(LowerHalf(n)) \subseteq Linked(n)
         /\ Linked(UpperHalf(n)) \subseteq Linked(n)
         /\ LowerHalf(n).leaf = n.leaf
         /\ n.ents[Degree] \in Entry
<1> DEFINE le == SubSeq(n.ents, 1, Degree - 1)
           ue == SubSeq(n.ents, Degree + 1, Len(n.ents))
           lk == SubSeq(n.kids, 1, Degree)
           uk == SubSeq(n.kids, Degree + 1, Len(n.kids))
<1>1. /\ Len(n.ents) = 2 * Degree - 1 /\ n.ents \in Seq(Entry)
      /\ n.kids \in Seq(Page) /\ n.leaf \in BOOLEAN
      /\ Degree \in Nat /\ Degree >= 2
      /\ n.leaf => n.kids = <<>>
      /\ ~n.leaf => Len(n.kids) = 2 * Degree
  BY NodeProps, MaxKeysProps DEF Full, Sound
<1>2. le \in Seq(Entry) /\ Len(le) = Degree - 1
  BY <1>1, SubSeqProps
<1>3. ue \in Seq(Entry) /\ Len(ue) = Degree - 1
  BY <1>1, SubSeqProps
<1>4. ~n.leaf =>
        /\ lk \in Seq(Page) /\ Len(lk) = Degree
        /\ \A k \in 1..Degree : \E j \in 1..Len(n.kids) : lk[k] = n.kids[j]
  BY <1>1, SubSeqProps
<1>5. ~n.leaf =>
        /\ uk \in Seq(Page) /\ Len(uk) = Degree
        /\ \A k \in 1..Degree : \E j \in 1..Len(n.kids) : uk[k] = n.kids[j]
  <2> SUFFICES ASSUME ~n.leaf
               PROVE /\ uk \in Seq(Page) /\ Len(uk) = Degree
                     /\ \A k \in 1..Degree : \E j \in 1..Len(n.kids) : uk[k] = n.kids[j]
    OBVIOUS
  <2>1. /\ uk \in Seq(Page) /\ Len(uk) = Len(n.kids) - (Degree + 1) + 1
        /\ \A k \in 1..Len(n.kids) - (Degree + 1) + 1 :
             \E j \in 1..Len(n.kids) : uk[k] = n.kids[j]
    <3>1. Degree + 1 \in Nat \ {0} /\ Len(n.kids) \in Nat
          /\ Degree + 1 <= Len(n.kids) + 1
      BY <1>1
    <3> QED BY <1>1, <3>1, SubSeqProps
  <2>2. Len(n.kids) - (Degree + 1) + 1 = Degree
    BY <1>1
  <2> QED BY <2>1, <2>2
<1>6. LowerHalf(n) = [leaf |-> n.leaf, ents |-> le, kids |-> IF n.leaf THEN <<>> ELSE lk]
  BY DEF LowerHalf
<1>7. UpperHalf(n) = [leaf |-> n.leaf, ents |-> ue, kids |-> IF n.leaf THEN <<>> ELSE uk]
  BY DEF UpperHalf
<1>8. n.ents[Degree] \in Entry
  BY <1>1, ElementOfSeq
<1> HIDE DEF le, ue, lk, uk
<1>9. LowerHalf(n) \in Node /\ UpperHalf(n) \in Node
  BY <1>1, <1>2, <1>3, <1>4, <1>5, <1>6, <1>7 DEF Node
<1>10. /\ Sound(LowerHalf(n)) /\ Sound(UpperHalf(n))
       /\ ~Full(LowerHalf(n)) /\ ~Full(UpperHalf(n))
  BY <1>1, <1>2, <1>3, <1>4, <1>5, <1>6, <1>7, MaxKeysProps DEF Sound, Full
<1>11. Linked(LowerHalf(n)) \subseteq Linked(n)
  <2>1. CASE n.leaf
    BY <2>1, <1>6 DEF Linked
  <2>2. CASE ~n.leaf
    <3>1. DOMAIN lk = 1..Degree /\ DOMAIN n.kids = 1..Len(n.kids)
      BY <2>2, <1>1, <1>4
    <3> QED BY <2>2, <3>1, <1>4, <1>6 DEF Linked
  <2> QED BY <2>1, <2>2
<1>12. Linked(UpperHalf(n)) \subseteq Linked(n)
  <2>1. CASE n.leaf
    BY <2>1, <1>7 DEF Linked
  <2>2. CASE ~n.leaf
    <3>1. DOMAIN uk = 1..Degree /\ DOMAIN n.kids = 1..Len(n.kids)
      BY <2>2, <1>1, <1>5
    <3> QED BY <2>2, <3>1, <1>5, <1>7 DEF Linked
  <2> QED BY <2>1, <2>2
<1> QED BY <1>1, <1>6, <1>8, <1>9, <1>10, <1>11, <1>12

HasRoom(n) ==
  ~n.leaf /\ Len(n.ents) < MaxKeys /\ Len(n.kids) = Len(n.ents) + 1

\* A parent with room takes in a median and the new page; a new root has one
\* child and no entry before that.
LEMMA PromoteProps ==
  ASSUME NEW n \in Node, HasRoom(n),
         NEW i \in 1..Len(n.kids), NEW e \in Entry, NEW q \in Page
  PROVE  /\ Promote(n, i, e, q) \in Node
         /\ Sound(Promote(n, i, e, q))
         /\ Linked(Promote(n, i, e, q)) \subseteq Linked(n) \cup {q}
         /\ ~Promote(n, i, e, q).leaf
         /\ Len(Promote(n, i, e, q).ents) = Len(n.ents) + 1
<1> DEFINE pe == InsertAt(n.ents, i, e)
           pk == InsertAt(n.kids, i + 1, q)
<1>1. /\ n.ents \in Seq(Entry) /\ n.kids \in Seq(Page) /\ n.leaf = FALSE
      /\ Len(n.ents) \in Nat /\ Len(n.kids) = Len(n.ents) + 1 /\ MaxKeys \in Nat
      /\ Len(n.ents) < MaxKeys
  BY NodeProps, MaxKeysProps DEF HasRoom
<1>2. pe \in Seq(Entry) /\ Len(pe) = Len(n.ents) + 1
  <2>1. i \in 1..Len(n.ents) + 1
    BY <1>1
  <2> QED BY <1>1, <2>1, InsertAtProps
<1>3. /\ pk \in Seq(Page) /\ Len(pk) = Len(n.kids) + 1
      /\ \A k \in 1..Len(n.kids) + 1 : pk[k] = q \/ \E j \in 1..Len(n.kids) : pk[k] = n.kids[j]
  <2>1. n.kids \in Seq(Page) /\ i + 1 \in 1..Len(n.kids) + 1
    BY NodeProps
  <2>2. ASSUME NEW ks \in Seq(Page), NEW m \in 1..Len(ks) + 1
        PROVE  /\ InsertAt(ks, m, q) \in Seq(Page) /\ Len(InsertAt(ks, m, q)) = Len(ks) + 1
               /\ \A k \in 1..Len(ks) + 1 :
                     InsertAt(ks, m, q)[k] = q \/ \E j \in 1..Len(ks) : InsertAt(ks, m, q)[k] = ks[j]
    BY InsertAtProps
  <2> QED BY <2>1, <2>2
<1>4. Promote(n, i, e, q) = [leaf |-> n.leaf, ents |-> pe, kids |-> pk]
  BY DEF Promote
<1> HIDE DEF pe, pk
<1>5. Promote(n, i, e, q) \in Node /\ Sound(Promote(n, i, e, q))
  BY <1>1, <1>2, <1>3, <1>4 DEF Node, Sound
<1>6. Linked(Promote(n, i, e, q)) \subseteq Linked(n) \cup {q}
  <2>1. DOMAIN pk = 1..Len(n.kids) + 1 /\ DOMAIN n.kids = 1..Len(n.kids)
    BY <1>1, <1>3
  <2> QED BY <2>1, <1>3, <1>4 DEF Linked
<1> QED BY <1>1, <1>2, <1>4, <1>5, <1>6

\* A node with one entry changed or, when there is room, one added to a leaf.
LEMMA PlacedProps ==
  ASSUME NEW n \in Node, Sound(n), NEW e \in Entry, NEW i \in 1..Len(n.ents) + 1
  PROVE  /\ i <= Len(n.ents) =>
              LET m == [n EXCEPT !.ents = ReplaceAt(@, i, e)]
              IN m \in Node /\ Sound(m) /\ Linked(m) = Linked(n) /\ m.leaf = n.leaf
         /\ n.leaf /\ ~Full(n) =>
              LET m == [n EXCEPT !.ents = InsertAt(@, i, e)]
              IN m \in Node /\ Sound(m) /\ Linked(m) = Linked(n) /\ m.leaf = n.leaf
<1>1. /\ n.ents \in Seq(Entry) /\ Len(n.ents) \in Nat
      /\ n.kids \in Seq(Page) /\ n.leaf \in BOOLEAN /\ MaxKeys \in Nat
  BY NodeProps, MaxKeysProps
<1>2. ASSUME NEW s \in Seq(Entry), Len(s) <= MaxKeys,
             Len(s) = Len(n.ents) \/ n.leaf
      PROVE  LET m == [n EXCEPT !.ents = s]
             IN m \in Node /\ Sound(m) /\ Linked(m) = Linked(n) /\ m.leaf = n.leaf
  <2>1. [n EXCEPT !.ents = s] = [leaf |-> n.leaf, ents |-> s, kids |-> n.kids]
    BY NodeProps
  <2> QED BY <1>1, <1>2, <2>1 DEF Node, Sound, Linked
<1>3. ASSUME i <= Len(n.ents)
      PROVE  ReplaceAt(n.ents, i, e) \in Seq(Entry) /\ Len(ReplaceAt(n.ents, i, e)) = Len(n.ents)
  BY <1>1, <1>3 DEF ReplaceAt
<1>4. InsertAt(n.ents, i, e) \in Seq(Entry) /\ Len(InsertAt(n.ents, i, e)) = Len(n.ents) + 1
  BY <1>1, InsertAtProps
<1>5. Len(n.ents) <= MaxKeys /\ (~Full(n) => Len(n.ents) + 1 <= MaxKeys)
  BY <1>1 DEF Sound, Full
<1> QED BY <1>1, <1>2, <1>3, <1>4, <1>5
-----------------------------------------------------------------------------
(* Induction and recursion over ranks. *)

\* The order of Nat as a relation, for the induction theorems.
LessNat == {ss \in Nat \X Nat : ss[1] < ss[2]}

\* A set of naturals that is not empty has a least member.
LEMMA Least == ASSUME NEW S \in SUBSET Nat, S # {} PROVE \E x \in S : \A y \in S : x <= y
<1>1. IsWellFoundedOn(LessNat, Nat)
  BY NatLessThanWellFounded DEF OpToRel, LessNat
<1>2. \E x \in S : \A y \in S : ~(<<y, x>> \in LessNat)
  BY <1>1, WFMin
<1>3. ASSUME NEW x \in S, NEW y \in S, ~(<<y, x>> \in LessNat) PROVE x <= y
  <2>1. <<y, x>> \in Nat \X Nat
    OBVIOUS
  <2>2. ~(<<y, x>>[1] < <<y, x>>[2])
    BY <2>1, <1>3 DEF LessNat
  <2> QED BY <2>2
<1> QED BY <1>2, <1>3

\* Induction over Nat: a set that holds 0 and n + 1 with n holds all.
LEMMA NatInd == ASSUME NEW S \in SUBSET Nat, 0 \in S, \A n \in S : n + 1 \in S PROVE S = Nat
<1> SUFFICES ASSUME Nat \ S # {} PROVE FALSE
  OBVIOUS
<1>1. PICK x \in Nat \ S : \A y \in Nat \ S : x <= y
  <2>1. Nat \ S \in SUBSET Nat
    OBVIOUS
  <2> QED BY <2>1, Least
<1>2. x # 0 /\ x - 1 \in Nat
  OBVIOUS
<1>3. x - 1 \in S
  BY <1>1, <1>2
<1>4. (x - 1) + 1 = x
  BY <1>1
<1> QED BY <1>1, <1>3, <1>4

\* What S holds of all of smaller rank it holds of x too.
Inherited(D, S, rank) ==
  /\ rank \in [D -> Nat]
  /\ \A x \in D : (\A y \in D : rank[y] < rank[x] => y \in S) => x \in S

\* Induction over a set with a rank: the pages of a tree, by their height.
LEMMA RankInd ==
  ASSUME NEW D, NEW S, NEW rank, Inherited(D, S, rank)
  PROVE  D \subseteq S
<1>0. /\ rank \in [D -> Nat]
      /\ \A x \in D : (\A y \in D : rank[y] < rank[x] => y \in S) => x \in S
  BY DEF Inherited
<1> SUFFICES ASSUME NEW bad \in D \ S PROVE FALSE
  OBVIOUS
<1> DEFINE M == {rank[x] : x \in D \ S}
<1>1. M \in SUBSET Nat /\ M # {}
  BY <1>0
<1> HIDE DEF M
<1>2. PICK m \in M : \A y \in M : m <= y
  BY <1>1, Least
<1>3. PICK x \in D \ S : rank[x] = m
  BY <1>2 DEF M
<1>4. ASSUME NEW y \in D, rank[y] < rank[x] PROVE y \in S
  <2> SUFFICES ASSUME y \notin S PROVE FALSE
    OBVIOUS
  <2>1. rank[y] \in M
    BY DEF M
  <2>2. m <= rank[y]
    BY <2>1, <1>2
  <2>3. m \in Nat /\ rank[y] \in Nat
    BY <1>0, <1>1
  <2> QED BY <2>2, <2>3, <1>3, <1>4
<1> QED BY <1>0, <1>3, <1>4

\* F[f] at x depends only on what f is for smaller ranks.
Recurses(D, V, rank, F) ==
  /\ rank \in [D -> Nat]
  /\ V # {}
  /\ F \in [[D -> V] -> [D -> V]]
  /\ \A f, g \in [D -> V] : \A x \in D :
        (\A y \in D : rank[y] < rank[x] => f[y] = g[y]) => F[f][x] = F[g][x]

\* A definition that refers only to smaller ranks has a solution.
LEMMA Recursion ==
  ASSUME NEW D, NEW V, NEW rank, NEW F, Recurses(D, V, rank, F)
  PROVE  \E f \in [D -> V] : f = F[f]
<1>0. /\ rank \in [D -> Nat]
      /\ V # {}
      /\ F \in [[D -> V] -> [D -> V]]
      /\ \A f, g \in [D -> V] : \A x \in D :
            (\A y \in D : rank[y] < rank[x] => f[y] = g[y]) => F[f][x] = F[g][x]
  BY DEF Recurses
<1> DEFINE Upto(n, f) == \A x \in D : rank[x] < n => f[x] = F[f][x]
           Approx == {n \in Nat : \E f \in [D -> V] : Upto(n, f)}
<1>1. 0 \in Approx
  <2>0. PICK v0 : v0 \in V
    <3>1. V # {}
      BY <1>0
    <3>2. \E v : v \in V
      BY <3>1, Zenon
    <3> QED BY <3>2
  <2>1. [x \in D |-> v0] \in [D -> V]
    BY <2>0
  <2>2. Upto(0, [x \in D |-> v0])
    <3>1. \A x \in D : ~(rank[x] < 0)
      BY <1>0
    <3> QED BY <3>1
  <2> QED BY <2>1, <2>2
<1>2. ASSUME NEW n \in Approx PROVE n + 1 \in Approx
  <2>1. PICK f \in [D -> V] : Upto(n, f)
    OBVIOUS
  <2>2. F[f] \in [D -> V]
    BY <1>0
  <2>3. ASSUME NEW x \in D, rank[x] < n + 1 PROVE F[f][x] = F[F[f]][x]
    <3>0. rank[x] \in Nat /\ n \in Nat /\ \A y \in D : rank[y] \in Nat
      BY <1>0
    <3>1. \A y \in D : rank[y] < rank[x] => f[y] = F[f][y]
      BY <2>1, <2>3, <3>0
    <3> QED BY <3>1, <2>2, <1>0
  <2>4. Upto(n + 1, F[f])
    BY <2>3
  <2> QED BY <2>2, <2>4
<1>3. Approx = Nat
  <2> HIDE DEF Approx
  <2>1. Approx \in SUBSET Nat
    BY DEF Approx
  <2> QED BY <1>1, <1>2, <2>1, NatInd
<1>4. ASSUME NEW n \in Nat, NEW m \in Nat, n <= m,
             NEW f \in [D -> V], NEW g \in [D -> V], Upto(n, f), Upto(m, g)
      PROVE  \A x \in D : rank[x] < n => f[x] = g[x]
  <2> DEFINE Same == {x \in D : rank[x] < n => f[x] = g[x]}
  <2>1. ASSUME NEW x \in D, \A y \in D : rank[y] < rank[x] => y \in Same PROVE x \in Same
    <3> SUFFICES ASSUME rank[x] < n PROVE f[x] = g[x]
      OBVIOUS
    <3>0. rank[x] \in Nat /\ \A y \in D : rank[y] \in Nat
      BY <1>0
    <3>1. \A y \in D : rank[y] < rank[x] => f[y] = g[y]
      BY <2>1, <3>0
    <3>2. F[f][x] = F[g][x]
      BY <3>1, <1>0
    <3> QED BY <3>0, <3>2, <1>4
  <2>2. D \subseteq Same
    <3> HIDE DEF Same
    <3>1. Inherited(D, Same, rank)
      BY <2>1, <1>0 DEF Inherited
    <3> QED BY <3>1, RankInd
  <2> QED BY <2>2
<1> DEFINE A[n \in Nat] == CHOOSE f \in [D -> V] : Upto(n, f)
<1>5. \A n \in Nat : A[n] \in [D -> V] /\ Upto(n, A[n])
  <2> TAKE n \in Nat
  <2>1. \E f \in [D -> V] : Upto(n, f)
    BY <1>3
  <2>2. A[n] = CHOOSE f \in [D -> V] : Upto(n, f)
    OBVIOUS
  <2> HIDE DEF A, Upto
  <2> QED BY <2>1, <2>2
<1> HIDE DEF A
<1> DEFINE f == [x \in D |-> A[rank[x] + 1][x]]
<1>6. f \in [D -> V]
  BY <1>5, <1>0
<1>7. ASSUME NEW x \in D PROVE f[x] = F[f][x]
  <2> DEFINE g == A[rank[x] + 1]
  <2>0. rank[x] \in Nat /\ rank[x] + 1 \in Nat /\ g \in [D -> V] /\ Upto(rank[x] + 1, g)
    BY <1>5, <1>0
  <2>1. ASSUME NEW y \in D, rank[y] < rank[x] PROVE f[y] = g[y]
    <3>0. rank[y] \in Nat
      BY <1>0
    <3>1. /\ rank[y] + 1 \in Nat /\ rank[y] + 1 <= rank[x] + 1
          /\ A[rank[y] + 1] \in [D -> V] /\ Upto(rank[y] + 1, A[rank[y] + 1])
      BY <3>0, <2>0, <1>5, <2>1
    <3>2. rank[y] < rank[y] + 1
      BY <3>0
    <3> HIDE DEF Upto, g
    <3> QED BY <3>1, <3>2, <2>0, <1>4
  <2>2. F[f][x] = F[g][x]
    <3>1. f \in [D -> V] /\ g \in [D -> V]
      BY <1>6, <2>0
    <3> HIDE DEF f, g
    <3> QED BY <2>1, <3>1, <1>0
  <2>3. f[x] = g[x] /\ g[x] = F[g][x]
    BY <2>0
  <2> QED BY <2>2, <2>3
<1>8. F[f] \in [D -> V]
  BY <1>6, <1>0
<1> HIDE DEF f
<1>9. f = F[f]
  BY <1>6, <1>7, <1>8
<1> QED BY <1>6, <1>9

-----------------------------------------------------------------------------
(* The node operators, position by position. *)

\* The vector insert: what was before the place, the element, what was after.
LEMMA InsertAtIs ==
  ASSUME NEW S, NEW s \in Seq(S), NEW e \in S, NEW i \in 1..Len(s) + 1
  PROVE  \A k \in 1..Len(s) + 1 :
           InsertAt(s, i, e)[k] = IF k < i THEN s[k] ELSE IF k = i THEN e ELSE s[k - 1]
<1> DEFINE a == SubSeq(s, 1, i - 1)
           c == SubSeq(s, i, Len(s))
<1>0. Len(s) \in Nat /\ i \in Nat /\ i >= 1 /\ i <= Len(s) + 1
  BY LenProperties
<1>1. /\ a \in Seq(S) /\ Len(a) = i - 1
      /\ \A j \in 1..i - 1 : a[j] = s[j]
  <2>1. \A j \in 1..i - 1 : s[j] \in S
    BY <1>0, ElementOfSeq
  <2> QED BY <1>0, <2>1, SubSeqProperties
<1>2. /\ c \in Seq(S) /\ Len(c) = Len(s) - i + 1
      /\ \A j \in 1..Len(s) - i + 1 : c[j] = s[i + j - 1]
  <2>1. \A j \in i..Len(s) : s[j] \in S
    BY <1>0, ElementOfSeq
  <2> QED BY <1>0, <2>1, SubSeqProperties
<1>3. <<e>> \in Seq(S) /\ Len(<<e>>) = 1 /\ <<e>>[1] = e
  OBVIOUS
<1> HIDE DEF a, c
<1> DEFINE b == a \o <<e>>
<1>4. /\ b \in Seq(S) /\ Len(b) = i
      /\ \A k \in 1..i : b[k] = IF k <= i - 1 THEN a[k] ELSE e
  BY <1>0, <1>1, <1>3, ConcatProperties
<1> HIDE DEF b
<1>5. \A k \in 1..Len(s) + 1 : (b \o c)[k] = IF k <= i THEN b[k] ELSE c[k - i]
  <2>1. /\ b \o c \in Seq(S) /\ Len(b \o c) = Len(b) + Len(c)
        /\ \A k \in 1..Len(b) + Len(c) :
             (b \o c)[k] = IF k <= Len(b) THEN b[k] ELSE c[k - Len(b)]
    BY <1>2, <1>4, ConcatProperties
  <2> QED BY <1>0, <1>2, <1>4, <2>1
<1>6. InsertAt(s, i, e) = b \o c
  BY DEF InsertAt, a, b, c
<1>7. ASSUME NEW k \in 1..Len(s) + 1
      PROVE  (b \o c)[k] = IF k < i THEN s[k] ELSE IF k = i THEN e ELSE s[k - 1]
  <2>1. CASE k < i
    <3>1. k \in 1..i - 1 /\ k \in 1..i
      BY <2>1, <1>0
    <3> QED BY <2>1, <3>1, <1>0, <1>1, <1>4, <1>5
  <2>2. CASE k = i
    BY <2>2, <1>0, <1>4, <1>5
  <2>3. CASE i < k
    <3>1. k - i \in 1..Len(s) - i + 1 /\ i + (k - i) - 1 = k - 1
      BY <2>3, <1>0
    <3>0. ~(k <= i)
      BY <2>3, <1>0
    <3>2. (b \o c)[k] = c[k - i]
      BY <3>0, <1>5
    <3>3. c[k - i] = s[k - 1]
      BY <3>1, <1>2
    <3>4. ~(k < i) /\ k # i
      BY <2>3, <1>0
    <3> QED BY <3>2, <3>3, <3>4
  <2>4. k < i \/ k = i \/ i < k
    BY <1>0
  <2> QED BY <2>1, <2>2, <2>3, <2>4
<1> QED BY <1>6, <1>7

\* The copies of split_child: the elements from m to n.
LEMMA SubSeqIs ==
  ASSUME NEW S, NEW s \in Seq(S), NEW m \in Nat \ {0}, NEW n \in Nat,
         n <= Len(s), m <= n + 1
  PROVE  /\ SubSeq(s, m, n) \in Seq(S)
         /\ Len(SubSeq(s, m, n)) = n - m + 1
         /\ \A k \in 1..n - m + 1 : SubSeq(s, m, n)[k] = s[m + k - 1]
<1>1. \A i \in m..n : s[i] \in S
  BY ElementOfSeq, LenProperties
<1> QED BY <1>1, SubSeqProperties

\* The lower half has the first DEGREE - 1 entries and DEGREE children.
LEMMA LowerHalfIs ==
  ASSUME NEW n \in Node, Sound(n), Full(n)
  PROVE  LET lo == LowerHalf(n)
         IN /\ Len(lo.ents) = Degree - 1
            /\ \A k \in 1..Degree - 1 : lo.ents[k] = n.ents[k]
            /\ n.leaf => Len(lo.kids) = 0
            /\ ~n.leaf => /\ Len(lo.kids) = Degree
                          /\ \A k \in 1..Degree : lo.kids[k] = n.kids[k]
            /\ lo.leaf = n.leaf
<1>1. /\ Len(n.ents) = 2 * Degree - 1 /\ n.ents \in Seq(Entry)
      /\ n.kids \in Seq(Page) /\ n.leaf \in BOOLEAN
      /\ Degree \in Nat /\ Degree >= 2
      /\ ~n.leaf => Len(n.kids) = 2 * Degree
  BY NodeProps, MaxKeysProps DEF Full, Sound
<1> DEFINE le == SubSeq(n.ents, 1, Degree - 1)
           lk == SubSeq(n.kids, 1, Degree)
<1>2. Len(le) = Degree - 1 /\ \A k \in 1..Degree - 1 : le[k] = n.ents[k]
  BY <1>1, SubSeqIs
<1>3. ~n.leaf => Len(lk) = Degree /\ \A k \in 1..Degree : lk[k] = n.kids[k]
  BY <1>1, SubSeqIs
<1>4. LowerHalf(n) = [leaf |-> n.leaf, ents |-> le, kids |-> IF n.leaf THEN <<>> ELSE lk]
  BY DEF LowerHalf
<1> HIDE DEF le, lk
<1> QED BY <1>1, <1>2, <1>3, <1>4

\* The upper half has the last DEGREE - 1 entries and DEGREE children.
LEMMA UpperHalfIs ==
  ASSUME NEW n \in Node, Sound(n), Full(n)
  PROVE  LET up == UpperHalf(n)
         IN /\ Len(up.ents) = Degree - 1
            /\ \A k \in 1..Degree - 1 : up.ents[k] = n.ents[Degree + k]
            /\ n.leaf => Len(up.kids) = 0
            /\ ~n.leaf => /\ Len(up.kids) = Degree
                          /\ \A k \in 1..Degree : up.kids[k] = n.kids[Degree + k]
            /\ up.leaf = n.leaf
<1>1. /\ Len(n.ents) = 2 * Degree - 1 /\ n.ents \in Seq(Entry)
      /\ n.kids \in Seq(Page) /\ n.leaf \in BOOLEAN
      /\ Degree \in Nat /\ Degree >= 2
      /\ ~n.leaf => Len(n.kids) = 2 * Degree
  BY NodeProps, MaxKeysProps DEF Full, Sound
<1> DEFINE ue == SubSeq(n.ents, Degree + 1, Len(n.ents))
           uk == SubSeq(n.kids, Degree + 1, Len(n.kids))
<1>2. Len(ue) = Degree - 1 /\ \A k \in 1..Degree - 1 : ue[k] = n.ents[Degree + k]
  <2>1. Degree + 1 \in Nat \ {0} /\ Len(n.ents) \in Nat /\ Degree + 1 <= Len(n.ents) + 1
    BY <1>1
  <2>2. /\ Len(ue) = Len(n.ents) - (Degree + 1) + 1
        /\ \A k \in 1..Len(n.ents) - (Degree + 1) + 1 : ue[k] = n.ents[(Degree + 1) + k - 1]
    BY <1>1, <2>1, SubSeqIs
  <2>3. \A k \in 1..Degree - 1 : (Degree + 1) + k - 1 = Degree + k
    BY <1>1
  <2> HIDE DEF ue
  <2> QED BY <1>1, <2>2, <2>3
<1>3. ~n.leaf => Len(uk) = Degree /\ \A k \in 1..Degree : uk[k] = n.kids[Degree + k]
  <2> SUFFICES ASSUME ~n.leaf
               PROVE  Len(uk) = Degree /\ \A k \in 1..Degree : uk[k] = n.kids[Degree + k]
    OBVIOUS
  <2>1. Degree + 1 \in Nat \ {0} /\ Len(n.kids) \in Nat /\ Degree + 1 <= Len(n.kids) + 1
    BY <1>1
  <2>2. /\ Len(uk) = Len(n.kids) - (Degree + 1) + 1
        /\ \A k \in 1..Len(n.kids) - (Degree + 1) + 1 : uk[k] = n.kids[(Degree + 1) + k - 1]
    BY <1>1, <2>1, SubSeqIs
  <2>3. \A k \in 1..Degree : (Degree + 1) + k - 1 = Degree + k
    BY <1>1
  <2> HIDE DEF uk
  <2> QED BY <1>1, <2>2, <2>3
<1>4. UpperHalf(n) = [leaf |-> n.leaf, ents |-> ue, kids |-> IF n.leaf THEN <<>> ELSE uk]
  BY DEF UpperHalf
<1> HIDE DEF ue, uk
<1> QED BY <1>1, <1>2, <1>3, <1>4

\* The parent of a split child: the median at i and the new page after it.
LEMMA PromoteIs ==
  ASSUME NEW n \in Node, HasRoom(n),
         NEW i \in 1..Len(n.kids), NEW e \in Entry, NEW q \in Page
  PROVE  LET pr == Promote(n, i, e, q)
         IN /\ Len(pr.ents) = Len(n.ents) + 1 /\ Len(pr.kids) = Len(n.kids) + 1
            /\ \A k \in 1..Len(n.ents) + 1 :
                 pr.ents[k] = IF k < i THEN n.ents[k] ELSE IF k = i THEN e ELSE n.ents[k - 1]
            /\ \A k \in 1..Len(n.kids) + 1 :
                 pr.kids[k] = IF k < i + 1 THEN n.kids[k]
                              ELSE IF k = i + 1 THEN q ELSE n.kids[k - 1]
            /\ ~pr.leaf
<1> DEFINE pe == InsertAt(n.ents, i, e)
           pk == InsertAt(n.kids, i + 1, q)
<1>1. /\ n.ents \in Seq(Entry) /\ n.kids \in Seq(Page) /\ n.leaf = FALSE
      /\ Len(n.ents) \in Nat /\ Len(n.kids) = Len(n.ents) + 1
  BY NodeProps, MaxKeysProps DEF HasRoom
<1>2. /\ Len(pe) = Len(n.ents) + 1
      /\ \A k \in 1..Len(n.ents) + 1 :
           pe[k] = IF k < i THEN n.ents[k] ELSE IF k = i THEN e ELSE n.ents[k - 1]
  <2>1. n.ents \in Seq(Entry) /\ i \in 1..Len(n.ents) + 1
    BY <1>1
  <2>2. ASSUME NEW es \in Seq(Entry), NEW m \in 1..Len(es) + 1
        PROVE  /\ Len(InsertAt(es, m, e)) = Len(es) + 1
               /\ \A k \in 1..Len(es) + 1 :
                    InsertAt(es, m, e)[k] = IF k < m THEN es[k] ELSE IF k = m THEN e ELSE es[k - 1]
    <3>1. Len(InsertAt(es, m, e)) = Len(es) + 1
      BY InsertAtProps
    <3>2. \A k \in 1..Len(es) + 1 :
            InsertAt(es, m, e)[k] = IF k < m THEN es[k] ELSE IF k = m THEN e ELSE es[k - 1]
      BY InsertAtIs
    <3> QED BY <3>1, <3>2
  <2> QED BY <2>1, <2>2
<1>3. /\ Len(pk) = Len(n.kids) + 1
      /\ \A k \in 1..Len(n.kids) + 1 :
           pk[k] = IF k < i + 1 THEN n.kids[k] ELSE IF k = i + 1 THEN q ELSE n.kids[k - 1]
  <2>1. n.kids \in Seq(Page) /\ i + 1 \in 1..Len(n.kids) + 1
    BY NodeProps
  <2>2. ASSUME NEW ks \in Seq(Page), NEW m \in 1..Len(ks) + 1
        PROVE  /\ Len(InsertAt(ks, m, q)) = Len(ks) + 1
               /\ \A k \in 1..Len(ks) + 1 :
                    InsertAt(ks, m, q)[k] = IF k < m THEN ks[k] ELSE IF k = m THEN q ELSE ks[k - 1]
    <3>1. Len(InsertAt(ks, m, q)) = Len(ks) + 1
      BY InsertAtProps
    <3>2. \A k \in 1..Len(ks) + 1 :
            InsertAt(ks, m, q)[k] = IF k < m THEN ks[k] ELSE IF k = m THEN q ELSE ks[k - 1]
      BY InsertAtIs
    <3> QED BY <3>1, <3>2
  <2> QED BY <2>1, <2>2
<1>4. Promote(n, i, e, q) = [leaf |-> n.leaf, ents |-> pe, kids |-> pk]
  BY DEF Promote
<1> HIDE DEF pe, pk
<1>5. /\ Promote(n, i, e, q).ents = pe /\ Promote(n, i, e, q).kids = pk
      /\ ~Promote(n, i, e, q).leaf
  BY <1>1, <1>4
<1> QED BY <1>2, <1>3, <1>5

-----------------------------------------------------------------------------
(* Trees: c gives the node of each page, T is the set of pages of the tree   *)
(* with root r, h the height of each page.                                   *)

\* x is the i-th child of page p.
Kid(c, p, i, x) == i \in 1..Len(c[p].kids) /\ c[p].kids[i] = x

\* All leaves have height 0, and a child is one lower than its parent.
Levels(c, r, T, h) ==
  \A p \in T : /\ c[p].leaf <=> h[p] = 0
               /\ \A i, x : Kid(c, p, i, x) => x \in T \ {r} /\ h[x] + 1 = h[p]

\* No page is a child twice.
OneParent(c, T) ==
  \A p, q \in T : \A i, j, x : Kid(c, p, i, x) /\ Kid(c, q, j, x) => p = q /\ i = j

\* Every page but the root is a child.
HasParent(c, r, T) == \A x \in T \ {r} : \E p \in T : \E i : Kid(c, p, i, x)

\* Every node but the root has what split_child leaves a half, DEGREE - 1
\* entries, or more.
HalfFull(c, r, T) == \A q \in T \ {r} : Len(c[q].ents) >= Degree - 1

\* No page is above the root.
RootHighest(r, T, h) == \A p \in T : h[p] <= h[r]

\* The pages T with root r are a B-tree, keys aside.
Shape(c, r, T, h) ==
  /\ r \in T
  /\ \A p \in T : Sound(c[p])
  /\ Levels(c, r, T, h)
  /\ OneParent(c, T)
  /\ HasParent(c, r, T)
  /\ HalfFull(c, r, T)
  /\ RootHighest(r, T, h)

\* What c2 is against c when kid, the i-th child of p, has been split.
IsSplit(c, p, i, q, kid, c2) ==
  /\ Kid(c, p, i, kid)
  /\ c2 \in [Page -> Node]
  /\ \A x \in Page \ {kid, q, p} : c2[x] = c[x]
  /\ Len(c2[kid].ents) = Degree - 1 /\ c2[kid].leaf = c[kid].leaf
  /\ \A k \in 1..Degree - 1 : c2[kid].ents[k] = c[kid].ents[k]
  /\ c[kid].leaf => Len(c2[kid].kids) = 0
  /\ ~c[kid].leaf => /\ Len(c2[kid].kids) = Degree
                     /\ \A k \in 1..Degree : c2[kid].kids[k] = c[kid].kids[k]
  /\ Len(c2[q].ents) = Degree - 1 /\ c2[q].leaf = c[kid].leaf
  /\ \A k \in 1..Degree - 1 : c2[q].ents[k] = c[kid].ents[Degree + k]
  /\ c[kid].leaf => Len(c2[q].kids) = 0
  /\ ~c[kid].leaf => /\ Len(c2[q].kids) = Degree
                     /\ \A k \in 1..Degree : c2[q].kids[k] = c[kid].kids[Degree + k]
  /\ Len(c2[p].ents) = Len(c[p].ents) + 1 /\ Len(c2[p].kids) = Len(c[p].kids) + 1
  /\ \A k \in 1..Len(c[p].ents) + 1 :
       c2[p].ents[k] = IF k < i THEN c[p].ents[k]
                       ELSE IF k = i THEN c[kid].ents[Degree] ELSE c[p].ents[k - 1]
  /\ \A k \in 1..Len(c[p].kids) + 1 :
       c2[p].kids[k] = IF k < i + 1 THEN c[p].kids[k]
                       ELSE IF k = i + 1 THEN q ELSE c[p].kids[k - 1]
  /\ ~c2[p].leaf
  /\ Sound(c2[kid]) /\ Sound(c2[q]) /\ Sound(c2[p])

\* The full kid, the i-th child of p, has been split and q is in the tree now.
Divided(c, T, p, i, q, kid, c2) ==
  /\ p \in T /\ kid \in T /\ q \in Page \ T
  /\ HasRoom(c[p]) /\ Kid(c, p, i, kid) /\ Full(c[kid])
  /\ IsSplit(c, p, i, q, kid, c2)

\* A child of a node of the tree and its parent.
LEMMA KidOf ==
  ASSUME NEW c \in [Page -> Node], NEW r, NEW T \in SUBSET Page, NEW h \in [Page -> Nat],
         Shape(c, r, T, h), NEW p \in T, NEW i, NEW x, Kid(c, p, i, x)
  PROVE  /\ x \in T /\ x # r /\ h[x] + 1 = h[p] /\ x # p /\ x \in Page
         /\ c[p] \in Node /\ Sound(c[p]) /\ c[x] \in Node /\ Sound(c[x])
         /\ h[x] \in Nat /\ h[p] \in Nat
<1>1. x \in T \ {r} /\ h[x] + 1 = h[p]
  BY DEF Shape, Levels
<1>2. h[p] \in Nat /\ h[x] \in Nat
  BY <1>1
<1> QED BY <1>1, <1>2 DEF Shape

\* split_child, on the node of the child, the new node and the parent, splits:
\* none of the three is written over by another.
LEMMA SplitAtIs ==
  ASSUME NEW c \in [Page -> Node], NEW kid \in Page, Sound(c[kid]), Full(c[kid]),
         NEW p \in Page, HasRoom(c[p]), NEW i, Kid(c, p, i, kid),
         NEW q \in Page, kid # p, kid # q, p # q,
         NEW c2 \in [Page -> Node], c2[kid] = LowerHalf(c[kid]), c2[q] = UpperHalf(c[kid]),
         c2[p] = Promote(c[p], i, c[kid].ents[Degree], q),
         \A x \in Page \ {kid, q, p} : c2[x] = c[x]
  PROVE  IsSplit(c, p, i, q, kid, c2)
<1>1. /\ c[kid] \in Node /\ c[p] \in Node /\ c[kid].ents[Degree] \in Entry
      /\ i \in 1..Len(c[p].kids)
  BY HalvesProps DEF Kid
<1> DEFINE lo == LowerHalf(c[kid])
           up == UpperHalf(c[kid])
           pr == Promote(c[p], i, c[kid].ents[Degree], q)
<1>2. lo \in Node /\ up \in Node /\ Sound(lo) /\ Sound(up)
  BY <1>1, HalvesProps
<1>3. pr \in Node /\ Sound(pr)
  BY <1>1, PromoteProps
<1>5. /\ Len(lo.ents) = Degree - 1 /\ lo.leaf = c[kid].leaf
      /\ \A k \in 1..Degree - 1 : lo.ents[k] = c[kid].ents[k]
      /\ c[kid].leaf => Len(lo.kids) = 0
      /\ ~c[kid].leaf => /\ Len(lo.kids) = Degree
                         /\ \A k \in 1..Degree : lo.kids[k] = c[kid].kids[k]
  BY <1>1, LowerHalfIs
<1>6. /\ Len(up.ents) = Degree - 1 /\ up.leaf = c[kid].leaf
      /\ \A k \in 1..Degree - 1 : up.ents[k] = c[kid].ents[Degree + k]
      /\ c[kid].leaf => Len(up.kids) = 0
      /\ ~c[kid].leaf => /\ Len(up.kids) = Degree
                         /\ \A k \in 1..Degree : up.kids[k] = c[kid].kids[Degree + k]
  BY <1>1, UpperHalfIs
<1>7. /\ Len(pr.ents) = Len(c[p].ents) + 1 /\ Len(pr.kids) = Len(c[p].kids) + 1
      /\ \A k \in 1..Len(c[p].ents) + 1 :
           pr.ents[k] = IF k < i THEN c[p].ents[k]
                        ELSE IF k = i THEN c[kid].ents[Degree] ELSE c[p].ents[k - 1]
      /\ \A k \in 1..Len(c[p].kids) + 1 :
           pr.kids[k] = IF k < i + 1 THEN c[p].kids[k]
                        ELSE IF k = i + 1 THEN q ELSE c[p].kids[k - 1]
      /\ ~pr.leaf
  BY <1>1, PromoteIs
<1>8. c2[kid] = lo /\ c2[q] = up /\ c2[p] = pr
  OBVIOUS
<1> HIDE DEF lo, up, pr
<1> QED BY <1>2, <1>3, <1>5, <1>6, <1>7, <1>8 DEF IsSplit

\* Splitting a full child keeps the shape of the tree.
LEMMA SplitShape ==
  ASSUME NEW c \in [Page -> Node], NEW r, NEW T \in SUBSET Page, NEW h \in [Page -> Nat],
         Shape(c, r, T, h), NEW p \in T, HasRoom(c[p]),
         NEW i, NEW kid, Kid(c, p, i, kid), Full(c[kid]),
         NEW q \in Page \ T, NEW c2, IsSplit(c, p, i, q, kid, c2)
  PROVE  Shape(c2, r, T \cup {q}, [h EXCEPT ![q] = h[kid]])
<1> DEFINE h2 == [h EXCEPT ![q] = h[kid]]
           T2 == T \cup {q}
           ox(x) == IF x = q THEN kid ELSE x
           oj(x, j) == IF x = q THEN Degree + j ELSE IF x = p /\ j > i + 1 THEN j - 1 ELSE j
           new(x, j) == x = p /\ j = i + 1
<1>0. kid \in T /\ kid # r /\ kid # p /\ h[kid] + 1 = h[p]
  BY KidOf
<1>1. /\ kid \in T \ {r} /\ kid # p /\ kid # q /\ p # q
      /\ c2 \in [Page -> Node]
      /\ \A x \in Page \ {kid, q, p} : c2[x] = c[x]
      /\ \A x \in T2 : Sound(c2[x])
  <2>1. kid \in T \ {r} /\ kid # p /\ kid # q /\ p # q
    BY <1>0
  <2>2. /\ c2 \in [Page -> Node]
        /\ \A x \in Page \ {kid, q, p} : c2[x] = c[x]
        /\ Sound(c2[kid]) /\ Sound(c2[q]) /\ Sound(c2[p])
    BY DEF IsSplit
  <2>3. \A x \in T : Sound(c[x])
    BY DEF Shape
  <2> QED BY <2>1, <2>2, <2>3
<1>2. /\ c[kid] \in Node /\ Sound(c[kid]) /\ Full(c[kid]) /\ c[p] \in Node
      /\ c[kid].leaf \in BOOLEAN /\ c[kid].ents \in Seq(Entry) /\ c[kid].kids \in Seq(Page)
      /\ Degree \in Nat /\ Degree >= 2
  <2>1. c[kid] \in Node /\ Sound(c[kid]) /\ c[p] \in Node
    BY <1>1 DEF Shape
  <2> QED BY <2>1, MaxKeysProps, NodeProps
<1>3. /\ Len(c2[kid].ents) = Degree - 1 /\ c2[kid].leaf = c[kid].leaf
      /\ c[kid].leaf => Len(c2[kid].kids) = 0
      /\ ~c[kid].leaf => /\ Len(c2[kid].kids) = Degree
                         /\ \A k \in 1..Degree : c2[kid].kids[k] = c[kid].kids[k]
  BY DEF IsSplit
<1>4. /\ Len(c2[q].ents) = Degree - 1 /\ c2[q].leaf = c[kid].leaf
      /\ c[kid].leaf => Len(c2[q].kids) = 0
      /\ ~c[kid].leaf => /\ Len(c2[q].kids) = Degree
                         /\ \A k \in 1..Degree : c2[q].kids[k] = c[kid].kids[Degree + k]
  BY DEF IsSplit
<1>5. /\ Len(c2[p].ents) = Len(c[p].ents) + 1 /\ Len(c2[p].kids) = Len(c[p].kids) + 1
      /\ \A k \in 1..Len(c[p].kids) + 1 :
           c2[p].kids[k] = IF k < i + 1 THEN c[p].kids[k]
                           ELSE IF k = i + 1 THEN q ELSE c[p].kids[k - 1]
      /\ ~c2[p].leaf
  BY DEF IsSplit
<1>6. /\ Len(c[p].kids) \in Nat /\ Len(c[p].ents) \in Nat /\ ~c[p].leaf
      /\ i \in Nat /\ i >= 1 /\ i <= Len(c[p].kids)
      /\ ~c[kid].leaf => Len(c[kid].kids) = 2 * Degree
  <2>1. /\ Len(c[p].kids) \in Nat /\ Len(c[p].ents) \in Nat /\ ~c[p].leaf
          /\ i \in 1..Len(c[p].kids)
    BY <1>2, NodeProps DEF HasRoom, Kid
  <2>2. ~c[kid].leaf => Len(c[kid].kids) = 2 * Degree
    BY <1>2, MaxKeysProps DEF Full, Sound
  <2> QED BY <2>1, <2>2
<1>7. /\ Levels(c, r, T, h) /\ OneParent(c, T) /\ HasParent(c, r, T) /\ HalfFull(c, r, T)
      /\ r \in T
  BY DEF Shape
<1>8. \A x \in T : c[x] \in Node /\ Len(c[x].kids) \in Nat /\ Len(c[x].ents) \in Nat
  BY NodeProps
<1>9. /\ h2 \in [Page -> Nat] /\ h2[q] = h[kid] /\ \A x \in T : h2[x] = h[x]
  BY <1>1
<1> HIDE DEF h2
<1>10. ASSUME NEW x \in T2, NEW j, NEW t, Kid(c2, x, j, t), ~new(x, j)
       PROVE  ox(x) \in T /\ Kid(c, ox(x), oj(x, j), t)
  <2>0. j \in 1..Len(c2[x].kids) /\ c2[x].kids[j] = t
    BY <1>10 DEF Kid
  <2>1. CASE x = kid
    <3>1. ~c[kid].leaf /\ j \in 1..Degree
      BY <2>0, <2>1, <1>2, <1>3
    <3>2. j \in 1..Len(c[kid].kids) /\ c2[kid].kids[j] = c[kid].kids[j]
      BY <3>1, <1>2, <1>3, <1>6
    <3>3. ox(x) = kid /\ oj(x, j) = j
      BY <2>1, <1>1
    <3> HIDE DEF ox, oj
    <3> QED BY <2>0, <2>1, <3>2, <3>3, <1>1 DEF Kid
  <2>2. CASE x = q
    <3>1. ~c[kid].leaf /\ j \in 1..Degree
      BY <2>0, <2>2, <1>2, <1>4
    <3>2. Degree + j \in 1..2 * Degree
      BY <3>1, <1>2
    <3>3. Degree + j \in 1..Len(c[kid].kids) /\ c2[q].kids[j] = c[kid].kids[Degree + j]
      BY <3>1, <3>2, <1>4, <1>6
    <3>4. ox(x) = kid /\ oj(x, j) = Degree + j
      BY <2>2
    <3> HIDE DEF ox, oj
    <3> QED BY <2>0, <2>2, <3>3, <3>4, <1>1 DEF Kid
  <2>3. CASE x = p
    <3>1. j \in 1..Len(c[p].kids) + 1 /\ j # i + 1
      BY <2>0, <2>3, <1>5, <1>10
    <3>2. CASE j > i + 1
      <4>1. j - 1 \in 1..Len(c[p].kids) /\ c2[p].kids[j] = c[p].kids[j - 1]
        BY <3>1, <3>2, <1>5, <1>6
      <4>2. ox(x) = p /\ oj(x, j) = j - 1
        BY <2>3, <3>2, <1>1
      <4> HIDE DEF ox, oj
      <4> QED BY <2>0, <2>3, <4>1, <4>2 DEF Kid
    <3>3. CASE j < i + 1
      <4>1. j \in 1..Len(c[p].kids) /\ c2[p].kids[j] = c[p].kids[j]
        BY <3>1, <3>3, <1>5, <1>6
      <4>2. ox(x) = p /\ oj(x, j) = j
        BY <2>3, <3>1, <3>3, <1>1, <1>6
      <4> HIDE DEF ox, oj
      <4> QED BY <2>0, <2>3, <4>1, <4>2 DEF Kid
    <3> QED BY <3>1, <3>2, <3>3, <1>6
  <2>4. CASE x \notin {kid, q, p}
    <3>1. c2[x] = c[x] /\ x \in T /\ ox(x) = x /\ oj(x, j) = j
      BY <2>4, <1>1
    <3> HIDE DEF ox, oj
    <3> QED BY <2>0, <3>1 DEF Kid
  <2> QED BY <2>1, <2>2, <2>3, <2>4
<1>11. Kid(c2, p, i + 1, q)
  <2>1. i + 1 \in 1..Len(c[p].kids) + 1 /\ ~(i + 1 < i + 1)
    BY <1>6
  <2>2. c2[p].kids[i + 1] = q
    BY <2>1, <1>5
  <2> QED BY <2>1, <2>2, <1>5 DEF Kid
<1>12. Levels(c2, r, T2, h2)
  <2> SUFFICES ASSUME NEW x \in T2
               PROVE  /\ c2[x].leaf <=> h2[x] = 0
                      /\ \A j, t : Kid(c2, x, j, t) => t \in T2 \ {r} /\ h2[t] + 1 = h2[x]
    BY DEF Levels
  <2>1. c2[x].leaf <=> h2[x] = 0
    <3>1. \A y \in T : c[y].leaf <=> h[y] = 0
      BY <1>7 DEF Levels
    <3>2. CASE x \in {kid, q}
      BY <3>1, <3>2, <1>1, <1>3, <1>4, <1>9
    <3>3. CASE x = p
      BY <3>1, <3>3, <1>1, <1>5, <1>6, <1>9
    <3>4. CASE x \notin {kid, q, p}
      BY <3>1, <3>4, <1>1, <1>9
    <3> QED BY <3>2, <3>3, <3>4
  <2>2. ASSUME NEW j, NEW t, Kid(c2, x, j, t)
        PROVE  t \in T2 \ {r} /\ h2[t] + 1 = h2[x]
    <3>1. CASE new(x, j)
      <4>1. t = q
        BY <2>2, <3>1, <1>11 DEF Kid
      <4> QED BY <3>1, <4>1, <1>0, <1>1, <1>7, <1>9
    <3>2. CASE ~new(x, j)
      <4>1. ox(x) \in T /\ Kid(c, ox(x), oj(x, j), t)
        BY <2>2, <3>2, <1>10
      <4>2. h2[x] = h[ox(x)]
        BY <1>1, <1>9
      <4> HIDE DEF ox, oj
      <4>3. t \in T \ {r} /\ h[t] + 1 = h[ox(x)]
        BY <4>1, <1>7 DEF Levels
      <4> QED BY <4>2, <4>3, <1>9
    <3> QED BY <3>1, <3>2
  <2> QED BY <2>1, <2>2
<1>13. OneParent(c2, T2)
  <2> SUFFICES ASSUME NEW x \in T2, NEW y \in T2, NEW j, NEW k, NEW t,
                      Kid(c2, x, j, t), Kid(c2, y, k, t)
               PROVE  x = y /\ j = k
    BY DEF OneParent
  <2>1. ASSUME NEW z \in T, NEW l PROVE ~Kid(c, z, l, q)
    BY <2>1, <1>7 DEF Levels
  <2>2. CASE new(x, j)
    <3>1. t = q
      BY <2>2, <1>11 DEF Kid
    <3>2. new(y, k)
      <4> SUFFICES ASSUME ~new(y, k) PROVE FALSE
        OBVIOUS
      <4>1. ox(y) \in T /\ Kid(c, ox(y), oj(y, k), t)
        BY <1>10
      <4> HIDE DEF ox, oj
      <4> QED BY <2>1, <3>1, <4>1
    <3> QED BY <2>2, <3>2
  <2>3. CASE ~new(x, j)
    <3>1. ox(x) \in T /\ Kid(c, ox(x), oj(x, j), t)
      BY <2>3, <1>10
    <3>2. ~new(y, k)
      <4>1. t # q
        <5> HIDE DEF ox, oj
        <5> QED BY <3>1, <2>1
      <4> QED BY <4>1, <1>11 DEF Kid
    <3>3. ox(y) \in T /\ Kid(c, ox(y), oj(y, k), t)
      BY <3>2, <1>10
    <3>4. ox(x) = ox(y) /\ oj(x, j) = oj(y, k)
      <4> HIDE DEF ox, oj
      <4> QED BY <3>1, <3>3, <1>7 DEF OneParent
    <3>5. j \in 1..Len(c2[x].kids) /\ k \in 1..Len(c2[y].kids)
      BY DEF Kid
    <3>6. (x = kid => j \in 1..Degree) /\ (y = kid => k \in 1..Degree)
      BY <3>5, <1>2, <1>3
    <3>7. j \in Nat /\ k \in Nat /\ j >= 1 /\ k >= 1
      <4>1. Len(c2[x].kids) \in Nat /\ Len(c2[y].kids) \in Nat
        <5>1. c2[x] \in Node /\ c2[y] \in Node
          BY <1>1
        <5> QED BY <5>1, NodeProps
      <4> QED BY <3>5, <4>1
    <3>8. x = y
      BY <3>4, <3>6, <3>7, <1>1, <1>2
    <3>9. j = k
      <4>1. ~(x = p /\ j = i + 1) /\ ~(x = p /\ k = i + 1)
        BY <3>8, <2>3, <3>2
      <4>2. CASE x = q
        BY <4>2, <3>8, <3>4, <3>7, <1>2
      <4>3. CASE x = p
        BY <4>1, <4>3, <3>8, <3>4, <3>7, <1>1, <1>6
      <4>4. CASE x \notin {q, p}
        BY <4>4, <3>8, <3>4
      <4> QED BY <4>2, <4>3, <4>4
    <3> QED BY <3>8, <3>9
  <2> QED BY <2>2, <2>3
<1>14. HasParent(c2, r, T2)
  <2> SUFFICES ASSUME NEW y \in T2 \ {r}
               PROVE  \E x \in T2 : \E j : Kid(c2, x, j, y)
    BY DEF HasParent
  <2>1. CASE y = q
    BY <2>1, <1>11
  <2>2. CASE y # q
    <3>1. PICK x \in T : \E j : Kid(c, x, j, y)
      BY <2>2, <1>7 DEF HasParent
    <3>2. PICK j : Kid(c, x, j, y)
      BY <3>1
    <3>0. j \in 1..Len(c[x].kids) /\ c[x].kids[j] = y
      BY <3>2 DEF Kid
    <3>3. CASE x = kid
      <4>1. ~c[kid].leaf /\ j \in 1..2 * Degree
        <5>1. c[kid].leaf => Len(c[kid].kids) = 0
          BY <1>2, NodeProps DEF Sound
        <5> QED BY <3>0, <3>3, <5>1, <1>6
      <4>2. CASE j <= Degree
        <5>0. j \in 1..Degree
          BY <4>1, <4>2, <1>2
        <5>1. Kid(c2, kid, j, y)
          BY <3>0, <3>3, <4>1, <5>0, <1>3 DEF Kid
        <5> QED BY <5>1, <1>1
      <4>3. CASE j > Degree
        <5>1. j - Degree \in 1..Degree /\ Degree + (j - Degree) = j
          BY <4>1, <4>3, <1>2
        <5>2. Kid(c2, q, j - Degree, y)
          BY <3>0, <3>3, <4>1, <5>1, <1>4 DEF Kid
        <5> QED BY <5>2
      <4> QED BY <4>1, <4>2, <4>3, <1>2
    <3>4. CASE x = p
      <4>1. CASE j < i + 1
        <5>0. j \in 1..Len(c[p].kids) + 1 /\ c2[p].kids[j] = c[p].kids[j]
          BY <3>0, <3>4, <4>1, <1>5, <1>6
        <5>1. Kid(c2, p, j, y)
          BY <3>0, <3>4, <5>0, <1>5 DEF Kid
        <5> QED BY <5>1
      <4>2. CASE j >= i + 1
        <5>1. /\ j + 1 \in 1..Len(c[p].kids) + 1 /\ ~(j + 1 < i + 1) /\ j + 1 # i + 1
              /\ (j + 1) - 1 = j
          BY <3>0, <3>4, <4>2, <1>6
        <5>2. Kid(c2, p, j + 1, y)
          BY <3>0, <3>4, <5>1, <1>5 DEF Kid
        <5> QED BY <5>2
      <4> QED BY <4>1, <4>2, <1>6, <3>0, <3>4
    <3>5. CASE x \notin {kid, p}
      <4>1. c2[x] = c[x]
        BY <3>5, <1>1
      <4>2. Kid(c2, x, j, y)
        BY <3>0, <4>1 DEF Kid
      <4> QED BY <4>2
    <3> QED BY <3>3, <3>4, <3>5
  <2> QED BY <2>1, <2>2
<1>15. HalfFull(c2, r, T2)
  <2> SUFFICES ASSUME NEW y \in T2 \ {r} PROVE Len(c2[y].ents) >= Degree - 1
    BY DEF HalfFull
  <2>1. y \in T => Len(c[y].ents) >= Degree - 1
    BY <1>7 DEF HalfFull
  <2>2. CASE y \in {kid, q}
    BY <2>2, <1>2, <1>3, <1>4
  <2>3. CASE y = p
    BY <2>1, <2>3, <1>2, <1>5, <1>6
  <2>4. CASE y \notin {kid, q, p}
    BY <2>1, <2>4, <1>1
  <2> QED BY <2>2, <2>3, <2>4
<1>16. RootHighest(r, T2, h2)
  <2>1. \A y \in T : h[y] <= h[r]
    BY DEF Shape, RootHighest
  <2> QED BY <2>1, <1>0, <1>7, <1>9 DEF RootHighest
<1> QED BY <1>1, <1>7, <1>12, <1>13, <1>14, <1>15, <1>16 DEF Shape, h2

-----------------------------------------------------------------------------
(* Keys: g is the least gap between two keys (0 when keys may be repeated, 1 *)
(* when not) and R gives the keys that may stand below each page.            *)

\* Keys ascend, by g at least.
Ascending(g, s) == \A i, j \in 1..Len(s) : i < j => s[i].key + g <= s[j].key

\* The keys of X that may stand in the i-th child of a node with entries s.
Span(g, X, s, i) ==
  {x \in X : /\ i > 1 => s[i - 1].key + g <= x
             /\ i <= Len(s) => x + g <= s[i].key}

\* The keys of X that may stand before the key m, and those that may stand
\* after it.
UpTo(g, X, m) == {x \in X : x + g <= m}
From(g, X, m) == {x \in X : m + g <= x}

\* R2 is R with the keys below kid parted at its median, the upper ones for q.
Parted(g, c, T, R, kid, q, R2) ==
  /\ R2[kid] = UpTo(g, R[kid], c[kid].ents[Degree].key)
  /\ R2[q] = From(g, R[kid], c[kid].ents[Degree].key)
  /\ \A x \in T : x # kid => R2[x] = R[x]

\* Keys ascend in each node and stand where the entries above allow: what the
\* descent of insert_non_full and the search for a key rely on.
Keyed(g, c, r, T, R) ==
  /\ R[r] = Int
  /\ \A p \in T : /\ Ascending(g, c[p].ents)
                  /\ \A i \in 1..Len(c[p].ents) : c[p].ents[i].key \in R[p]
  /\ \A p \in T : \A i, x : Kid(c, p, i, x) => R[x] = Span(g, R[p], c[p].ents, i)

\* Keys are integers.
LEMMA EntryKeys ==
  ASSUME NEW n \in Node
  PROVE  /\ n.ents \in Seq(Entry) /\ Len(n.ents) \in Nat
         /\ \A i \in 1..Len(n.ents) : n.ents[i] \in Entry /\ n.ents[i].key \in Int
<1>1. n.ents \in Seq(Entry) /\ Len(n.ents) \in Nat
  BY NodeProps
<1>2. \A e \in Entry : e.key \in Int
  BY KeyAssumption DEF Entry
<1> QED BY <1>1, <1>2, ElementOfSeq

\* Splitting a full child keeps keys in order and within the spans of the pages
\* above: kid keeps the keys up to the median's, q gets those from it on.
LEMMA SplitKeyed ==
  ASSUME NEW g \in Nat,
         NEW c \in [Page -> Node], NEW r, NEW T \in SUBSET Page, NEW h \in [Page -> Nat],
         NEW R \in [Page -> SUBSET Int],
         Shape(c, r, T, h), Keyed(g, c, r, T, R), NEW p \in T, HasRoom(c[p]),
         NEW i, NEW kid, Kid(c, p, i, kid), Full(c[kid]),
         NEW q \in Page \ T, NEW c2, IsSplit(c, p, i, q, kid, c2),
         NEW R2, Parted(g, c, T, R, kid, q, R2)
  PROVE  Keyed(g, c2, r, T \cup {q}, R2)
<1> DEFINE T2 == T \cup {q}
           m == c[kid].ents[Degree].key
<1> HIDE DEF m
<1>1. /\ kid \in T /\ kid # r /\ kid # p /\ kid # q /\ p # q /\ r # q /\ r \in T
      /\ kid \in Page /\ p \in Page
      /\ c2 \in [Page -> Node]
      /\ \A x \in Page \ {kid, q, p} : c2[x] = c[x]
  <2>1. kid \in T /\ kid # r /\ kid # p
    BY KidOf
  <2>2. /\ c2 \in [Page -> Node]
        /\ \A x \in Page \ {kid, q, p} : c2[x] = c[x]
    BY DEF IsSplit
  <2>3. r \in T
    BY DEF Shape
  <2> QED BY <2>1, <2>2, <2>3
<1>2. /\ R2[kid] = {x \in R[kid] : x + g <= m} /\ R2[q] = {x \in R[kid] : m + g <= x}
      /\ \A x \in T \ {kid} : R2[x] = R[x]
      /\ R[kid] \in SUBSET Int /\ R[p] \in SUBSET Int
  <2>1. m = c[kid].ents[Degree].key
    BY DEF m
  <2> QED BY <2>1, <1>1 DEF Parted, UpTo, From
<1>3. /\ c[kid] \in Node /\ Sound(c[kid]) /\ c[p] \in Node
      /\ Degree \in Nat /\ Degree >= 2
      /\ Len(c[kid].ents) = 2 * Degree - 1
      /\ \A k \in 1..2 * Degree - 1 : c[kid].ents[k].key \in Int /\ c[kid].ents[k].key \in R[kid]
      /\ Ascending(g, c[kid].ents)
  <2>1. c[kid] \in Node /\ Sound(c[kid]) /\ c[p] \in Node
    BY <1>1 DEF Shape
  <2>2. Degree \in Nat /\ Degree >= 2 /\ Len(c[kid].ents) = 2 * Degree - 1
    BY MaxKeysProps DEF Full
  <2>3. /\ Ascending(g, c[kid].ents)
        /\ \A k \in 1..Len(c[kid].ents) : c[kid].ents[k].key \in R[kid]
    BY <1>1 DEF Keyed
  <2>4. \A k \in 1..Len(c[kid].ents) : c[kid].ents[k].key \in Int
    BY <2>1, EntryKeys
  <2> QED BY <2>1, <2>2, <2>3, <2>4
<1>31. Degree \in Nat /\ Degree >= 2 /\ Len(c[kid].ents) = 2 * Degree - 1
  BY <1>3
<1>4. m \in Int /\ m \in R[kid]
  <2>1. Degree \in 1..2 * Degree - 1
    BY <1>3
  <2> QED BY <2>1, <1>3 DEF m
<1>5. /\ \A k \in 1..Degree - 1 : c[kid].ents[k].key + g <= m
      /\ \A k \in Degree + 1..2 * Degree - 1 : m + g <= c[kid].ents[k].key
  <2>1. Degree \in 1..Len(c[kid].ents)
    BY <1>3
  <2>2. ASSUME NEW k \in 1..Degree - 1 PROVE c[kid].ents[k].key + g <= m
    <3>1. k \in 1..Len(c[kid].ents) /\ k < Degree
      BY <1>3
    <3> QED BY <2>1, <3>1, <1>3 DEF Ascending, m
  <2>3. ASSUME NEW k \in Degree + 1..2 * Degree - 1 PROVE m + g <= c[kid].ents[k].key
    <3>1. k \in 1..Len(c[kid].ents) /\ Degree < k
      BY <1>31
    <3> QED BY <2>1, <3>1, <1>3 DEF Ascending, m
  <2> QED BY <2>2, <2>3
<1>6. R[kid] = Span(g, R[p], c[p].ents, i)
  BY DEF Keyed
<1>7. /\ Len(c[p].ents) \in Nat /\ Len(c[p].kids) = Len(c[p].ents) + 1
      /\ i \in 1..Len(c[p].ents) + 1
      /\ \A k \in 1..Len(c[p].ents) : c[p].ents[k].key \in Int /\ c[p].ents[k].key \in R[p]
      /\ Ascending(g, c[p].ents)
  <2>1. Len(c[p].ents) \in Nat /\ \A k \in 1..Len(c[p].ents) : c[p].ents[k].key \in Int
    BY <1>3, EntryKeys
  <2>2. Len(c[p].kids) = Len(c[p].ents) + 1 /\ i \in 1..Len(c[p].kids)
    BY DEF HasRoom, Kid
  <2>3. /\ \A k \in 1..Len(c[p].ents) : c[p].ents[k].key \in R[p]
        /\ Ascending(g, c[p].ents)
    BY DEF Keyed
  <2> QED BY <2>1, <2>2, <2>3
<1>8. /\ m \in R[p]
      /\ \A k \in 1..i - 1 : c[p].ents[k].key + g <= m
      /\ \A k \in i..Len(c[p].ents) : m + g <= c[p].ents[k].key
  <2>1. /\ m \in R[p]
        /\ i > 1 => c[p].ents[i - 1].key + g <= m
        /\ i <= Len(c[p].ents) => m + g <= c[p].ents[i].key
    BY <1>4, <1>6 DEF Span
  <2>2. ASSUME NEW k \in 1..i - 1 PROVE c[p].ents[k].key + g <= m
    <3>1. i > 1 /\ i - 1 \in 1..Len(c[p].ents) /\ k \in 1..Len(c[p].ents)
      BY <1>7
    <3>2. CASE k = i - 1
      BY <2>1, <3>1, <3>2
    <3>3. CASE k < i - 1
      <4>1. c[p].ents[k].key + g <= c[p].ents[i - 1].key
        BY <3>1, <3>3, <1>7 DEF Ascending
      <4>2. c[p].ents[k].key \in Int /\ c[p].ents[i - 1].key \in Int
        BY <3>1, <1>7
      <4>3. c[p].ents[i - 1].key + g <= m
        BY <2>1, <3>1
      <4> QED BY <4>1, <4>2, <4>3, <1>4
    <3> QED BY <3>2, <3>3, <1>7
  <2>3. ASSUME NEW k \in i..Len(c[p].ents) PROVE m + g <= c[p].ents[k].key
    <3>1. i \in 1..Len(c[p].ents) /\ k \in 1..Len(c[p].ents)
      BY <1>7
    <3>2. CASE k = i
      BY <2>1, <3>1, <3>2
    <3>3. CASE k > i
      <4>1. c[p].ents[i].key + g <= c[p].ents[k].key
        BY <3>1, <3>3, <1>7 DEF Ascending
      <4>2. c[p].ents[k].key \in Int /\ c[p].ents[i].key \in Int
        BY <3>1, <1>7
      <4>3. m + g <= c[p].ents[i].key
        BY <2>1, <3>1
      <4>4. \A a, b \in Int : a + g <= b /\ m + g <= a => m + g <= b
        BY <1>4
      <4> QED BY <4>1, <4>2, <4>3, <4>4
    <3> QED BY <3>2, <3>3, <1>7
  <2> QED BY <2>1, <2>2, <2>3
<1>9. /\ Len(c2[kid].ents) = Degree - 1
      /\ \A k \in 1..Degree - 1 : c2[kid].ents[k] = c[kid].ents[k]
      /\ c[kid].leaf => Len(c2[kid].kids) = 0
      /\ ~c[kid].leaf => /\ Len(c2[kid].kids) = Degree
                         /\ \A k \in 1..Degree : c2[kid].kids[k] = c[kid].kids[k]
  BY DEF IsSplit
<1>10. /\ Len(c2[q].ents) = Degree - 1
       /\ \A k \in 1..Degree - 1 : c2[q].ents[k] = c[kid].ents[Degree + k]
       /\ c[kid].leaf => Len(c2[q].kids) = 0
       /\ ~c[kid].leaf => /\ Len(c2[q].kids) = Degree
                          /\ \A k \in 1..Degree : c2[q].kids[k] = c[kid].kids[Degree + k]
  BY DEF IsSplit
<1>11. /\ Len(c2[p].ents) = Len(c[p].ents) + 1 /\ Len(c2[p].kids) = Len(c[p].kids) + 1
       /\ \A k \in 1..Len(c[p].ents) + 1 :
            c2[p].ents[k] = IF k < i THEN c[p].ents[k]
                            ELSE IF k = i THEN c[kid].ents[Degree] ELSE c[p].ents[k - 1]
       /\ \A k \in 1..Len(c[p].kids) + 1 :
            c2[p].kids[k] = IF k < i + 1 THEN c[p].kids[k]
                            ELSE IF k = i + 1 THEN q ELSE c[p].kids[k - 1]
  BY DEF IsSplit
<1>91. /\ c[kid].leaf => Len(c2[kid].kids) = 0 /\ Len(c2[q].kids) = 0
       /\ ~c[kid].leaf => Len(c2[kid].kids) = Degree /\ Len(c2[q].kids) = Degree
  BY <1>9, <1>10
<1>71. /\ Len(c[p].ents) \in Nat /\ i \in Nat /\ i >= 1 /\ i <= Len(c[p].ents) + 1
       /\ Len(c[p].kids) = Len(c[p].ents) + 1
       /\ Len(c2[p].ents) = Len(c[p].ents) + 1
  BY <1>7, <1>11
<1>12. \A x \in T : \A j, t : Kid(c, x, j, t) => t \in T /\ t # q
  BY DEF Shape, Levels
<1>13. \A x \in T : \A j, t : Kid(c, x, j, t) => R[t] = Span(g, R[x], c[x].ents, j)
  BY DEF Keyed
<1>14. \A x \in T : \A j : Kid(c, x, j, kid) => x = p /\ j = i
  BY DEF Shape, OneParent
<1>15. ~c[kid].leaf => Len(c[kid].kids) = 2 * Degree
  BY <1>3 DEF Sound
<1>16. \A k \in 1..Len(c2[p].ents) :
         c2[p].ents[k].key = IF k < i THEN c[p].ents[k].key
                             ELSE IF k = i THEN m ELSE c[p].ents[k - 1].key
  BY <1>11 DEF m
<1>17. ASSUME NEW x \in T2
       PROVE  /\ Ascending(g, c2[x].ents)
              /\ \A k \in 1..Len(c2[x].ents) : c2[x].ents[k].key \in R2[x]
  <2>1. CASE x = kid
    <3>0. ASSUME NEW k \in 1..Len(c2[kid].ents)
          PROVE  /\ k \in 1..Len(c[kid].ents) /\ k \in 1..2 * Degree - 1 /\ k \in 1..Degree - 1
                 /\ c2[kid].ents[k] = c[kid].ents[k]
      <4>1. k \in 1..Degree - 1
        BY <1>9
      <4>2. k \in 1..2 * Degree - 1
        BY <4>1, <1>31
      <4> QED BY <4>1, <4>2, <1>9, <1>31
    <3>1. Ascending(g, c2[kid].ents)
      BY <3>0, <1>3 DEF Ascending
    <3>2. ASSUME NEW k \in 1..Len(c2[kid].ents) PROVE c2[kid].ents[k].key \in R2[kid]
      <4>1. c[kid].ents[k].key + g <= m /\ c[kid].ents[k].key \in R[kid]
        BY <3>0, <1>3, <1>5
      <4> QED BY <4>1, <3>0, <1>2
    <3> QED BY <2>1, <3>1, <3>2
  <2>2. CASE x = q
    <3>1. ASSUME NEW k \in 1..Len(c2[q].ents)
          PROVE  Degree + k \in Degree + 1..2 * Degree - 1 /\ c2[q].ents[k] = c[kid].ents[Degree + k]
      BY <1>3, <1>10
    <3>2. Ascending(g, c2[q].ents)
      <4> SUFFICES ASSUME NEW k \in 1..Len(c2[q].ents), NEW l \in 1..Len(c2[q].ents), k < l
                   PROVE  c2[q].ents[k].key + g <= c2[q].ents[l].key
        BY DEF Ascending
      <4>1. Degree + k \in 1..Len(c[kid].ents) /\ Degree + l \in 1..Len(c[kid].ents)
            /\ Degree + k < Degree + l
        BY <3>1, <1>3, <1>10
      <4>2. c[kid].ents[Degree + k].key + g <= c[kid].ents[Degree + l].key
        BY <4>1, <1>3 DEF Ascending
      <4> QED BY <4>2, <3>1
    <3>3. ASSUME NEW k \in 1..Len(c2[q].ents) PROVE c2[q].ents[k].key \in R2[q]
      <4>1. Degree + k \in 1..2 * Degree - 1
        BY <3>1, <1>3
      <4>2. m + g <= c[kid].ents[Degree + k].key /\ c[kid].ents[Degree + k].key \in R[kid]
        BY <3>1, <4>1, <1>3, <1>5
      <4> QED BY <4>2, <3>1, <1>2
    <3> QED BY <2>2, <3>2, <3>3
  <2>3. CASE x = p
    <3>1. Ascending(g, c2[p].ents)
      <4> SUFFICES ASSUME NEW k \in 1..Len(c2[p].ents), NEW l \in 1..Len(c2[p].ents), k < l
                   PROVE  c2[p].ents[k].key + g <= c2[p].ents[l].key
        BY DEF Ascending
      <4>1. k \in Nat /\ l \in Nat /\ k >= 1 /\ l <= Len(c[p].ents) + 1 /\ i \in Nat
        BY <1>7, <1>11
      <4>2. CASE l < i
        <5>1. k \in 1..Len(c[p].ents) /\ l \in 1..Len(c[p].ents) /\ k < i
          BY <4>1, <4>2, <1>71
        <5> QED BY <4>2, <5>1, <1>7, <1>16 DEF Ascending
      <4>3. CASE l = i
        <5>1. k \in 1..i - 1 /\ k < i
          BY <4>1, <4>3
        <5>2. c2[p].ents[k].key = c[p].ents[k].key /\ c2[p].ents[l].key = m
          BY <4>3, <5>1, <1>16
        <5> QED BY <5>1, <5>2, <1>8
      <4>4. CASE l > i /\ k < i
        <5>1. /\ k \in 1..Len(c[p].ents) /\ l - 1 \in 1..Len(c[p].ents) /\ k < l - 1
              /\ ~(l < i) /\ l # i
          BY <4>1, <4>4, <1>7
        <5> QED BY <4>4, <5>1, <1>7, <1>16 DEF Ascending
      <4>5. CASE l > i /\ k = i
        <5>1. l - 1 \in i..Len(c[p].ents) /\ ~(l < i) /\ l # i /\ ~(k < i)
          BY <4>1, <4>5, <1>7
        <5> QED BY <4>5, <5>1, <1>8, <1>16
      <4>6. CASE l > i /\ k > i
        <5>1. i >= 1 /\ Len(c[p].ents) \in Nat
          BY <1>7
        <5>2. k - 1 \in 1..Len(c[p].ents) /\ l - 1 \in 1..Len(c[p].ents) /\ k - 1 < l - 1
          BY <4>1, <4>6, <5>1
        <5>3. ~(l < i) /\ l # i /\ ~(k < i) /\ k # i
          BY <4>1, <4>6
        <5>4. c2[p].ents[k].key = c[p].ents[k - 1].key /\ c2[p].ents[l].key = c[p].ents[l - 1].key
          BY <5>3, <1>16
        <5> QED BY <5>2, <5>4, <1>7 DEF Ascending
      <4> QED BY <4>1, <4>2, <4>3, <4>4, <4>5, <4>6
    <3>2. ASSUME NEW k \in 1..Len(c2[p].ents) PROVE c2[p].ents[k].key \in R2[p]
      <4>1. CASE k < i
        <5>1. k \in 1..Len(c[p].ents)
          BY <4>1, <1>7
        <5> QED BY <4>1, <5>1, <1>1, <1>2, <1>7, <1>16
      <4>2. CASE k = i
        BY <4>2, <1>1, <1>2, <1>7, <1>8, <1>16
      <4>3. CASE k > i
        <5>1. k - 1 \in 1..Len(c[p].ents) /\ ~(k < i) /\ k # i
          BY <4>3, <1>7, <1>11
        <5> QED BY <5>1, <1>1, <1>2, <1>7, <1>16
      <4> QED BY <4>1, <4>2, <4>3, <1>7, <1>11
    <3> QED BY <2>3, <3>1, <3>2
  <2>4. CASE x \notin {kid, q, p}
    <3>1. x \in T /\ c2[x] = c[x] /\ R2[x] = R[x]
      BY <2>4, <1>1, <1>2
    <3> QED BY <3>1 DEF Keyed
  <2> QED BY <2>1, <2>2, <2>3, <2>4
<1>18. ASSUME NEW x \in T2, NEW j, NEW t, Kid(c2, x, j, t)
       PROVE  R2[t] = Span(g, R2[x], c2[x].ents, j)
  <2>0. j \in 1..Len(c2[x].kids) /\ c2[x].kids[j] = t
    BY <1>18 DEF Kid
  <2>1. CASE x = kid
    <3>1. ~c[kid].leaf /\ j \in 1..Degree
      BY <2>0, <2>1, <1>91
    <3>2. Kid(c, kid, j, t)
      <4>1. j \in 1..Len(c[kid].kids) /\ c2[kid].kids[j] = c[kid].kids[j]
        BY <3>1, <1>3, <1>9, <1>15
      <4> QED BY <4>1, <2>0, <2>1 DEF Kid
    <3>3. R2[t] = Span(g, R[kid], c[kid].ents, j)
      <4>1. t \in T /\ t # q /\ t # kid
        BY <3>2, <1>1, <1>12, <1>14
      <4>2. R2[t] = R[t]
        BY <4>1, <1>2
      <4> QED BY <4>2, <3>2, <1>1, <1>13
    <3>4. ASSUME NEW y \in R[kid]
          PROVE  y \in Span(g, R[kid], c[kid].ents, j) <=> y \in Span(g, R2[kid], c2[kid].ents, j)
      <4>0. y \in Int
        BY <1>2
      <4>1. y \in R2[kid] <=> y + g <= m
        BY <1>2
      <4>2. CASE j = Degree
        <5>1. Degree - 1 \in 1..Degree - 1 /\ ~(j <= Degree - 1) /\ j <= 2 * Degree - 1 /\ j > 1
          BY <4>2, <1>3
        <5>2. c2[kid].ents[j - 1].key = c[kid].ents[j - 1].key /\ c[kid].ents[j].key = m
          BY <4>2, <5>1, <1>9 DEF m
        <5> QED BY <4>0, <4>1, <5>1, <5>2, <1>3, <1>9 DEF Span
      <4>3. CASE j < Degree
        <5>1. j \in 1..Degree - 1 /\ j <= 2 * Degree - 1 /\ j \in 1..2 * Degree - 1
          BY <4>3, <3>1, <1>31
        <5>5. j > 1 => j - 1 \in 1..Degree - 1
          BY <4>3, <3>1, <1>31
        <5>2. /\ c2[kid].ents[j].key = c[kid].ents[j].key
              /\ j > 1 => c2[kid].ents[j - 1].key = c[kid].ents[j - 1].key
          BY <5>1, <5>5, <1>9
        <5>3. c[kid].ents[j].key + g <= m /\ c[kid].ents[j].key \in Int
          BY <5>1, <1>3, <1>5
        <5>4. y + g <= c[kid].ents[j].key => y + g <= m
          BY <4>0, <5>3, <1>4
        <5>6. j <= Len(c2[kid].ents) /\ j <= Len(c[kid].ents)
          BY <5>1, <1>9, <1>31
        <5> QED BY <4>1, <5>2, <5>4, <5>6 DEF Span
      <4> QED BY <3>1, <4>2, <4>3, <1>31
    <3>5. Span(g, R[kid], c[kid].ents, j) = Span(g, R2[kid], c2[kid].ents, j)
      <4>1. Span(g, R[kid], c[kid].ents, j) \subseteq R[kid]
        BY DEF Span
      <4>2. Span(g, R2[kid], c2[kid].ents, j) \subseteq R[kid]
        BY <1>2 DEF Span
      <4> QED BY <4>1, <4>2, <3>4
    <3> QED BY <2>1, <3>3, <3>5
  <2>2. CASE x = q
    <3>1. ~c[kid].leaf /\ j \in 1..Degree /\ Degree + j \in 1..2 * Degree
      <4>1. ~c[kid].leaf /\ j \in 1..Degree
        BY <2>0, <2>2, <1>91
      <4> QED BY <4>1, <1>31
    <3>2. Kid(c, kid, Degree + j, t)
      <4>1. Degree + j \in 1..Len(c[kid].kids) /\ c2[q].kids[j] = c[kid].kids[Degree + j]
        BY <3>1, <1>10, <1>15
      <4> QED BY <4>1, <2>0, <2>2 DEF Kid
    <3>3. R2[t] = Span(g, R[kid], c[kid].ents, Degree + j)
      <4>1. t \in T /\ t # q /\ t # kid
        BY <3>2, <1>1, <1>12, <1>14
      <4>2. R2[t] = R[t]
        BY <4>1, <1>2
      <4> QED BY <4>2, <3>2, <1>1, <1>13
    <3>4. ASSUME NEW y \in R[kid]
          PROVE  y \in Span(g, R[kid], c[kid].ents, Degree + j) <=> y \in Span(g, R2[q], c2[q].ents, j)
      <4>0. y \in Int /\ j \in Nat /\ j >= 1
        BY <1>2, <3>1
      <4>1. y \in R2[q] <=> m + g <= y
        BY <1>2
      <4>2. /\ Degree + j > 1
            /\ Degree + j <= Len(c[kid].ents) <=> j <= Len(c2[q].ents)
        BY <4>0, <1>3, <1>10
      <4>3. j <= Len(c2[q].ents) => c2[q].ents[j].key = c[kid].ents[Degree + j].key
        <5>1. j <= Len(c2[q].ents) => j \in 1..Degree - 1
          BY <4>0, <1>3, <1>10
        <5> QED BY <5>1, <1>10
      <4>4. CASE j = 1
        <5>0. (Degree + j) - 1 = Degree /\ ~(j > 1)
          BY <4>4, <1>31
        <5>1. c[kid].ents[(Degree + j) - 1].key = m
          BY <5>0 DEF m
        <5> QED BY <4>1, <4>2, <4>3, <5>0, <5>1 DEF Span
      <4>5. CASE j > 1
        <5>0. j \in Nat /\ j <= Degree
          BY <3>1, <1>31
        <5>6. j - 1 \in 1..Degree - 1 /\ Degree + (j - 1) = (Degree + j) - 1
          BY <4>5, <5>0, <1>31
        <5>7. (Degree + j) - 1 \in Degree + 1..2 * Degree - 1
          BY <4>5, <5>0, <1>31
        <5>8. (Degree + j) - 1 \in 1..2 * Degree - 1
          BY <4>5, <5>0, <1>31
        <5>1. /\ j - 1 \in 1..Degree - 1 /\ (Degree + j) - 1 \in Degree + 1..2 * Degree - 1
              /\ Degree + (j - 1) = (Degree + j) - 1 /\ (Degree + j) - 1 \in 1..2 * Degree - 1
          BY <5>6, <5>7, <5>8
        <5>2. c2[q].ents[j - 1].key = c[kid].ents[(Degree + j) - 1].key
          <6>1. c2[q].ents[j - 1] = c[kid].ents[Degree + (j - 1)]
            BY <5>1, <1>10
          <6> QED BY <6>1, <5>1
        <5>3. /\ m + g <= c[kid].ents[(Degree + j) - 1].key
              /\ c[kid].ents[(Degree + j) - 1].key \in Int
          BY <5>1, <1>3, <1>5
        <5>4. c[kid].ents[(Degree + j) - 1].key + g <= y => m + g <= y
          BY <4>0, <5>3, <1>4
        <5> QED BY <4>1, <4>2, <4>3, <4>5, <5>2, <5>4 DEF Span
      <4> QED BY <4>0, <4>4, <4>5
    <3>5. Span(g, R[kid], c[kid].ents, Degree + j) = Span(g, R2[q], c2[q].ents, j)
      <4>1. Span(g, R[kid], c[kid].ents, Degree + j) \subseteq R[kid]
        BY DEF Span
      <4>2. Span(g, R2[q], c2[q].ents, j) \subseteq R[kid]
        BY <1>2 DEF Span
      <4> QED BY <4>1, <4>2, <3>4
    <3> QED BY <2>2, <3>3, <3>5
  <2>3. CASE x = p
    <3>0. /\ j \in 1..Len(c[p].kids) + 1 /\ j \in Nat /\ i \in Nat /\ R2[p] = R[p]
          /\ i \in 1..Len(c[p].kids)
      BY <2>0, <2>3, <1>1, <1>2, <1>7, <1>11
    <3>1. CASE j < i
      <4>0. /\ j \in 1..Len(c[p].kids) /\ j < i + 1
            /\ j \in 1..Len(c[p].ents) /\ j <= Len(c2[p].ents) /\ j <= Len(c[p].ents)
        BY <3>0, <3>1, <1>71
      <4>1. /\ j \in 1..Len(c[p].kids) /\ c2[p].kids[j] = c[p].kids[j]
            /\ j \in 1..Len(c[p].ents) /\ j <= Len(c2[p].ents) /\ j <= Len(c[p].ents)
        BY <3>0, <4>0, <1>11
      <4>2. Kid(c, p, j, t)
        BY <4>1, <2>0, <2>3 DEF Kid
      <4>3. t \in T /\ t # q /\ t # kid
        BY <4>2, <3>0, <3>1, <1>12, <1>14
      <4>4. R2[t] = Span(g, R[p], c[p].ents, j)
        BY <4>2, <4>3, <1>2, <1>13
      <4>5. /\ c2[p].ents[j].key = c[p].ents[j].key
            /\ j > 1 => c2[p].ents[j - 1].key = c[p].ents[j - 1].key
        <5>1. j \in 1..Len(c2[p].ents) /\ (j > 1 => j - 1 \in 1..Len(c2[p].ents) /\ j - 1 < i)
          BY <3>0, <3>1, <4>1, <1>7, <1>11
        <5> QED BY <3>1, <5>1, <1>16
      <4> QED BY <2>3, <3>0, <4>1, <4>4, <4>5 DEF Span
    <3>2. CASE j = i
      <4>0. i \in 1..Len(c[p].kids) + 1 /\ i < i + 1
        BY <3>0, <1>7
      <4>1. c2[p].kids[i] = c[p].kids[i] /\ c[p].kids[i] = kid
        BY <4>0, <1>11 DEF Kid
      <4>2. R2[t] = {y \in R[kid] : y + g <= m}
        BY <2>0, <2>3, <3>2, <4>1, <1>2
      <4>3. /\ i <= Len(c2[p].ents) /\ c2[p].ents[i].key = m
            /\ i > 1 => c2[p].ents[i - 1].key = c[p].ents[i - 1].key
        <5>1. i \in 1..Len(c2[p].ents) /\ (i > 1 => i - 1 \in 1..Len(c2[p].ents) /\ i - 1 < i)
          BY <1>71
        <5> QED BY <5>1, <1>16
      <4>4. ASSUME NEW y \in R[p], y + g <= m, i <= Len(c[p].ents)
            PROVE  y + g <= c[p].ents[i].key
        <5>1. i \in i..Len(c[p].ents) /\ i \in 1..Len(c[p].ents)
          BY <4>4, <1>7
        <5>2. m + g <= c[p].ents[i].key /\ c[p].ents[i].key \in Int /\ y \in Int
          BY <5>1, <1>2, <1>7, <1>8
        <5>3. \A a, b \in Int : a + g <= m /\ m + g <= b => a + g <= b
          BY <1>4
        <5> QED BY <4>4, <5>2, <5>3
      <4>5. {y \in R[kid] : y + g <= m} = Span(g, R[p], c2[p].ents, i)
        <5>1. ASSUME NEW y \in R[p]
              PROVE  y \in R[kid] /\ y + g <= m <=> y \in Span(g, R[p], c2[p].ents, i)
          BY <4>3, <4>4, <1>6 DEF Span
        <5>2. R[kid] \subseteq R[p] /\ Span(g, R[p], c2[p].ents, i) \subseteq R[p]
          BY <1>6 DEF Span
        <5> QED BY <5>1, <5>2
      <4> QED BY <2>3, <3>0, <3>2, <4>2, <4>5
    <3>3. CASE j = i + 1
      <4>1. t = q
        <5>1. i + 1 \in 1..Len(c[p].kids) + 1 /\ ~(i + 1 < i + 1)
          BY <3>0, <1>7
        <5>2. c2[p].kids[i + 1] = q
          BY <5>1, <1>11
        <5> QED BY <2>0, <2>3, <3>3, <5>2
      <4>2. R2[t] = {y \in R[kid] : m + g <= y}
        BY <4>1, <1>2
      <4>3. /\ j > 1 /\ c2[p].ents[j - 1].key = m
            /\ j <= Len(c2[p].ents) <=> i <= Len(c[p].ents)
            /\ i <= Len(c[p].ents) => c2[p].ents[j].key = c[p].ents[i].key
        <5>1. /\ i \in 1..Len(c2[p].ents) /\ j - 1 = i /\ j > 1
              /\ j <= Len(c2[p].ents) <=> i <= Len(c[p].ents)
              /\ ~(j < i) /\ j # i
          BY <3>0, <3>3, <1>71
        <5>2. i <= Len(c[p].ents) => j \in 1..Len(c2[p].ents)
          BY <3>0, <3>3, <1>71
        <5>3. c2[p].ents[j - 1].key = m
          BY <5>1, <1>16
        <5>4. i <= Len(c[p].ents) => c2[p].ents[j].key = c[p].ents[j - 1].key
          BY <5>1, <5>2, <1>16
        <5> QED BY <5>1, <5>3, <5>4
      <4>4. ASSUME NEW y \in R[p], m + g <= y, i > 1
            PROVE  c[p].ents[i - 1].key + g <= y
        <5>1. i - 1 \in 1..i - 1 /\ i - 1 \in 1..Len(c[p].ents)
          BY <4>4, <1>7
        <5>2. c[p].ents[i - 1].key + g <= m /\ c[p].ents[i - 1].key \in Int /\ y \in Int
          BY <5>1, <1>2, <1>7, <1>8
        <5> QED BY <4>4, <5>2, <1>4
      <4>5. {y \in R[kid] : m + g <= y} = Span(g, R[p], c2[p].ents, j)
        <5>1. ASSUME NEW y \in R[p]
              PROVE  y \in R[kid] /\ m + g <= y <=> y \in Span(g, R[p], c2[p].ents, j)
          BY <4>3, <4>4, <1>6 DEF Span
        <5>2. R[kid] \subseteq R[p] /\ Span(g, R[p], c2[p].ents, j) \subseteq R[p]
          BY <1>6 DEF Span
        <5> QED BY <5>1, <5>2
      <4> QED BY <2>3, <3>0, <4>2, <4>5
    <3>4. CASE j > i + 1
      <4>1. /\ j - 1 \in 1..Len(c[p].kids) /\ c2[p].kids[j] = c[p].kids[j - 1]
            /\ ~(j < i + 1) /\ j # i + 1
        BY <3>0, <3>4, <1>7, <1>11
      <4>2. Kid(c, p, j - 1, t)
        BY <4>1, <2>0, <2>3 DEF Kid
      <4>3. t \in T /\ t # q /\ t # kid
        <5>1. j - 1 # i
          BY <3>0, <3>4
        <5> QED BY <4>2, <5>1, <1>12, <1>14
      <4>4. R2[t] = Span(g, R[p], c[p].ents, j - 1)
        BY <4>2, <4>3, <1>2, <1>13
      <4>5. /\ j > 1 /\ j - 1 > 1
            /\ c2[p].ents[j - 1].key = c[p].ents[(j - 1) - 1].key
            /\ j <= Len(c2[p].ents) <=> j - 1 <= Len(c[p].ents)
            /\ j - 1 <= Len(c[p].ents) => c2[p].ents[j].key = c[p].ents[j - 1].key
        <5>1. /\ j - 1 \in 1..Len(c2[p].ents) /\ ~(j - 1 < i) /\ j - 1 # i
              /\ ~(j < i) /\ j # i /\ j > 1 /\ j - 1 > 1
              /\ j <= Len(c2[p].ents) <=> j - 1 <= Len(c[p].ents)
          BY <3>0, <3>4, <1>7, <1>11
        <5>2. j - 1 <= Len(c[p].ents) => j \in 1..Len(c2[p].ents)
          BY <3>0, <3>4, <1>7, <1>11
        <5> QED BY <5>1, <5>2, <1>16
      <4> QED BY <2>3, <3>0, <4>4, <4>5 DEF Span
    <3> QED BY <3>0, <3>1, <3>2, <3>3, <3>4
  <2>4. CASE x \notin {kid, q, p}
    <3>1. x \in T /\ c2[x] = c[x] /\ R2[x] = R[x]
      BY <2>4, <1>1, <1>2
    <3>2. Kid(c, x, j, t)
      BY <3>1, <2>0 DEF Kid
    <3>3. t \in T /\ t # q /\ t # kid
      BY <2>4, <3>1, <3>2, <1>12, <1>14
    <3>4. R2[t] = R[t]
      BY <3>3, <1>2
    <3> QED BY <3>1, <3>2, <3>4, <1>13
  <2> QED BY <2>1, <2>2, <2>3, <2>4
<1>19. R2[r] = Int
  BY <1>1, <1>2 DEF Keyed
<1> QED BY <1>2, <1>17, <1>18, <1>19 DEF Keyed

\* A new root above a tree.
NewRoot(r) == [leaf |-> FALSE, ents |-> <<>>, kids |-> <<r>>]

\* The node that insert makes for a new root, with the old one as only child.
LEMMA NewRootProps ==
  ASSUME NEW r \in Page
  PROVE  /\ NewRoot(r) \in Node /\ Sound(NewRoot(r)) /\ ~NewRoot(r).leaf
         /\ Len(NewRoot(r).ents) = 0 /\ Len(NewRoot(r).kids) = 1 /\ NewRoot(r).kids[1] = r
<1>1. MaxKeys \in Nat /\ MaxKeys >= 0
  BY MaxKeysProps
<1> QED BY <1>1 DEF NewRoot, Node, Sound

\* A new root above the old one keeps the shape of the tree.
LEMMA GrowShape ==
  ASSUME NEW c \in [Page -> Node], NEW r, NEW T \in SUBSET Page, NEW h \in [Page -> Nat],
         Shape(c, r, T, h), Len(c[r].ents) >= Degree - 1, NEW nr \in Page \ T,
         NEW c2, c2 = [c EXCEPT ![nr] = NewRoot(r)]
  PROVE  /\ Shape(c2, nr, T \cup {nr}, [h EXCEPT ![nr] = h[r] + 1])
         /\ c2 \in [Page -> Node] /\ Kid(c2, nr, 1, r) /\ c2[r] = c[r]
<1> DEFINE h2 == [h EXCEPT ![nr] = h[r] + 1]
           T2 == T \cup {nr}
<1>1. /\ r \in T /\ \A p \in T : Sound(c[p])
      /\ Levels(c, r, T, h) /\ OneParent(c, T) /\ HasParent(c, r, T) /\ HalfFull(c, r, T)
  BY DEF Shape
<1>2. NewRoot(r) \in Node /\ Sound(NewRoot(r))
  BY <1>1, NewRootProps
<1>3. c2 \in [Page -> Node] /\ c2[nr] = NewRoot(r) /\ \A x \in Page \ {nr} : c2[x] = c[x]
  BY <1>2
<1>4. h2[nr] = h[r] + 1 /\ h[r] \in Nat /\ \A x \in T : h2[x] = h[x] /\ c2[x] = c[x]
  BY <1>1, <1>3
<1> HIDE DEF h2
<1>5. ~c2[nr].leaf /\ \A i, x : Kid(c2, nr, i, x) <=> i = 1 /\ x = r
  <2>1. ~c2[nr].leaf /\ Len(c2[nr].kids) = 1 /\ c2[nr].kids[1] = r
    BY <1>1, <1>3, NewRootProps
  <2> QED BY <2>1 DEF Kid
<1>6. \A p \in T : \A i, x : Kid(c2, p, i, x) <=> Kid(c, p, i, x)
  BY <1>4 DEF Kid
<1>7. Levels(c2, nr, T2, h2)
  <2> SUFFICES ASSUME NEW p \in T2
               PROVE  /\ c2[p].leaf <=> h2[p] = 0
                      /\ \A i, x : Kid(c2, p, i, x) => x \in T2 \ {nr} /\ h2[x] + 1 = h2[p]
    BY DEF Levels
  <2>1. CASE p = nr
    <3>1. c2[p].leaf <=> h2[p] = 0
      BY <2>1, <1>4, <1>5
    <3>2. \A i, x : Kid(c2, p, i, x) => x \in T2 \ {nr} /\ h2[x] + 1 = h2[p]
      BY <2>1, <1>1, <1>4, <1>5
    <3> QED BY <3>1, <3>2
  <2>2. CASE p \in T
    <3>1. c2[p].leaf <=> h2[p] = 0
      BY <2>2, <1>1, <1>4 DEF Levels
    <3>2. \A i, x : Kid(c, p, i, x) => x \in T \ {r} /\ h[x] + 1 = h[p]
      BY <2>2, <1>1 DEF Levels
    <3>3. ASSUME NEW i, NEW x, Kid(c2, p, i, x)
          PROVE  x \in T2 \ {nr} /\ h2[x] + 1 = h2[p]
      <4>1. x \in T /\ h[x] + 1 = h[p]
        BY <2>2, <3>2, <3>3, <1>6
      <4> QED BY <2>2, <4>1, <1>4
    <3> QED BY <3>1, <3>3
  <2> QED BY <2>1, <2>2
<1>8. OneParent(c2, T2)
  <2>1. \A p \in T : \A i, x : Kid(c2, p, i, x) => x # r
    BY <1>1, <1>6 DEF Levels
  <2> SUFFICES ASSUME NEW p \in T2, NEW q \in T2, NEW i, NEW j, NEW x,
                      Kid(c2, p, i, x), Kid(c2, q, j, x)
               PROVE  p = q /\ i = j
    BY DEF OneParent
  <2>2. CASE p \in T /\ q \in T
    <3>1. Kid(c, p, i, x) /\ Kid(c, q, j, x)
      BY <2>2, <1>6
    <3> QED BY <2>2, <3>1, <1>1 DEF OneParent
  <2>3. CASE p = nr
    <3>1. i = 1 /\ x = r
      BY <2>3, <1>5
    <3>2. q = nr
      BY <2>1, <3>1
    <3> QED BY <2>3, <3>1, <3>2, <1>5
  <2>4. CASE q = nr
    <3>1. j = 1 /\ x = r
      BY <2>4, <1>5
    <3>2. p = nr
      BY <2>1, <3>1
    <3> QED BY <2>4, <3>1, <3>2, <1>5
  <2> QED BY <2>2, <2>3, <2>4
<1>9. HasParent(c2, nr, T2)
  BY <1>1, <1>5, <1>6 DEF HasParent
<1>10. HalfFull(c2, nr, T2)
  BY <1>1, <1>4 DEF HalfFull
<1>11. \A p \in T2 : Sound(c2[p])
  BY <1>1, <1>2, <1>3, <1>4
<1>12. RootHighest(nr, T2, h2)
  <2> SUFFICES ASSUME NEW p \in T2 PROVE h2[p] <= h2[nr]
    BY DEF RootHighest
  <2>1. CASE p = nr
    BY <2>1, <1>4
  <2>2. CASE p \in T
    <3>1. h[p] <= h[r] /\ h[p] \in Nat
      BY <2>2 DEF Shape, RootHighest
    <3> QED BY <2>2, <3>1, <1>4
  <2> QED BY <2>1, <2>2
<1> QED BY <1>1, <1>3, <1>4, <1>5, <1>7, <1>8, <1>9, <1>10, <1>11, <1>12 DEF Shape, h2

\* Any key may stand below the only child of the new root.
LEMMA GrowKeyed ==
  ASSUME NEW g \in Nat,
         NEW c \in [Page -> Node], NEW r, NEW T \in SUBSET Page, NEW h \in [Page -> Nat],
         NEW R \in [Page -> SUBSET Int],
         Shape(c, r, T, h), Keyed(g, c, r, T, R), NEW nr \in Page \ T,
         NEW c2, c2 = [c EXCEPT ![nr] = NewRoot(r)],
         NEW R2, R2 = [R EXCEPT ![nr] = Int]
  PROVE  R2 \in [Page -> SUBSET Int] /\ Keyed(g, c2, nr, T \cup {nr}, R2)
<1>1. r \in T /\ r \in Page
  BY DEF Shape
<1>2. NewRoot(r) \in Node /\ Len(NewRoot(r).ents) = 0
  BY <1>1, NewRootProps
<1>3. /\ R2 \in [Page -> SUBSET Int] /\ R2[nr] = Int /\ c2[nr] = NewRoot(r)
      /\ \A x \in T : R2[x] = R[x] /\ c2[x] = c[x]
  BY <1>2
<1>4. \A i, x : Kid(c2, nr, i, x) => i = 1 /\ x = r
  <2>1. Len(c2[nr].kids) = 1 /\ c2[nr].kids[1] = r
    BY <1>1, <1>3, NewRootProps
  <2> QED BY <2>1 DEF Kid
<1>5. \A p \in T : \A i, x : Kid(c2, p, i, x) => Kid(c, p, i, x) /\ x \in T
  <2>1. \A p \in T : \A i, x : Kid(c2, p, i, x) => Kid(c, p, i, x)
    BY <1>3 DEF Kid
  <2>2. \A p \in T : \A i, x : Kid(c, p, i, x) => x \in T
    BY DEF Shape, Levels
  <2> QED BY <2>1, <2>2
<1>6. ASSUME NEW p \in T \cup {nr}
      PROVE  /\ Ascending(g, c2[p].ents)
             /\ \A i \in 1..Len(c2[p].ents) : c2[p].ents[i].key \in R2[p]
  <2>1. CASE p = nr
    BY <2>1, <1>2, <1>3 DEF Ascending
  <2>2. CASE p \in T
    BY <2>2, <1>3 DEF Keyed
  <2> QED BY <2>1, <2>2
<1>7. ASSUME NEW p \in T \cup {nr}, NEW i, NEW x, Kid(c2, p, i, x)
      PROVE  R2[x] = Span(g, R2[p], c2[p].ents, i)
  <2>1. CASE p = nr
    <3>1. R2[x] = Int /\ i = 1
      BY <2>1, <1>7, <1>1, <1>3, <1>4 DEF Keyed
    <3>2. Span(g, R2[nr], c2[nr].ents, 1) = Int
      BY <1>2, <1>3 DEF Span
    <3> QED BY <2>1, <3>1, <3>2
  <2>2. CASE p \in T
    <3>1. Kid(c, p, i, x) /\ x \in T
      BY <2>2, <1>5, <1>7
    <3>2. R[x] = Span(g, R[p], c[p].ents, i)
      BY <2>2, <3>1 DEF Keyed
    <3> QED BY <2>2, <3>1, <3>2, <1>3
  <2> QED BY <2>1, <2>2
<1> QED BY <1>3, <1>6, <1>7 DEF Keyed

\* Replacing a node by one with the same children and no fewer entries.
LEMMA PlaceShape ==
  ASSUME NEW c \in [Page -> Node], NEW r, NEW T \in SUBSET Page, NEW h,
         Shape(c, r, T, h), NEW p \in T, NEW m \in Node, Sound(m),
         m.leaf = c[p].leaf, m.kids = c[p].kids, Len(m.ents) >= Len(c[p].ents),
         NEW c2, c2[p] = m, \A x \in T : x # p => c2[x] = c[x]
  PROVE  Shape(c2, r, T, h)
<1>1. c2[p] = m /\ \A x \in T \ {p} : c2[x] = c[x]
  OBVIOUS
<1>2. \A x \in T : \A i, y : Kid(c2, x, i, y) <=> Kid(c, x, i, y)
  BY <1>1 DEF Kid
<1>3. \A x \in T : Sound(c2[x]) /\ c2[x].leaf = c[x].leaf
  BY <1>1 DEF Shape
<1>0. Levels(c, r, T, h) /\ OneParent(c, T) /\ HasParent(c, r, T) /\ r \in T
  BY DEF Shape
<1>4. Levels(c2, r, T, h)
  <2> SUFFICES ASSUME NEW x \in T
               PROVE  /\ c2[x].leaf <=> h[x] = 0
                      /\ \A i, y : Kid(c2, x, i, y) => y \in T \ {r} /\ h[y] + 1 = h[x]
    BY DEF Levels
  <2>1. /\ c[x].leaf <=> h[x] = 0
        /\ \A i, y : Kid(c, x, i, y) => y \in T \ {r} /\ h[y] + 1 = h[x]
    BY <1>0 DEF Levels
  <2>2. \A i, y : Kid(c2, x, i, y) <=> Kid(c, x, i, y)
    BY <1>2
  <2> QED BY <2>1, <2>2, <1>3
<1>5. OneParent(c2, T) /\ HasParent(c2, r, T)
  <2>1. OneParent(c2, T)
    <3> SUFFICES ASSUME NEW x \in T, NEW y \in T, NEW i, NEW j, NEW z,
                        Kid(c2, x, i, z), Kid(c2, y, j, z)
                 PROVE  x = y /\ i = j
      BY DEF OneParent
    <3>1. Kid(c, x, i, z) /\ Kid(c, y, j, z)
      BY <1>2
    <3> QED BY <3>1, <1>0 DEF OneParent
  <2>2. HasParent(c2, r, T)
    <3> SUFFICES ASSUME NEW x \in T \ {r} PROVE \E y \in T : \E i : Kid(c2, y, i, x)
      BY DEF HasParent
    <3>1. PICK y \in T : \E i : Kid(c, y, i, x)
      BY <1>0 DEF HasParent
    <3> QED BY <3>1, <1>2
  <2> QED BY <2>1, <2>2
<1>6. HalfFull(c2, r, T)
  <2> SUFFICES ASSUME NEW x \in T \ {r} PROVE Len(c2[x].ents) >= Degree - 1
    BY DEF HalfFull
  <2>1. Len(c[x].ents) >= Degree - 1
    BY DEF Shape, HalfFull
  <2>2. CASE x = p
    <3>1. Len(c[p].ents) \in Nat /\ Len(m.ents) \in Nat /\ Degree \in Nat
      BY NodeProps, MaxKeysProps
    <3> QED BY <2>1, <2>2, <3>1, <1>1
  <2>3. CASE x # p
    BY <2>1, <2>3, <1>1
  <2> QED BY <2>2, <2>3
<1> QED BY <1>1, <1>3, <1>4, <1>5, <1>6 DEF Shape, RootHighest

\* The spans of the children stay when the keys of an internal node do.
LEMMA PlaceKeyed ==
  ASSUME NEW g, NEW c \in [Page -> Node], NEW r, NEW T \in SUBSET Page, NEW h, NEW R,
         Shape(c, r, T, h), Keyed(g, c, r, T, R), NEW p \in T, NEW m \in Node,
         m.leaf = c[p].leaf, m.kids = c[p].kids,
         Ascending(g, m.ents), \A i \in 1..Len(m.ents) : m.ents[i].key \in R[p],
         ~m.leaf => /\ Len(m.ents) = Len(c[p].ents)
                    /\ \A i \in 1..Len(m.ents) : m.ents[i].key = c[p].ents[i].key,
         NEW c2, c2[p] = m, \A x \in T : x # p => c2[x] = c[x]
  PROVE  Keyed(g, c2, r, T, R)
<1>1. c2[p] = m /\ \A x \in T \ {p} : c2[x] = c[x]
  OBVIOUS
<1>2. \A x \in T : \A i, y : Kid(c2, x, i, y) => Kid(c, x, i, y)
  BY <1>1 DEF Kid
<1>3. ASSUME NEW x \in T
      PROVE  /\ Ascending(g, c2[x].ents)
             /\ \A i \in 1..Len(c2[x].ents) : c2[x].ents[i].key \in R[x]
  BY <1>1 DEF Keyed
<1>4. ASSUME NEW x \in T, NEW i, NEW y, Kid(c2, x, i, y)
      PROVE  R[y] = Span(g, R[x], c2[x].ents, i)
  <2>1. Kid(c, x, i, y)
    BY <1>2, <1>4
  <2>2. R[y] = Span(g, R[x], c[x].ents, i)
    BY <2>1 DEF Keyed
  <2>3. CASE x # p
    BY <2>2, <2>3, <1>1
  <2>4. CASE x = p
    <3>1. ~m.leaf
      <4>1. i \in 1..Len(c[p].kids)
        BY <2>1, <2>4 DEF Kid
      <4>2. Sound(c[p]) /\ Len(c[p].kids) \in Nat /\ c[p].kids \in Seq(Page)
        BY NodeProps DEF Shape
      <4>3. Len(c[p].kids) # 0
        BY <4>1, <4>2
      <4> QED BY <4>2, <4>3, EmptySequence DEF Sound
    <3>2. /\ Len(m.ents) = Len(c[p].ents) /\ Len(m.ents) \in Nat
          /\ \A j \in 1..Len(m.ents) : m.ents[j].key = c[p].ents[j].key
      BY <3>1, NodeProps
    <3>3. i \in Nat /\ i >= 1 /\ i <= Len(m.ents) + 1
      <4>1. Sound(c[p]) /\ i \in 1..Len(c[p].kids) /\ ~c[p].leaf
        BY <2>1, <2>4, <3>1 DEF Kid, Shape
      <4>2. Len(c[p].kids) = Len(c[p].ents) + 1
        BY <4>1 DEF Sound
      <4> QED BY <4>1, <4>2, <3>2
    <3>4. i > 1 => i - 1 \in 1..Len(m.ents)
      BY <3>2, <3>3
    <3>5. i <= Len(m.ents) => i \in 1..Len(m.ents)
      BY <3>2, <3>3
    <3>6. Span(g, R[p], c[p].ents, i) = Span(g, R[p], m.ents, i)
      BY <3>2, <3>4, <3>5 DEF Span
    <3> QED BY <2>2, <2>4, <3>6, <1>1
  <2> QED BY <2>3, <2>4
<1> QED BY <1>3, <1>4 DEF Keyed

-----------------------------------------------------------------------------
(* The inductive invariant. *)

\* A new database file satisfies the invariant.
LEMMA InitIInv == Init => IInv
<1> SUFFICES ASSUME Init PROVE IInv
  OBVIOUS
<1>1. /\ disk = [p \in 0..0 |-> EmptyLeaf] /\ pages = 1 /\ next_page_id = 1
      /\ root_page_id = 0 /\ todo = {} /\ at = 0 /\ writes = <<>>
  <2>1. DOMAIN [p \in {} |-> ZeroPage] \cup 0..0 = 0..0
    OBVIOUS
  <2>2. disk = WritePage([p \in {} |-> ZeroPage], 0, EmptyLeaf)
    BY DEF Init, NewFile, FormatRoot
  <2>3. WritePage([p \in {} |-> ZeroPage], 0, EmptyLeaf) = [p \in 0..0 |-> EmptyLeaf]
    BY <2>1 DEF WritePage
  <2> QED BY <2>2, <2>3 DEF Init
<1>2. TypeOK
  <2>1. disk \in [0..pages - 1 -> Node]
    BY <1>1, ZeroPageProps
  <2> QED BY <1>1, <2>1 DEF TypeOK, Page
<1>3. PagesFit /\ LinksWritten /\ LinksDue /\ FreshPages /\ Allocated /\ NotOwnChild
  BY <1>1, ZeroPageProps
  DEF PagesFit, LinksWritten, LinksDue, FreshPages, Allocated, NotOwnChild
<1>4. NeverFull /\ PageZeroIsLeaf /\ PageZeroDue
  <2>1. EmptyLeaf.leaf /\ EmptyLeaf # ZeroPage
    BY ZeroPageProps DEF EmptyLeaf, ZeroPage
  <2> QED BY <1>1, <2>1 DEF NeverFull, PageZeroIsLeaf, PageZeroDue, Written
<1> QED BY <1>2, <1>3, <1>4 DEF IInv

\* What IInv says of any page a reader loads.
LEMMA LoadedProps ==
  ASSUME IInv, NEW p
  PROVE  /\ ReadPage(disk, p) \in Node /\ Sound(ReadPage(disk, p))
         /\ Linked(ReadPage(disk, p)) \subseteq Written
         /\ p \notin Linked(ReadPage(disk, p))
         /\ Full(ReadPage(disk, p)) => p \in Written
         /\ ~ReadPage(disk, p).leaf => p \in Written
         /\ p = 0 => ReadPage(disk, p).leaf
         /\ Written \subseteq 0..pages - 1
         /\ \A q \in Written : q \in Page /\ q < next_page_id
         /\ 0 < next_page_id
<1>1. /\ pages \in Nat \ {0} /\ disk \in [0..pages - 1 -> Node]
      /\ \A q \in DOMAIN disk : disk[q] = ZeroPage \/ Sound(disk[q])
      /\ next_page_id \in Nat /\ pages <= next_page_id
  BY DEF IInv, TypeOK, PagesFit, FreshPages
<1>2. /\ Written \subseteq 0..pages - 1
      /\ \A q \in Written : q \in Page /\ q < next_page_id
      /\ 0 < next_page_id
  BY <1>1 DEF Written, Page
<1>3. CASE p \in Written
  <2>1. ReadPage(disk, p) = disk[p] /\ ReadPage(disk, p) \in Node /\ Sound(ReadPage(disk, p))
    BY <1>1, <1>3, ReadPageSound DEF Written
  <2>2. /\ Linked(disk[p]) \subseteq Written /\ p \notin Linked(disk[p])
        /\ p = 0 => disk[p].leaf
    BY <1>3 DEF IInv, LinksWritten, NotOwnChild, PageZeroIsLeaf, Written
  <2> QED BY <1>2, <1>3, <2>1, <2>2
<1>4. CASE p \notin Written
  <2>1. ReadPage(disk, p) = EmptyLeaf
    BY <1>1, <1>4, ReadPageSound DEF Written
  <2> QED BY <1>2, <1>4, <2>1, ZeroPageProps DEF EmptyLeaf
<1> QED BY <1>3, <1>4

\* Entering a root with room keeps the invariant.
LEMMA EnterRootIInv ==
  ASSUME IInv, NEW e \in Entry, EnterRoot(e)
  PROVE  IInv'
<1> USE DEF EnterRoot, Idle, fileVars
<1>1. TypeOK'
  BY DEF IInv, TypeOK
<1>2. PagesFit' /\ LinksWritten' /\ LinksDue' /\ FreshPages' /\ NotOwnChild'
  BY DEF IInv, PagesFit, LinksWritten, LinksDue, FreshPages, NotOwnChild, Written
<1>3. Allocated'
  BY DEF IInv, Allocated
<1>4. NeverFull'
  BY DEF NeverFull
<1>5. PageZeroIsLeaf' /\ PageZeroDue'
  BY DEF IInv, PageZeroIsLeaf, PageZeroDue, Written
<1> QED BY <1>1, <1>2, <1>3, <1>4, <1>5 DEF IInv

\* The end of the process before any page write, and a new start, keep it.
LEMMA RestartIInv ==
  ASSUME IInv, Restart
  PROVE  IInv'
<1>1. /\ disk' = disk /\ pages' = pages /\ next_page_id' = pages + 1
      /\ root_page_id' = 0 /\ todo' = {} /\ at' = 0 /\ writes' = <<>>
  BY DEF Restart, FormatRoot, IInv, PageZeroDue, Written
<1>2. TypeOK'
  BY <1>1 DEF IInv, TypeOK, Page
<1>3. PagesFit' /\ LinksWritten' /\ LinksDue' /\ NotOwnChild'
  BY <1>1 DEF IInv, PagesFit, LinksWritten, LinksDue, NotOwnChild, Written
<1>4. FreshPages' /\ Allocated'
  BY <1>1 DEF IInv, TypeOK, FreshPages, Allocated
<1>5. NeverFull' /\ PageZeroIsLeaf' /\ PageZeroDue'
  BY <1>1 DEF IInv, NeverFull, PageZeroIsLeaf, PageZeroDue, Written
<1> QED BY <1>2, <1>3, <1>4, <1>5 DEF IInv
\* The last write of an insert: the node the entry was placed in.
LEMMA PlaceIInv ==
  ASSUME IInv, writes = <<>>, NEW m \in Node, Sound(m),
         Linked(m) = Linked(ReadPage(disk, at)),
         m.leaf = ReadPage(disk, at).leaf,
         Place(m)
  PROVE  IInv'
<1>1. /\ writes' = <<Write(at, m)>> /\ todo' = {} /\ at' = 0
      /\ disk' = disk /\ pages' = pages
      /\ next_page_id' = next_page_id /\ root_page_id' = root_page_id
  BY DEF Place, fileVars
<1>2. /\ Len(writes') = 1 /\ DOMAIN writes' = 1..1
      /\ writes'[1].page = at /\ writes'[1].node = m
  BY <1>1 DEF Write
<1>3. TypeOK'
  <2>1. Write(at, m) \in [page: Page, node: Node]
    BY DEF IInv, TypeOK, Write
  <2> QED BY <1>1, <2>1 DEF IInv, TypeOK, Page
<1>4. PagesFit' /\ LinksWritten' /\ LinksDue' /\ NotOwnChild'
  <2>1. Linked(m) \subseteq Written /\ at \notin Linked(m)
    BY LoadedProps
  <2> QED BY <1>1, <1>2, <2>1
    DEF IInv, PagesFit, LinksWritten, LinksDue, NotOwnChild, Written
<1>5. FreshPages' /\ Allocated'
  BY <1>1, <1>2, LoadedProps DEF IInv, TypeOK, FreshPages, Allocated
<1>6. NeverFull'
  BY <1>1 DEF NeverFull
<1>7. PageZeroIsLeaf' /\ PageZeroDue'
  <2>1. at = 0 => m.leaf
    BY LoadedProps
  <2> QED BY <1>1, <1>2, <2>1 DEF IInv, PageZeroIsLeaf, PageZeroDue, Written
<1> QED BY <1>3, <1>4, <1>5, <1>6, <1>7 DEF IInv

\* With no write due, the node the insert works on has room.
LEMMA RoomAtNode ==
  ASSUME IInv, writes = <<>>, todo # {}
  PROVE  ~Full(ReadPage(disk, at))
BY DEF IInv, NeverFull

\* Overwriting an entry keeps it.
LEMMA UpdateEntryIInv ==
  ASSUME IInv, writes = <<>>, NEW e \in Entry, UpdateEntry(e, ReadPage(disk, at))
  PROVE  IInv'
<1> DEFINE n == ReadPage(disk, at)
<1>1. n \in Node /\ Sound(n) /\ Len(n.ents) \in Nat
  BY LoadedProps, NodeProps
<1>2. PICK j \in Matches(n, e.key) : Place([n EXCEPT !.ents = ReplaceAt(@, j, e)])
  BY DEF UpdateEntry
<1> DEFINE m == [n EXCEPT !.ents = ReplaceAt(@, j, e)]
<1>3. j \in 1..Len(n.ents) + 1 /\ j <= Len(n.ents)
  BY <1>1 DEF Matches
<1>4. m \in Node /\ Sound(m) /\ Linked(m) = Linked(n) /\ m.leaf = n.leaf
  <2> HIDE DEF n
  <2> QED BY <1>1, <1>3, PlacedProps
<1> HIDE DEF m
<1> QED BY <1>2, <1>4, PlaceIInv DEF m

\* Putting the entry into a leaf keeps it: NeverFull says that the leaf has room.
LEMMA AddToLeafIInv ==
  ASSUME IInv, writes = <<>>, todo # {}, NEW e \in Entry,
         AddToLeaf(e, ReadPage(disk, at))
  PROVE  IInv'
<1> DEFINE n == ReadPage(disk, at)
<1>1. n \in Node /\ Sound(n) /\ n.leaf /\ ~Full(n)
  BY LoadedProps, RoomAtNode DEF AddToLeaf
<1>2. PICK i \in 1..Len(n.ents) + 1 : Place([n EXCEPT !.ents = InsertAt(@, i, e)])
  BY DEF AddToLeaf
<1> DEFINE m == [n EXCEPT !.ents = InsertAt(@, i, e)]
<1>3. m \in Node /\ Sound(m) /\ Linked(m) = Linked(n) /\ m.leaf = n.leaf
  <2> HIDE DEF n
  <2> QED BY <1>1, PlacedProps
<1> HIDE DEF m
<1> QED BY <1>2, <1>3, PlaceIInv DEF m

\* Going on with a child that has room keeps it.
LEMMA DescendIInv ==
  ASSUME IInv, writes = <<>>, NEW e \in Entry, Descend(e, ReadPage(disk, at))
  PROVE  IInv'
<1> DEFINE n == ReadPage(disk, at)
<1>1. PICK i \in 1..Len(n.kids) :
        /\ ~Full(ReadPage(disk, n.kids[i])) /\ at' = n.kids[i]
        /\ UNCHANGED <<fileVars, next_page_id, root_page_id, todo, writes>>
  BY DEF Descend
<1>2. n.kids[i] \in Written /\ n.kids[i] \in Page /\ n.kids[i] < next_page_id
  <2>1. n.kids[i] \in Linked(n)
    BY LoadedProps, NodeProps DEF Linked
  <2> QED BY <2>1, LoadedProps
<1>3. UNCHANGED <<disk, pages, next_page_id, root_page_id, todo, writes>>
  BY <1>1 DEF fileVars
<1> HIDE DEF n
<1>4. TypeOK' /\ Allocated'
  BY <1>1, <1>2, <1>3 DEF IInv, TypeOK, Allocated
<1>5. PagesFit' /\ LinksWritten' /\ LinksDue' /\ FreshPages' /\ NotOwnChild'
  BY <1>3 DEF IInv, PagesFit, LinksWritten, LinksDue, FreshPages, NotOwnChild, Written
<1>6. NeverFull'
  BY <1>1, <1>3 DEF NeverFull
<1>7. PageZeroIsLeaf' /\ PageZeroDue'
  BY <1>3 DEF IInv, PageZeroIsLeaf, PageZeroDue, Written
<1> QED BY <1>4, <1>5, <1>6, <1>7 DEF IInv
\* What one page write does to the file and to the writes that are due.
LEMMA FlushIs ==
  ASSUME IInv, FlushPage, NEW w, w = Head(writes)
  PROVE  /\ writes \in Seq(WriteRec) /\ Len(writes) \in Nat /\ Len(writes) >= 1
         /\ w = writes[1] /\ DOMAIN writes = 1..Len(writes)
         /\ w.page \in Nat /\ w.node \in Node
         /\ Sound(w.node) /\ w.node # ZeroPage /\ w.page < next_page_id
         /\ Linked(w.node) \subseteq Written /\ w.page \notin Linked(w.node)
         /\ (w.page = 0 => w.node.leaf)
         /\ writes' \in Seq(WriteRec) /\ Len(writes') = Len(writes) - 1
         /\ DOMAIN writes' = 1..Len(writes) - 1
         /\ \A i \in 1..Len(writes) - 1 :
              i + 1 \in DOMAIN writes /\ writes'[i] = writes[i + 1]
         /\ pages' \in Nat \ {0} /\ w.page < pages' /\ pages' <= next_page_id
         /\ DOMAIN disk' = 0..pages' - 1
         /\ disk' \in [0..pages' - 1 -> Node]
         /\ disk'[w.page] = w.node /\ w.page \in DOMAIN disk'
         /\ \A p \in DOMAIN disk' : p # w.page =>
              disk'[p] = IF p \in DOMAIN disk THEN disk[p] ELSE ZeroPage
         /\ DOMAIN disk \subseteq DOMAIN disk'
         /\ UNCHANGED <<next_page_id, root_page_id, todo, at>>
<1>1. /\ writes \in Seq(WriteRec) /\ writes # <<>> /\ Len(writes) \in Nat /\ Len(writes) >= 1
      /\ w = writes[1] /\ DOMAIN writes = 1..Len(writes)
      /\ w.page \in Nat /\ w.node \in Node
      /\ pages \in Nat \ {0} /\ disk \in [0..pages - 1 -> Node]
      /\ next_page_id \in Nat /\ root_page_id \in Page /\ at \in Page
      /\ todo \in SUBSET Entry
  <2>1. /\ writes \in Seq(WriteRec) /\ writes # <<>>
        /\ pages \in Nat \ {0} /\ disk \in [0..pages - 1 -> Node]
        /\ next_page_id \in Nat /\ root_page_id \in Page /\ at \in Page
        /\ todo \in SUBSET Entry
    BY DEF FlushPage, IInv, TypeOK, WriteRec
  <2>2. Len(writes) \in Nat /\ Len(writes) >= 1 /\ DOMAIN writes = 1..Len(writes)
    BY <2>1, EmptySequence
  <2>3. w = writes[1]
    BY <2>1, <2>2, HeadTailProperties
  <2>4. writes[1] \in WriteRec
    BY <2>1, <2>2, ElementOfSeq
  <2>5. w.page \in Nat /\ w.node \in Node
    BY <2>3, <2>4 DEF WriteRec, Page
  <2> QED BY <2>1, <2>2, <2>3, <2>5
<1>2. /\ disk' = WritePage(disk, w.page, w.node)
      /\ pages' = (IF w.page >= pages THEN w.page + 1 ELSE pages)
      /\ writes' = Tail(writes)
      /\ next_page_id' = next_page_id /\ root_page_id' = root_page_id
      /\ todo' = todo /\ at' = at
  BY DEF FlushPage
<1>3. /\ writes' \in Seq(WriteRec) /\ Len(writes') = Len(writes) - 1
      /\ DOMAIN writes' = 1..Len(writes) - 1
      /\ \A i \in 1..Len(writes) - 1 :
           i + 1 \in DOMAIN writes /\ writes'[i] = writes[i + 1]
  BY <1>1, <1>2
<1>4. Sound(w.node) /\ w.node # ZeroPage /\ w.page < next_page_id
      /\ Linked(w.node) \subseteq Written /\ w.page \notin Linked(w.node)
      /\ (w.page = 0 => w.node.leaf)
  BY <1>1, ZeroPageProps
  DEF IInv, PagesFit, FreshPages, LinksDue, NotOwnChild, PageZeroDue
<1>5. /\ DOMAIN disk' = 0..pages' - 1
      /\ disk' \in [0..pages' - 1 -> Node]
      /\ disk'[w.page] = w.node /\ w.page \in DOMAIN disk'
      /\ \A p \in DOMAIN disk' : p # w.page =>
           disk'[p] = IF p \in DOMAIN disk THEN disk[p] ELSE ZeroPage
      /\ DOMAIN disk \subseteq DOMAIN disk'
  <2>1. DOMAIN disk \cup 0..w.page = 0..pages' - 1
    BY <1>1, <1>2
  <2> QED BY <1>1, <1>2, <2>1, ZeroPageProps DEF WritePage
<1>6. pages' \in Nat \ {0} /\ w.page < pages' /\ pages' <= next_page_id
  <2>1. pages <= next_page_id
    BY DEF IInv, FreshPages
  <2> QED BY <2>1, <1>1, <1>2, <1>4
<1> QED BY <1>1, <1>2, <1>3, <1>4, <1>5, <1>6

\* One page write reaches the file.
LEMMA FlushPageIInv ==
  ASSUME IInv, FlushPage
  PROVE  IInv'
<1> DEFINE w == Head(writes)
<1>1. /\ writes \in Seq(WriteRec) /\ Len(writes) \in Nat /\ Len(writes) >= 1
      /\ w = writes[1] /\ DOMAIN writes = 1..Len(writes)
      /\ w.page \in Nat /\ w.node \in Node
      /\ pages \in Nat \ {0} /\ disk \in [0..pages - 1 -> Node]
      /\ next_page_id \in Nat /\ root_page_id \in Page /\ at \in Page
      /\ todo \in SUBSET Entry
  BY FlushIs DEF IInv, TypeOK
<1>2. /\ next_page_id' = next_page_id /\ root_page_id' = root_page_id
      /\ todo' = todo /\ at' = at
      /\ pages' \in Nat \ {0} /\ pages' <= next_page_id
  BY FlushIs
<1>3. /\ writes' \in Seq(WriteRec) /\ Len(writes') = Len(writes) - 1
      /\ DOMAIN writes' = 1..Len(writes) - 1
      /\ \A i \in 1..Len(writes) - 1 :
           i + 1 \in DOMAIN writes /\ writes'[i] = writes[i + 1]
  BY FlushIs
<1>4. /\ Sound(w.node) /\ w.node # ZeroPage /\ w.page < next_page_id
      /\ Linked(w.node) \subseteq Written /\ w.page \notin Linked(w.node)
      /\ (w.page = 0 => w.node.leaf)
  BY FlushIs
<1>5. /\ DOMAIN disk' = 0..pages' - 1
      /\ disk' \in [0..pages' - 1 -> Node]
      /\ disk'[w.page] = w.node /\ w.page \in DOMAIN disk'
      /\ \A p \in DOMAIN disk' : p # w.page =>
           disk'[p] = IF p \in DOMAIN disk THEN disk[p] ELSE ZeroPage
      /\ DOMAIN disk \subseteq DOMAIN disk'
  BY FlushIs
<1> HIDE DEF w
<1>6. Written' = Written \cup {w.page}
  BY <1>4, <1>5 DEF Written
<1>7. TypeOK'
  BY <1>1, <1>2, <1>3, <1>5 DEF TypeOK, WriteRec
<1>8. PagesFit'
  BY <1>3, <1>4, <1>5 DEF IInv, PagesFit
<1>9. LinksWritten'
  <2> SUFFICES ASSUME NEW p \in DOMAIN disk' PROVE Linked(disk'[p]) \subseteq Written'
    BY DEF LinksWritten
  <2>1. CASE p = w.page
    BY <2>1, <1>4, <1>5, <1>6
  <2>2. CASE p # w.page /\ p \in DOMAIN disk
    BY <2>2, <1>5, <1>6 DEF IInv, LinksWritten
  <2>3. CASE p # w.page /\ p \notin DOMAIN disk
    BY <2>3, <1>5, ZeroPageProps
  <2> QED BY <2>1, <2>2, <2>3
<1>10. LinksDue'
  <2> SUFFICES ASSUME NEW i \in DOMAIN writes'
               PROVE Linked(writes'[i].node) \subseteq
                       Written' \cup {writes'[j].page : j \in 1..i - 1}
    BY DEF LinksDue
  <2>1. i \in 1..Len(writes) - 1 /\ i + 1 \in DOMAIN writes /\ writes'[i] = writes[i + 1]
    BY <1>3
  <2>2. Linked(writes[i + 1].node) \subseteq
          Written \cup {writes[j].page : j \in 1..(i + 1) - 1}
    BY <2>1 DEF IInv, LinksDue
  <2>3. ASSUME NEW j \in 1..(i + 1) - 1
        PROVE  writes[j].page = w.page \/ writes[j].page \in {writes'[k].page : k \in 1..i - 1}
    <3>1. CASE j = 1
      BY <3>1, <1>1
    <3>2. CASE j # 1
      <4>1. j - 1 \in 1..i - 1 /\ j - 1 \in 1..Len(writes) - 1 /\ (j - 1) + 1 = j
        BY <3>2, <2>1, <1>1
      <4>2. writes'[j - 1] = writes[j]
        BY <4>1, <1>3
      <4> QED BY <4>1, <4>2
    <3> QED BY <3>1, <3>2
  <2> QED BY <2>1, <2>2, <2>3, <1>6
<1>11. FreshPages' /\ Allocated'
  BY <1>1, <1>2, <1>3, <1>4 DEF IInv, FreshPages, Allocated
<1>12. NotOwnChild'
  BY <1>3, <1>4, <1>5, ZeroPageProps DEF IInv, NotOwnChild
<1>13. NeverFull'
  <2> SUFFICES ASSUME todo' # {}
               PROVE /\ \A i \in DOMAIN writes' : writes'[i].page = at' => ~Full(writes'[i].node)
                     /\ \/ \E i \in DOMAIN writes' : writes'[i].page = at'
                        \/ ~Full(ReadPage(disk', at'))
    BY DEF NeverFull
  <2>1. /\ \A i \in DOMAIN writes : writes[i].page = at => ~Full(writes[i].node)
        /\ \/ \E i \in DOMAIN writes : writes[i].page = at
           \/ ~Full(ReadPage(disk, at))
    BY <1>2 DEF IInv, NeverFull
  <2>2. CASE at = w.page
    <3>1. ReadPage(disk', at) = w.node
      BY <2>2, <1>1, <1>4, <1>5, LoadSound DEF ReadPage
    <3>2. ~Full(w.node)
      BY <2>1, <2>2, <1>1
    <3> QED BY <3>1, <3>2, <2>1, <1>2, <1>3
  <2>3. CASE at # w.page
    <3>1. ReadPage(disk', at) = ReadPage(disk, at)
      BY <2>3, <1>1, <1>5 DEF ReadPage
    <3>2. ASSUME NEW i \in DOMAIN writes, writes[i].page = at
          PROVE  \E k \in DOMAIN writes' : writes'[k].page = at
      <4>1. i # 1
        BY <3>2, <2>3, <1>1
      <4>2. i - 1 \in 1..Len(writes) - 1 /\ (i - 1) + 1 = i
        BY <4>1, <1>1
      <4> QED BY <3>2, <4>2, <1>3
    <3> QED BY <3>1, <3>2, <2>1, <1>2, <1>3
  <2> QED BY <2>2, <2>3
<1>14. PageZeroIsLeaf'
  <2>1. 0 \in DOMAIN disk /\ disk[0].leaf
    BY <1>1 DEF IInv, PageZeroIsLeaf
  <2> QED BY <2>1, <1>4, <1>5 DEF PageZeroIsLeaf
<1>15. PageZeroDue'
  BY <1>3, <1>6 DEF IInv, PageZeroDue
<1> QED BY <1>7, <1>8, <1>9, <1>10, <1>11, <1>12, <1>13, <1>14, <1>15 DEF IInv
\* The writes of split_child, for a child page c whose halves are lo and up, a
\* new page q and the parent's new contents pr, which may be written twice.
SplitWrites(ws, c, lo, q, up, parent, pr) ==
  /\ ws \in Seq(WriteRec) /\ Len(ws) >= 3
  /\ ws[1] = Write(c, lo) /\ ws[2] = Write(q, up)
  /\ \A i \in 3..Len(ws) : ws[i] = Write(parent, pr)

\* split_child's writes, and insert's, which saves the new root once more.
LEMMA SplitWritesOf ==
  ASSUME NEW c \in Page, NEW q \in Page, NEW parent \in Page,
         NEW lo \in Node, NEW up \in Node, NEW pr \in Node,
         NEW s, s = << Write(c, lo), Write(q, up), Write(parent, pr) >>
  PROVE  /\ SplitWrites(s, c, lo, q, up, parent, pr)
         /\ SplitWrites(Append(s, s[3]), c, lo, q, up, parent, pr)
<1>1. Write(c, lo) \in WriteRec /\ Write(q, up) \in WriteRec /\ Write(parent, pr) \in WriteRec
  BY DEF Write, WriteRec
<1>2. s \in Seq(WriteRec) /\ Len(s) = 3 /\ s[3] \in WriteRec
  BY <1>1
<1>3. SplitWrites(s, c, lo, q, up, parent, pr)
  BY <1>2 DEF SplitWrites
<1> DEFINE t == Append(s, s[3])
<1>4. /\ t \in Seq(WriteRec) /\ Len(t) = Len(s) + 1
      /\ \A i \in 1..Len(s) : t[i] = s[i]
      /\ t[Len(s) + 1] = s[3]
  BY <1>2, AppendProperties
<1> HIDE DEF t
<1>5. Len(t) = 4 /\ t[4] = s[3] /\ t[1] = s[1] /\ t[2] = s[2] /\ t[3] = s[3]
  BY <1>2, <1>4
<1>6. 3..Len(t) = {3, 4}
  BY <1>5
<1>7. SplitWrites(t, c, lo, q, up, parent, pr)
  BY <1>4, <1>5, <1>6 DEF SplitWrites
<1> QED BY <1>3, <1>7 DEF t

\* Any split of a page c into lo and up, linked from the sound parent pr, keeps it:
\* what SplitFullChild and GrowRoot have in common.
LEMMA SplitIInv ==
  ASSUME IInv, NEW c \in Written, NEW q \in Page, NEW parent \in Page,
         NEW lo \in Node, NEW up \in Node, NEW pr \in Node,
         Sound(lo), Sound(up), Sound(pr), ~Full(lo), ~Full(up),
         Linked(lo) \subseteq Written \ {c}, Linked(up) \subseteq Written,
         Linked(pr) \subseteq Written \cup {q}, parent \notin Linked(pr),
         c = 0 => lo.leaf, parent # 0, parent # c, parent # q, next_page_id <= q,
         SplitWrites(writes', c, lo, q, up, parent, pr),
         next_page_id' \in Nat, q < next_page_id', parent < next_page_id',
         UNCHANGED <<disk, pages>>,
         root_page_id' \in Page, root_page_id' < next_page_id', todo' \in SUBSET Entry,
         at' \in {c, q} \/ (at' = parent /\ ~Full(pr))
  PROVE  IInv'
<1>1. /\ c \in Nat /\ c < next_page_id /\ q \in Nat /\ parent \in Nat
      /\ q \notin Written /\ q # 0 /\ q # c
      /\ pages \in Nat /\ next_page_id \in Nat /\ pages <= next_page_id
      /\ disk \in [0..pages - 1 -> Node]
  BY LoadedProps DEF IInv, TypeOK, FreshPages, Page
<1>2. /\ writes' \in Seq(WriteRec) /\ Len(writes') \in Nat /\ Len(writes') >= 3
      /\ DOMAIN writes' = 1..Len(writes')
  BY EmptySequence DEF SplitWrites
<1>3. /\ writes'[1].page = c /\ writes'[1].node = lo
      /\ writes'[2].page = q /\ writes'[2].node = up
      /\ \A i \in 3..Len(writes') : writes'[i].page = parent /\ writes'[i].node = pr
  BY DEF SplitWrites, Write
<1>4. \A i \in DOMAIN writes' : i = 1 \/ i = 2 \/ i \in 3..Len(writes')
  BY <1>2
<1>5. 1 \in DOMAIN writes' /\ 2 \in DOMAIN writes' /\ 3 \in DOMAIN writes'
      /\ 3 \in 3..Len(writes')
  BY <1>2
<1>6. Written' = Written
  BY DEF Written
<1>7. TypeOK'
  <2>1. at' \in Page
    BY <1>1 DEF Page
  <2> QED BY <1>2, <2>1 DEF IInv, TypeOK, WriteRec
<1>8. PagesFit' /\ LinksWritten' /\ NotOwnChild'
  <2>1. q \notin Linked(up) /\ c \notin Linked(lo)
    BY <1>1
  <2> QED BY <1>3, <1>4, <1>6, <2>1 DEF IInv, PagesFit, LinksWritten, NotOwnChild
<1>9. LinksDue'
  <2> SUFFICES ASSUME NEW i \in DOMAIN writes'
               PROVE Linked(writes'[i].node) \subseteq
                       Written' \cup {writes'[j].page : j \in 1..i - 1}
    BY DEF LinksDue
  <2>1. CASE i = 1 \/ i = 2
    BY <2>1, <1>3, <1>6
  <2>2. CASE i \in 3..Len(writes')
    <3>1. 2 \in 1..i - 1
      BY <2>2, <1>2
    <3>2. q \in {writes'[j].page : j \in 1..i - 1}
      BY <3>1, <1>3
    <3> QED BY <2>2, <3>2, <1>3, <1>6
  <2> QED BY <2>1, <2>2, <1>4
<1>10. FreshPages' /\ Allocated'
  BY <1>1, <1>3, <1>4 DEF FreshPages, Allocated
<1>11. NeverFull'
  <2>1. ASSUME NEW i \in DOMAIN writes', writes'[i].page = at'
        PROVE  ~Full(writes'[i].node)
    BY <2>1, <1>1, <1>3, <1>4
  <2>2. \E i \in DOMAIN writes' : writes'[i].page = at'
    BY <1>3, <1>5
  <2> QED BY <2>1, <2>2 DEF NeverFull
<1>12. PageZeroIsLeaf' /\ PageZeroDue'
  BY <1>1, <1>3, <1>4, <1>6 DEF IInv, PageZeroIsLeaf, PageZeroDue
<1> QED BY <1>7, <1>8, <1>9, <1>10, <1>11, <1>12 DEF IInv

\* Splitting a child on the way down keeps it: NeverFull says that its parent has room.
LEMMA SplitFullChildIInv ==
  ASSUME IInv, writes = <<>>, todo # {}, NEW e \in Entry,
         SplitFullChild(e, ReadPage(disk, at))
  PROVE  IInv'
<1> DEFINE n == ReadPage(disk, at)
<1>1. PICK i \in 1..Len(n.kids) :
        LET child == ReadPage(disk, n.kids[i])
        IN /\ ~n.leaf /\ Full(child)
           /\ writes' = SplitChild(at, n, i, child, next_page_id)
           /\ next_page_id' = next_page_id + 1
           /\ at' = IF e.key > child.ents[Degree].key THEN next_page_id ELSE n.kids[i]
           /\ UNCHANGED <<fileVars, root_page_id, todo>>
  BY DEF SplitFullChild, Below
<1> DEFINE c     == n.kids[i]
           child == ReadPage(disk, c)
           q     == next_page_id
           lo    == LowerHalf(child)
           up    == UpperHalf(child)
           pr    == Promote(n, i, child.ents[Degree], q)
<1>2. /\ n \in Node /\ Sound(n) /\ ~Full(n) /\ ~n.leaf
      /\ Linked(n) \subseteq Written /\ at \notin Linked(n)
      /\ at # 0 /\ at \in Page /\ at \in Nat /\ at < q /\ q \in Nat /\ q \in Page
      /\ root_page_id \in Page /\ root_page_id \in Nat /\ root_page_id < q
      /\ todo \in SUBSET Entry
  BY <1>1, LoadedProps, RoomAtNode DEF IInv, TypeOK, Allocated, Page
<1>3. c \in Linked(n) /\ c \in Written /\ c \in Page /\ at # c
  BY <1>2, NodeProps DEF Linked
<1>4. /\ child \in Node /\ Sound(child) /\ Full(child)
      /\ Linked(child) \subseteq Written /\ c \notin Linked(child)
      /\ c = 0 => child.leaf
  BY <1>1, LoadedProps
<1>5. HasRoom(n)
  BY <1>2, NodeProps, MaxKeysProps DEF HasRoom, Sound, Full
<1> HIDE DEF n, c, child
<1>6. /\ lo \in Node /\ up \in Node /\ Sound(lo) /\ Sound(up) /\ ~Full(lo) /\ ~Full(up)
      /\ Linked(lo) \subseteq Linked(child) /\ Linked(up) \subseteq Linked(child)
      /\ lo.leaf = child.leaf /\ child.ents[Degree] \in Entry
  BY <1>4, HalvesProps
<1>7. pr \in Node /\ Sound(pr) /\ Linked(pr) \subseteq Linked(n) \cup {q}
  BY <1>2, <1>5, <1>6, PromoteProps
<1>8. writes' = << Write(c, lo), Write(q, up), Write(at, pr) >>
  BY <1>1 DEF SplitChild, c, child
<1> HIDE DEF lo, up, pr
<1>9. SplitWrites(writes', c, lo, q, up, at, pr)
  BY <1>2, <1>3, <1>6, <1>7, <1>8, SplitWritesOf
<1>10. /\ UNCHANGED <<disk, pages>> /\ root_page_id' = root_page_id /\ todo' = todo
       /\ next_page_id' = q + 1 /\ at' \in {c, q}
  BY <1>1 DEF fileVars, c, child
<1> QED BY <1>2, <1>3, <1>4, <1>6, <1>7, <1>9, <1>10, SplitIInv

\* Growing a new root keeps it.
LEMMA GrowRootIInv ==
  ASSUME IInv, NEW e \in Entry, GrowRoot(e)
  PROVE  IInv'
<1> DEFINE q     == next_page_id + 1
           nr    == [leaf |-> FALSE, ents |-> <<>>, kids |-> <<root_page_id>>]
           child == ReadPage(disk, root_page_id)
           lo    == LowerHalf(child)
           up    == UpperHalf(child)
           pr    == Promote(nr, 1, child.ents[Degree], q)
<1>1. /\ Full(child) /\ root_page_id \in Page /\ root_page_id \in Nat
      /\ next_page_id \in Nat /\ root_page_id < next_page_id
      /\ next_page_id \in Page /\ q \in Page /\ q \in Nat /\ next_page_id # 0
  BY LoadedProps DEF GrowRoot, IInv, TypeOK, Allocated, Page
<1>2. /\ child \in Node /\ Sound(child) /\ root_page_id \in Written
      /\ Linked(child) \subseteq Written /\ root_page_id \notin Linked(child)
      /\ root_page_id = 0 => child.leaf
  BY <1>1, LoadedProps
<1>3. nr \in Node /\ HasRoom(nr)
  BY <1>1, MaxKeysProps DEF Node, HasRoom
<1>10. Len(nr.kids) = 1 /\ Linked(nr) = {root_page_id} /\ Len(nr.ents) = 0
  BY DEF Linked
<1> HIDE DEF child
<1>4. /\ lo \in Node /\ up \in Node /\ Sound(lo) /\ Sound(up) /\ ~Full(lo) /\ ~Full(up)
      /\ Linked(lo) \subseteq Linked(child) /\ Linked(up) \subseteq Linked(child)
      /\ lo.leaf = child.leaf /\ child.ents[Degree] \in Entry
  BY <1>1, <1>2, HalvesProps
<1>5. pr \in Node /\ Sound(pr) /\ Linked(pr) \subseteq {root_page_id, q} /\ ~Full(pr)
  <2> HIDE DEF nr, lo, up
  <2>1. ASSUME NEW x \in Entry, NEW r \in Page, NEW i \in 1..Len(nr.kids)
        PROVE  /\ Promote(nr, i, x, r) \in Node /\ Sound(Promote(nr, i, x, r))
               /\ Linked(Promote(nr, i, x, r)) \subseteq Linked(nr) \cup {r}
               /\ Len(Promote(nr, i, x, r).ents) = Len(nr.ents) + 1
    BY <1>3, PromoteProps
  <2>2. 1 \in 1..Len(nr.kids)
    BY <1>10
  <2>3. /\ pr \in Node /\ Sound(pr) /\ Linked(pr) \subseteq Linked(nr) \cup {q}
        /\ Len(pr.ents) = Len(nr.ents) + 1
    BY <1>1, <1>4, <2>1, <2>2
  <2> HIDE DEF pr
  <2>4. Len(pr.ents) = 1
    BY <1>10, <2>3
  <2> QED BY <1>10, <2>3, <2>4, MaxKeysProps DEF Full
<1>6. /\ SplitChild(next_page_id, nr, 1, child, q) =
           << Write(root_page_id, lo), Write(q, up), Write(next_page_id, pr) >>
      /\ writes' = Append(SplitChild(next_page_id, nr, 1, child, q),
                          SplitChild(next_page_id, nr, 1, child, q)[3])
  BY DEF GrowRoot, SplitChild, child
<1> HIDE DEF lo, up, pr, nr
<1>7. SplitWrites(writes', root_page_id, lo, q, up, next_page_id, pr)
  <2> DEFINE s == << Write(root_page_id, lo), Write(q, up), Write(next_page_id, pr) >>
  <2>1. SplitWrites(Append(s, s[3]), root_page_id, lo, q, up, next_page_id, pr)
    BY <1>1, <1>4, <1>5, SplitWritesOf
  <2>2. writes' = Append(s, s[3])
    BY <1>6
  <2> HIDE DEF s
  <2> QED BY <2>1, <2>2
<1>8. /\ UNCHANGED <<disk, pages>> /\ root_page_id' = next_page_id /\ todo' = {e}
      /\ next_page_id' = next_page_id + 2 /\ at' = next_page_id
  BY DEF GrowRoot, fileVars
<1> QED BY <1>1, <1>2, <1>4, <1>5, <1>7, <1>8, SplitIInv

\* Every step of the tree keeps the invariant.
LEMMA StepIInv ==
  ASSUME IInv, [Next]_vars
  PROVE  IInv'
<1>1. ASSUME NEW e \in Entry, Insert(e) PROVE IInv'
  BY <1>1, EnterRootIInv, GrowRootIInv DEF Insert
<1>2. CASE FlushPage
  BY <1>2, FlushPageIInv
<1>3. CASE Visit
  <2>1. PICK e \in todo :
          /\ writes = <<>>
          /\ \/ UpdateEntry(e, ReadPage(disk, at))
             \/ AddToLeaf(e, ReadPage(disk, at))
             \/ Descend(e, ReadPage(disk, at))
             \/ SplitFullChild(e, ReadPage(disk, at))
    BY <1>3 DEF Visit
  <2>2. e \in Entry /\ todo # {}
    BY DEF IInv, TypeOK
  <2> QED BY <2>1, <2>2, UpdateEntryIInv, AddToLeafIInv, DescendIInv, SplitFullChildIInv
<1>4. CASE Restart
  BY <1>4, RestartIInv
<1>5. CASE UNCHANGED vars
  <2>1. UNCHANGED <<disk, pages, next_page_id, root_page_id, todo, at, writes>>
    BY <1>5 DEF vars
  <2>2. TypeOK' /\ PagesFit' /\ LinksWritten' /\ LinksDue' /\ FreshPages'
    BY <2>1 DEF IInv, TypeOK, PagesFit, LinksWritten, LinksDue, FreshPages, Written
  <2>3. Allocated' /\ NotOwnChild' /\ NeverFull' /\ PageZeroIsLeaf' /\ PageZeroDue'
    BY <2>1 DEF IInv, Allocated, NotOwnChild, NeverFull, PageZeroIsLeaf, PageZeroDue, Written
  <2> QED BY <2>2, <2>3 DEF IInv
<1> QED BY <1>1, <1>2, <1>3, <1>4, <1>5 DEF Next, Step

-----------------------------------------------------------------------------
(* Theorems *)

\* IInv is an invariant of the tree for any mix of new and known keys.
THEOREM Invariant == Spec => []IInv
<1>1. Init => IInv
  BY InitIInv
<1>2. IInv /\ [Next]_vars => IInv'
  BY StepIInv
<1> QED BY <1>1, <1>2, PTL DEF Spec

\* Every variable keeps its type.
THEOREM TypeCorrect == Spec => []TypeOK
<1>1. IInv => TypeOK
  BY DEF IInv
<1> QED BY <1>1, Invariant, PTL

\* BTree::insert, Node::serialize: no page overflows and every crash leaves a
\* file of nodes that deserialize reads back unchanged.
THEOREM PagesAlwaysFit == Spec => []PagesFit
<1>1. IInv => PagesFit
  BY DEF IInv
<1> QED BY <1>1, Invariant, PTL

\* split_child: a crash between its saves leaves no link to an unwritten page.
THEOREM LinksAlwaysWritten == Spec => []LinksWritten
<1>1. IInv => LinksWritten
  BY DEF IInv
<1> QED BY <1>1, Invariant, PTL

\* DiskManager::allocate_page never hands out a page in use, across restarts.
THEOREM PagesAlwaysFresh == Spec => []FreshPages
<1>1. IInv => FreshPages
  BY DEF IInv
<1> QED BY <1>1, Invariant, PTL

\* BTree::insert_non_full only ever works on nodes with room.
THEOREM NodesNeverFull == Spec => []NeverFull
<1>1. IInv => NeverFull
  BY DEF IInv
<1> QED BY <1>1, Invariant, PTL

\* The page that every new process takes for its root is a leaf at all times,
\* so that a process that opens a file sees at most one node's entries.
THEOREM PageZeroStaysLeaf == Spec => []PageZeroIsLeaf
<1>1. IInv => PageZeroIsLeaf
  BY DEF IInv
<1> QED BY <1>1, Invariant, PTL

\* Callers that only insert new keys keep all of this: their specification
\* implements the general one.
THEOREM NewKeysImplement == NewSpec => Spec
<1>1. [NextNew]_vars => [Next]_vars
  BY DEF NextNew, Next, InsertNew
<1> QED BY <1>1, PTL DEF NewSpec, Spec

-----------------------------------------------------------------------------
(* The tree of a state: the nodes as they will be when the writes that are   *)
(* due have been made.                                                       *)

\* The node that each page gets.
Cur == [p \in Page |-> ReadPage(Overlay, p)]

\* No write of page p is due.
NoneDue(p) == \A j \in DOMAIN writes : writes[j].page # p

\* The i-th write is the last for its page.
LastDue(i) ==
  /\ i \in DOMAIN writes
  /\ \A j \in DOMAIN writes : j > i => writes[j].page # writes[i].page

\* A page gets the node that it has when all the writes are made.
Agreed == \A i \in DOMAIN writes : Cur[writes[i].page] = writes[i].node

\* A page has the node that will be written last, or the one in the file.
CurFacts ==
  /\ Cur \in [Page -> Node]
  /\ \A p \in Page : Sound(Cur[p])
  /\ \A p \in Page : NoneDue(p) => Cur[p] = ReadPage(disk, p)
  /\ \A i : LastDue(i) => Cur[writes[i].page] = writes[i].node
  /\ \A p \in Page : ~NoneDue(p) => \E i : LastDue(i) /\ writes[i].page = p

\* In every state the nodes of Cur are what the file and the due writes say.
LEMMA CurIs == IInv => CurFacts
<1> SUFFICES ASSUME IInv PROVE CurFacts
  OBVIOUS
<1> DEFINE due(p) == {i \in DOMAIN writes : writes[i].page = p}
           over == [p \in DOMAIN disk \cup {writes[i].page : i \in DOMAIN writes} |->
                      IF due(p) = {} THEN disk[p] ELSE writes[Max(due(p))].node]
<1>0. Overlay = over
  BY DEF Overlay
<1>1. /\ writes \in Seq([page: Page, node: Node]) /\ Len(writes) \in Nat
      /\ DOMAIN writes = 1..Len(writes)
      /\ pages \in Nat /\ disk \in [0..pages - 1 -> Node]
      /\ \A i \in DOMAIN writes : writes[i].page \in Page /\ writes[i].node \in Node
                                  /\ Sound(writes[i].node)
      /\ \A q \in DOMAIN disk : disk[q] = ZeroPage \/ Sound(disk[q])
  <2>1. writes \in Seq([page: Page, node: Node]) /\ pages \in Nat /\ disk \in [0..pages - 1 -> Node]
    BY DEF IInv, TypeOK
  <2>2. DOMAIN writes = 1..Len(writes) /\ Len(writes) \in Nat
    BY <2>1
  <2>3. \A i \in DOMAIN writes : writes[i] \in [page: Page, node: Node]
    BY <2>1, <2>2, ElementOfSeq
  <2>4. \A i \in DOMAIN writes : writes[i].page \in Page /\ writes[i].node \in Node
    BY <2>3
  <2> QED BY <2>1, <2>2, <2>4 DEF IInv, PagesFit
<1>2. ASSUME NEW p \in Page, ~NoneDue(p) PROVE \E i : LastDue(i) /\ writes[i].page = p
  <2> DEFINE S == {Len(writes) - i : i \in due(p)}
  <2>1. S \in SUBSET Nat /\ S # {}
    BY <1>1, <1>2 DEF NoneDue
  <2> HIDE DEF S
  <2>2. PICK m \in S : \A y \in S : m <= y
    BY <2>1, Least
  <2>3. PICK i \in due(p) : m = Len(writes) - i
    BY <2>2 DEF S
  <2>4. ASSUME NEW j \in due(p) PROVE j <= i
    <3>1. Len(writes) - j \in S
      BY DEF S
    <3>2. Len(writes) - i <= Len(writes) - j
      BY <2>2, <2>3, <3>1
    <3>3. i \in Nat /\ j \in Nat
      BY <1>1
    <3> QED BY <3>2, <3>3, <1>1
  <2>5. \A j \in DOMAIN writes : j > i => writes[j].page # p
    <3> SUFFICES ASSUME NEW j \in DOMAIN writes, j > i, writes[j].page = p PROVE FALSE
      OBVIOUS
    <3>1. j <= i
      BY <2>4
    <3> QED BY <3>1, <1>1
  <2> QED BY <2>5 DEF LastDue
<1>3. ASSUME NEW i, LastDue(i) PROVE Cur[writes[i].page] = writes[i].node
  <2> DEFINE p == writes[i].page
  <2>1. i \in due(p) /\ \A j \in due(p) : i >= j
    BY <1>1, <1>3 DEF LastDue
  <2>2. ASSUME NEW x \in due(p), \A j \in due(p) : x >= j PROVE x = i
    <3>1. x \in Nat /\ i \in Nat
      BY <1>1, <2>1
    <3>2. x >= i /\ i >= x
      BY <2>1, <2>2
    <3> QED BY <3>1, <3>2
  <2>3. Max(due(p)) = i
    <3> HIDE DEF due
    <3> QED BY <2>1, <2>2 DEF Max
  <2>4. over[p] = writes[i].node
    <3>1. due(p) # {} /\ i \in DOMAIN writes
      BY <2>1
    <3>2. p \in DOMAIN disk \cup {writes[k].page : k \in DOMAIN writes}
      BY <3>1
    <3> HIDE DEF due
    <3> QED BY <2>3, <3>1, <3>2
  <2>5. p \in DOMAIN over /\ p \in Page /\ writes[i].node \in Node /\ Sound(writes[i].node)
    BY <2>1, <1>1
  <2> HIDE DEF over, p
  <2>6. ReadPage(Overlay, p) = writes[i].node
    BY <2>4, <2>5, <1>0, LoadSound DEF ReadPage
  <2>7. Cur[p] = writes[i].node
    BY <2>5, <2>6 DEF Cur
  <2> QED BY <2>7 DEF p
<1>4. ASSUME NEW p \in Page, NoneDue(p) PROVE Cur[p] = ReadPage(disk, p)
  <2>1. due(p) = {} /\ p \notin {writes[i].page : i \in DOMAIN writes}
    BY <1>4 DEF NoneDue
  <2>2. p \in DOMAIN over <=> p \in DOMAIN disk
    BY <2>1
  <2>3. p \in DOMAIN disk => over[p] = disk[p]
    BY <2>1
  <2> HIDE DEF over
  <2> QED BY <2>2, <2>3, <1>0 DEF Cur, ReadPage
<1>5. \A p \in Page : Cur[p] \in Node /\ Sound(Cur[p])
  <2> TAKE p \in Page
  <2>1. CASE NoneDue(p)
    BY <2>1, <1>1, <1>4, ReadPageSound
  <2>2. CASE ~NoneDue(p)
    BY <2>2, <1>1, <1>2, <1>3 DEF LastDue
  <2> QED BY <2>1, <2>2
<1>6. Cur \in [Page -> Node]
  <2>1. Cur = [p \in Page |-> Cur[p]]
    BY DEF Cur
  <2> QED BY <2>1, <1>5
<1> QED BY <1>2, <1>3, <1>4, <1>5, <1>6 DEF CurFacts

\* A step that leaves the file and the writes alone leaves the nodes.
LEMMA SameCur == ASSUME UNCHANGED <<disk, writes>> PROVE Cur' = Cur
  BY DEF Cur, Overlay

\* Every node, in the file or on its way there, is above the nodes it links.
Ranked(h) ==
  /\ \A p \in DOMAIN disk : \A x \in Linked(disk[p]) : h[x] < h[p]
  /\ \A i \in DOMAIN writes : \A x \in Linked(writes[i].node) : h[x] < h[writes[i].page]

\* No node, in the file or on its way there, has its keys out of order.
NodesAscend(g) ==
  /\ \A p \in DOMAIN disk : Ascending(g, disk[p].ents)
  /\ \A i \in DOMAIN writes : Ascending(g, writes[i].node.ents)

\* No node of T has an entry with key k.
Absent(c, T, k) == \A p \in T : \A i \in 1..Len(c[p].ents) : c[p].ents[i].key # k

\* No entry of node n has key k.
Lacks(n, k) == \A i \in 1..Len(n.ents) : n.ents[i].key # k

\* No full node of P has an entry with key k, so no split moves one up.
Spared(c, P, k) == \A p \in P : Full(c[p]) => Lacks(c[p], k)

\* The running insert has reached a node below which its key belongs.
Destined(g, T, R) ==
  \A e \in todo : /\ todo = {e}
                  /\ at \in T
                  /\ e.key \in R[at]
                  /\ g > 0 => Spared(Cur, T, e.key)

\* A root with children has an entry between them.
Parting(c, r) == ~c[r].leaf => Len(c[r].ents) >= 1

\* The inductive invariant for some pages T, heights h and spans R: the nodes,
\* with the writes that are due counted in, are a B-tree below the root.
Tree(g, T, h, R) ==
  /\ T \in SUBSET (0..next_page_id - 1) /\ h \in [Page -> Nat] /\ R \in [Page -> SUBSET Int]
  /\ Shape(Cur, root_page_id, T, h)
  /\ Keyed(g, Cur, root_page_id, T, R)
  /\ Parting(Cur, root_page_id)
  /\ Ranked(h)
  /\ NodesAscend(g)
  /\ Destined(g, T, R)

\* There are such pages, heights and spans.
TreeInv(g) == \E T, h, R : Tree(g, T, h, R)

\* Tree, when all the writes that are due are for its nodes.
Decided(g, T, h, R) ==
  /\ T \in SUBSET (0..next_page_id - 1) /\ h \in [Page -> Nat] /\ R \in [Page -> SUBSET Int]
  /\ Cur \in [Page -> Node]
  /\ Shape(Cur, root_page_id, T, h)
  /\ Keyed(g, Cur, root_page_id, T, R)
  /\ Parting(Cur, root_page_id)
  /\ \A i \in DOMAIN writes : /\ writes[i].page \in T
                              /\ Cur[writes[i].page] = writes[i].node
  /\ Destined(g, T, R)

\* The pages allocated so far keep their heights.
SameRank(h, h2) == \A x \in 0..next_page_id - 1 : h2[x] = h[x]

\* The writes a step decides on are for nodes of the new tree, so it is enough
\* that this tree has its shape and its keys.
LEMMA Decide ==
  ASSUME IInv, NEW g, NEW T, NEW h, NEW R, Tree(g, T, h, R),
         UNCHANGED disk, next_page_id' \in Nat,
         NEW T2, NEW h2, NEW R2, SameRank(h, h2), Decided(g, T2, h2, R2)'
  PROVE  Tree(g, T2, h2, R2)'
<1>4. /\ T2 \in SUBSET (0..next_page_id' - 1) /\ h2 \in [Page -> Nat] /\ R2 \in [Page -> SUBSET Int]
      /\ Cur' \in [Page -> Node]
      /\ Shape(Cur', root_page_id', T2, h2) /\ Keyed(g, Cur', root_page_id', T2, R2)
      /\ \A i \in DOMAIN writes' : /\ writes'[i].page \in T2
                                   /\ Cur'[writes'[i].page] = writes'[i].node
      /\ Destined(g, T2, R2)' /\ Parting(Cur', root_page_id')
      /\ \A x \in 0..next_page_id - 1 : h2[x] = h[x]
  BY DEF Decided, SameRank
<1>1. \A p \in DOMAIN disk : p \in 0..next_page_id - 1 /\ Linked(disk[p]) \subseteq 0..next_page_id - 1
  <2>1. /\ pages \in Nat /\ next_page_id \in Nat /\ pages <= next_page_id
        /\ DOMAIN disk = 0..pages - 1 /\ Written \subseteq DOMAIN disk
        /\ \A p \in DOMAIN disk : Linked(disk[p]) \subseteq Written
    BY DEF IInv, TypeOK, FreshPages, LinksWritten, Written
  <2>2. DOMAIN disk \subseteq 0..next_page_id - 1
    BY <2>1
  <2> QED BY <2>1, <2>2
<1>0. T2 \subseteq Page
  <2>1. \A x \in 0..next_page_id' - 1 : x \in Page
    BY DEF Page
  <2> QED BY <2>1, <1>4
<1>2. Ranked(h2)'
  <2>1. ASSUME NEW p \in DOMAIN disk', NEW x \in Linked(disk'[p]) PROVE h2[x] < h2[p]
    <3>1. p \in DOMAIN disk /\ x \in Linked(disk[p])
      BY <2>1
    <3>2. h[x] < h[p]
      BY <3>1 DEF Tree, Ranked
    <3> QED BY <3>1, <3>2, <1>1, <1>4
  <2>2. ASSUME NEW i \in DOMAIN writes', NEW x \in Linked(writes'[i].node)
        PROVE  h2[x] < h2[writes'[i].page]
    <3> DEFINE p == writes'[i].page
    <3>1. p \in T2 /\ Cur'[p] = writes'[i].node
      BY <1>4
    <3> HIDE DEF p
    <3>0. writes'[i].page = p
      BY DEF p
    <3>2. PICK k \in DOMAIN Cur'[p].kids : Cur'[p].kids[k] = x
      BY <2>2, <3>0, <3>1 DEF Linked
    <3>3. Sound(Cur'[p]) /\ Levels(Cur', root_page_id', T2, h2)
      BY <3>1, <1>4 DEF Shape
    <3>4. Len(Cur'[p].kids) \in Nat /\ DOMAIN Cur'[p].kids = 1..Len(Cur'[p].kids)
      <4>1. Cur'[p] \in Node
        BY <3>1, <1>0, <1>4
      <4> QED BY <4>1, NodeProps
    <3>5. Kid(Cur', p, k, x)
      BY <3>2, <3>4 DEF Kid
    <3>6. x \in T2 /\ h2[x] + 1 = h2[p]
      BY <3>1, <3>3, <3>5 DEF Levels
    <3>7. h2[x] \in Nat /\ h2[p] \in Nat
      BY <3>6, <3>1, <1>0, <1>4
    <3> QED BY <3>0, <3>6, <3>7
  <2> QED BY <2>1, <2>2 DEF Ranked
<1>3. NodesAscend(g)'
  <2>1. \A p \in DOMAIN disk : Ascending(g, disk[p].ents)
    BY DEF Tree, NodesAscend
  <2>2. \A p \in T2 : Ascending(g, Cur'[p].ents)
    BY <1>4 DEF Keyed
  <2>3. \A i \in DOMAIN writes' : Ascending(g, writes'[i].node.ents)
    BY <2>2, <1>4
  <2> QED BY <2>1, <2>3 DEF NodesAscend
<1> QED BY <1>2, <1>3, <1>4 DEF Tree

\* A page write changes no node of the tree: it was due.
LEMMA FlushCur ==
  ASSUME IInv, FlushPage
  PROVE  Cur' = Cur
<1> DEFINE w == Head(writes)
<1>0. CurFacts /\ CurFacts'
  <2>1. IInv'
    BY FlushPageIInv
  <2> QED BY <2>1, CurIs, PTL
<1>1. /\ Len(writes) \in Nat /\ Len(writes) >= 1 /\ w = writes[1]
      /\ DOMAIN writes = 1..Len(writes) /\ DOMAIN writes' = 1..Len(writes) - 1
      /\ \A i \in 1..Len(writes) - 1 : i + 1 \in DOMAIN writes /\ writes'[i] = writes[i + 1]
      /\ w.node \in Node /\ Sound(w.node)
      /\ disk'[w.page] = w.node /\ w.page \in DOMAIN disk'
      /\ \A p \in DOMAIN disk' : p # w.page =>
           disk'[p] = IF p \in DOMAIN disk THEN disk[p] ELSE ZeroPage
      /\ DOMAIN disk \subseteq DOMAIN disk'
  BY FlushIs
<1> HIDE DEF w
<1>2. ASSUME NEW p \in Page PROVE Cur'[p] = Cur[p]
  <2>1. CASE NoneDue(p)
    <3>1. p # w.page
      BY <2>1, <1>1 DEF NoneDue
    <3>2. NoneDue(p)'
      BY <2>1, <1>1 DEF NoneDue
    <3>3. ReadPage(disk', p) = ReadPage(disk, p)
      BY <3>1, <1>1 DEF ReadPage
    <3>4. Cur[p] = ReadPage(disk, p)
      BY <2>1, <1>0 DEF CurFacts
    <3>5. Cur'[p] = ReadPage(disk', p)
      BY <3>2, <1>0 DEF CurFacts
    <3> QED BY <3>3, <3>4, <3>5
  <2>2. CASE ~NoneDue(p)
    <3>1. PICK i : LastDue(i) /\ writes[i].page = p
      BY <2>2, <1>0 DEF CurFacts
    <3>2. Cur[p] = writes[i].node /\ i \in 1..Len(writes)
      BY <3>1, <1>0, <1>1 DEF CurFacts, LastDue
    <3>3. CASE i = 1
      <4>1. NoneDue(p)'
        <5> SUFFICES ASSUME NEW j \in DOMAIN writes', writes'[j].page = p PROVE FALSE
          BY DEF NoneDue
        <5>1. j + 1 \in DOMAIN writes /\ writes'[j] = writes[j + 1] /\ j + 1 > 1
          BY <1>1
        <5> QED BY <3>1, <3>3, <5>1 DEF LastDue
      <4>2. Cur'[p] = ReadPage(disk', p)
        BY <4>1, <1>0 DEF CurFacts
      <4>3. p = w.page /\ Cur[p] = w.node
        BY <3>1, <3>2, <3>3, <1>1
      <4>4. ReadPage(disk', p) = w.node
        BY <4>3, <1>1, LoadSound DEF ReadPage
      <4> QED BY <4>2, <4>3, <4>4
    <3>4. CASE i # 1
      <4>1. i - 1 \in 1..Len(writes) - 1 /\ (i - 1) + 1 = i
        BY <3>2, <3>4, <1>1
      <4>2. writes'[i - 1] = writes[i]
        BY <4>1, <1>1
      <4>3. LastDue(i - 1)'
        <5> SUFFICES ASSUME NEW j \in DOMAIN writes', j > i - 1
                     PROVE  writes'[j].page # writes'[i - 1].page
          BY <4>1, <1>1 DEF LastDue
        <5>1. j + 1 \in DOMAIN writes /\ writes'[j] = writes[j + 1]
          BY <1>1
        <5>2. j + 1 > i
          BY <4>1, <3>2, <1>1
        <5> QED BY <3>1, <4>2, <5>1, <5>2 DEF LastDue
      <4>4. Cur'[writes'[i - 1].page] = writes'[i - 1].node
        BY <4>3, <1>0 DEF CurFacts
      <4> QED BY <3>1, <3>2, <4>2, <4>4
    <3> QED BY <3>3, <3>4
  <2> QED BY <2>1, <2>2
<1>3. Cur \in [Page -> Node] /\ Cur' \in [Page -> Node]
  BY <1>0 DEF CurFacts
<1> HIDE DEF Cur
<1> QED BY <1>2, <1>3

\* A page write leaves the tree as it is.
LEMMA FlushTree ==
  ASSUME IInv, NEW g, NEW T, NEW h, NEW R, Tree(g, T, h, R), FlushPage
  PROVE  Tree(g, T, h, R)'
<1> DEFINE w == Head(writes)
<1>1. Cur' = Cur
  BY FlushCur
<1>2. /\ w = writes[1] /\ Len(writes) \in Nat /\ Len(writes) >= 1
      /\ DOMAIN writes = 1..Len(writes) /\ DOMAIN writes' = 1..Len(writes) - 1
      /\ \A i \in 1..Len(writes) - 1 : i + 1 \in DOMAIN writes /\ writes'[i] = writes[i + 1]
      /\ disk'[w.page] = w.node
      /\ \A p \in DOMAIN disk' : p # w.page =>
           disk'[p] = IF p \in DOMAIN disk THEN disk[p] ELSE ZeroPage
      /\ UNCHANGED <<next_page_id, root_page_id, todo, at>>
  BY FlushIs
<1> HIDE DEF w
<1>3. 1 \in DOMAIN writes
  BY <1>2
<1>4. Ranked(h) /\ NodesAscend(g) /\ Destined(g, T, R)
  BY DEF Tree
<1>5. Ranked(h)'
  <2>1. ASSUME NEW p \in DOMAIN disk', NEW x \in Linked(disk'[p]) PROVE h[x] < h[p]
    <3>1. CASE p = w.page
      BY <2>1, <3>1, <1>2, <1>3, <1>4 DEF Ranked
    <3>2. CASE p # w.page
      <4>1. p \in DOMAIN disk
        BY <2>1, <3>2, <1>2, ZeroPageProps
      <4> QED BY <2>1, <3>2, <4>1, <1>2, <1>4 DEF Ranked
    <3> QED BY <3>1, <3>2
  <2>2. ASSUME NEW i \in DOMAIN writes', NEW x \in Linked(writes'[i].node)
        PROVE  h[x] < h[writes'[i].page]
    BY <2>2, <1>2, <1>4 DEF Ranked
  <2> QED BY <2>1, <2>2 DEF Ranked
<1>6. NodesAscend(g)'
  <2>1. ASSUME NEW p \in DOMAIN disk' PROVE Ascending(g, disk'[p].ents)
    <3>1. CASE p = w.page
      BY <3>1, <1>2, <1>3, <1>4 DEF NodesAscend
    <3>2. CASE p # w.page /\ p \in DOMAIN disk
      BY <3>2, <1>2, <1>4 DEF NodesAscend
    <3>3. CASE p # w.page /\ p \notin DOMAIN disk
      BY <3>3, <1>2 DEF Ascending, ZeroPage
    <3> QED BY <3>1, <3>2, <3>3
  <2>2. ASSUME NEW i \in DOMAIN writes' PROVE Ascending(g, writes'[i].node.ents)
    BY <1>2, <1>4 DEF NodesAscend
  <2> QED BY <2>1, <2>2 DEF NodesAscend
<1>7. Destined(g, T, R)'
  BY <1>1, <1>2, <1>4 DEF Destined
<1> QED BY <1>1, <1>2, <1>5, <1>6, <1>7 DEF Tree

\* A new process starts with page 0, a leaf, as the whole tree.
LEMMA RestartTree ==
  ASSUME IInv, NEW g, NEW T, NEW h, NEW R, Tree(g, T, h, R), Restart
  PROVE  TreeInv(g)'
<1> DEFINE h2 == [h EXCEPT ![0] = 0]
           R2 == [R EXCEPT ![0] = Int]
<1>0. CurFacts'
  <2>1. IInv'
    BY RestartIInv
  <2> QED BY <2>1, CurIs, PTL
<1>1. /\ disk' = disk /\ root_page_id' = 0 /\ writes' = <<>> /\ todo' = {}
      /\ 0 \in DOMAIN disk /\ disk[0] # ZeroPage /\ next_page_id' = pages + 1
      /\ pages \in Nat /\ disk \in [0..pages - 1 -> Node]
  BY DEF IInv, TypeOK, PageZeroDue, Written, Restart, FormatRoot
<1>2. disk[0].leaf /\ disk[0] \in Node /\ Sound(disk[0])
  BY <1>1 DEF IInv, PageZeroIsLeaf, PagesFit
<1>3. 0 \in Page /\ 0 \in 0..next_page_id' - 1
  BY <1>1 DEF Page
<1>4. Cur'[0] = disk[0]
  <2>1. NoneDue(0)'
    BY <1>1 DEF NoneDue
  <2>2. Cur'[0] = ReadPage(disk, 0)
    BY <2>1, <1>0, <1>1, <1>3 DEF CurFacts
  <2>3. ReadPage(disk, 0) = disk[0]
    BY <1>1, <1>2, LoadSound DEF ReadPage
  <2> QED BY <2>2, <2>3
<1>5. h \in [Page -> Nat] /\ R \in [Page -> SUBSET Int] /\ Ranked(h) /\ NodesAscend(g)
  BY DEF Tree
<1>6. /\ h2 \in [Page -> Nat] /\ h2[0] = 0 /\ \A x \in Page \ {0} : h2[x] = h[x]
      /\ R2 \in [Page -> SUBSET Int] /\ R2[0] = Int
  BY <1>3, <1>5
<1> HIDE DEF h2, R2
<1>7. Linked(disk[0]) = {} /\ \A i, x : ~Kid(Cur', 0, i, x)
  <2>1. disk[0].kids = <<>> /\ Len(disk[0].kids) = 0
    BY <1>2 DEF Sound
  <2> QED BY <2>1, <1>4 DEF Linked, Kid
<1>8. Shape(Cur', root_page_id', {0}, h2)
  BY <1>1, <1>2, <1>4, <1>6, <1>7
  DEF Shape, Levels, OneParent, HasParent, HalfFull, RootHighest
<1>9. Keyed(g, Cur', root_page_id', {0}, R2)
  <2>1. Ascending(g, Cur'[0].ents)
    BY <1>1, <1>4, <1>5 DEF NodesAscend
  <2>2. \A i \in 1..Len(Cur'[0].ents) : Cur'[0].ents[i].key \in R2[0]
    BY <1>2, <1>4, <1>6, EntryKeys
  <2> QED BY <2>1, <2>2, <1>1, <1>6, <1>7 DEF Keyed
<1>10. Ranked(h2)'
  <2>1. ASSUME NEW p \in DOMAIN disk, NEW x \in Linked(disk[p]) PROVE h2[x] < h2[p]
    <3>1. h[x] < h[p] /\ p # 0 /\ p \in Page
      BY <2>1, <1>1, <1>5, <1>7 DEF Ranked, Page
    <3>2. x \in Page
      BY <2>1, <1>1 DEF IInv, LinksWritten, Written, Page
    <3>3. h[x] \in Nat /\ h[p] \in Nat /\ h2[p] = h[p]
      BY <3>1, <3>2, <1>5, <1>6
    <3>4. CASE x = 0
      BY <3>1, <3>3, <3>4, <1>6
    <3>5. CASE x # 0
      BY <3>1, <3>2, <3>3, <3>5, <1>6
    <3> QED BY <3>4, <3>5
  <2>2. DOMAIN writes' = {}
    BY <1>1
  <2> QED BY <2>1, <2>2, <1>1 DEF Ranked
<1>11. NodesAscend(g)'
  <2>2. DOMAIN writes' = {}
    BY <1>1
  <2> QED BY <2>2, <1>1, <1>5 DEF NodesAscend
<1>12. Destined(g, {0}, R2)'
  BY <1>1 DEF Destined
<1>14. Parting(Cur', root_page_id')
  BY <1>1, <1>2, <1>4 DEF Parting
<1>13. Tree(g, {0}, h2, R2)'
  BY <1>1, <1>14, <1>3, <1>6, <1>8, <1>9, <1>10, <1>11, <1>12 DEF Tree
<1> QED BY <1>13 DEF TreeInv

\* When no write is due the nodes of the tree are those in the file.
LEMMA CurNew ==
  ASSUME IInv, IInv', writes = <<>>, UNCHANGED disk
  PROVE  /\ Cur \in [Page -> Node] /\ Cur' \in [Page -> Node]
         /\ \A p \in Page : Cur[p] = ReadPage(disk, p) /\ Sound(Cur[p])
         /\ \A p \in Page : (\A i \in DOMAIN writes' : writes'[i].page # p) => Cur'[p] = Cur[p]
         /\ \A i \in DOMAIN writes' :
              (\A j \in DOMAIN writes' : j > i => writes'[j].page # writes'[i].page)
                => Cur'[writes'[i].page] = writes'[i].node
<1>0. CurFacts /\ CurFacts'
  BY CurIs, PTL
<1>1. \A p \in Page : Cur[p] = ReadPage(disk, p)
  <2>1. \A p \in Page : NoneDue(p)
    BY DEF NoneDue
  <2> QED BY <2>1, <1>0 DEF CurFacts
<1>2. ASSUME NEW p \in Page, \A i \in DOMAIN writes' : writes'[i].page # p
      PROVE  Cur'[p] = Cur[p]
  <2>1. NoneDue(p)'
    BY <1>2 DEF NoneDue
  <2>2. Cur'[p] = ReadPage(disk', p)
    BY <2>1, <1>0 DEF CurFacts
  <2> QED BY <2>2, <1>1
<1>3. ASSUME NEW i \in DOMAIN writes',
             \A j \in DOMAIN writes' : j > i => writes'[j].page # writes'[i].page
      PROVE  Cur'[writes'[i].page] = writes'[i].node
  <2>1. LastDue(i)'
    BY <1>3 DEF LastDue
  <2> QED BY <2>1, <1>0 DEF CurFacts
<1> QED BY <1>0, <1>1, <1>2, <1>3 DEF CurFacts

\* What Tree says, part by part.
LEMMA TreeTyped ==
  ASSUME IInv, NEW g, NEW T, NEW h, NEW R, Tree(g, T, h, R)
  PROVE  /\ T \in SUBSET (0..next_page_id - 1) /\ T \in SUBSET Page /\ next_page_id \in Nat
         /\ h \in [Page -> Nat] /\ R \in [Page -> SUBSET Int]
         /\ Shape(Cur, root_page_id, T, h) /\ Keyed(g, Cur, root_page_id, T, R)
         /\ Ranked(h) /\ NodesAscend(g)
         /\ \A e \in todo : /\ e \in Entry /\ e.key \in Int /\ todo = {e}
                            /\ at \in T /\ at \in Page /\ e.key \in R[at]
                            /\ g > 0 => Spared(Cur, T, e.key)
         /\ Parting(Cur, root_page_id)
<1>1. /\ T \in SUBSET (0..next_page_id - 1)
      /\ h \in [Page -> Nat] /\ R \in [Page -> SUBSET Int]
      /\ Shape(Cur, root_page_id, T, h) /\ Keyed(g, Cur, root_page_id, T, R)
      /\ Ranked(h) /\ NodesAscend(g) /\ Destined(g, T, R) /\ Parting(Cur, root_page_id)
  BY DEF Tree
<1>2. next_page_id \in Nat /\ todo \in SUBSET Entry
  BY DEF IInv, TypeOK
<1>3. \A x \in 0..next_page_id - 1 : x \in Page
  BY <1>2 DEF Page
<1>4. T \in SUBSET Page
  BY <1>1, <1>3
<1>5. \A e \in Entry : e.key \in Int
  BY KeyAssumption DEF Entry
<1> QED BY <1>1, <1>2, <1>4, <1>5 DEF Destined

\* A new file holds a tree of one empty leaf.
LEMMA InitTree ==
  ASSUME NEW g, Init
  PROVE  TreeInv(g)
<1> DEFINE h == [p \in Page |-> 0]
           R == [p \in Page |-> Int]
<1>0. CurFacts
  BY InitIInv, CurIs
<1>1. /\ disk = NewFile /\ root_page_id = 0 /\ writes = <<>> /\ todo = {} /\ next_page_id = 1
      /\ 0 \in Page /\ 0 \in 0..next_page_id - 1
  BY DEF Init, Page
<1>2. DOMAIN disk = {0} /\ disk[0] = EmptyLeaf
  BY <1>1 DEF NewFile, FormatRoot, WritePage
<1>3. Cur[0] = EmptyLeaf
  <2>1. NoneDue(0)
    BY <1>1 DEF NoneDue
  <2>2. Cur[0] = ReadPage(disk, 0)
    BY <2>1, <1>0, <1>1 DEF CurFacts
  <2>3. ReadPage(disk, 0) = EmptyLeaf
    BY <1>2, LoadSound, ZeroPageProps DEF ReadPage
  <2> QED BY <2>2, <2>3
<1>4. EmptyLeaf.leaf /\ Len(EmptyLeaf.ents) = 0 /\ Len(EmptyLeaf.kids) = 0
  BY DEF EmptyLeaf
<1>5. h \in [Page -> Nat] /\ h[0] = 0 /\ R \in [Page -> SUBSET Int] /\ R[0] = Int
  BY <1>1
<1> HIDE DEF h, R
<1>6. \A i, x : ~Kid(Cur, 0, i, x)
  BY <1>3, <1>4 DEF Kid
<1>7. Shape(Cur, root_page_id, {0}, h)
  BY <1>1, <1>3, <1>4, <1>5, <1>6, ZeroPageProps
  DEF Shape, Levels, OneParent, HasParent, HalfFull, RootHighest
<1>8. Keyed(g, Cur, root_page_id, {0}, R)
  BY <1>1, <1>3, <1>4, <1>5, <1>6 DEF Keyed, Ascending
<1>9. Ranked(h) /\ NodesAscend(g)
  <2>1. DOMAIN writes = {}
    BY <1>1
  <2>2. Linked(disk[0]) = {} /\ Ascending(g, disk[0].ents)
    BY <1>2, <1>4, ZeroPageProps DEF Ascending
  <2> QED BY <2>1, <2>2, <1>2 DEF Ranked, NodesAscend
<1>10. Destined(g, {0}, R)
  BY <1>1 DEF Destined
<1>12. Parting(Cur, root_page_id)
  BY <1>1, <1>3, <1>4 DEF Parting
<1>11. Tree(g, {0}, h, R)
  BY <1>1, <1>12, <1>5, <1>7, <1>8, <1>9, <1>10 DEF Tree
<1> QED BY <1>11 DEF TreeInv

\* A step that changes nothing keeps the tree.
LEMMA StutterTree ==
  ASSUME NEW g, NEW T, NEW h, NEW R, Tree(g, T, h, R), UNCHANGED vars
  PROVE  Tree(g, T, h, R)'
<1>1. /\ UNCHANGED <<disk, pages, next_page_id, root_page_id, todo, at, writes>>
      /\ Cur' = Cur
  BY SameCur DEF vars
<1>2. Ranked(h)' /\ NodesAscend(g)' /\ Destined(g, T, R)'
  BY <1>1 DEF Tree, Ranked, NodesAscend, Destined
<1> QED BY <1>1, <1>2 DEF Tree

\* Any key belongs below the root.
LEMMA EnterRootTree ==
  ASSUME IInv, NEW g, NEW T, NEW h, NEW R, Tree(g, T, h, R),
         NEW e \in Entry, g > 0 => Spared(Cur, T \ {root_page_id}, e.key), EnterRoot(e)
  PROVE  Tree(g, T, h, R)'
<1>1. /\ UNCHANGED <<disk, next_page_id, root_page_id, writes>> /\ Cur' = Cur
      /\ todo' = {e} /\ at' = root_page_id
  BY SameCur DEF EnterRoot, fileVars
<1>2. root_page_id \in T /\ R[root_page_id] = Int
  BY DEF Tree, Shape, Keyed
<1>3. e.key \in Int
  BY KeyAssumption DEF Entry
<1>6. ~Full(Cur[root_page_id])
  <2>1. NoneDue(root_page_id) /\ ~Full(ReadPage(disk, root_page_id))
    BY DEF EnterRoot, Idle, NoneDue
  <2> QED BY <2>1, CurIs DEF CurFacts, IInv, TypeOK
<1>7. g > 0 => Spared(Cur, T, e.key)
  BY <1>6 DEF Spared
<1>4. Destined(g, T, R)'
  BY <1>1, <1>2, <1>3, <1>7 DEF Destined
<1>5. Ranked(h)' /\ NodesAscend(g)'
  BY <1>1 DEF Tree, Ranked, NodesAscend
<1> QED BY <1>1, <1>4, <1>5 DEF Tree

\* The key that belongs below a node belongs below the child it is handed to.
LEMMA BelowSpan ==
  ASSUME NEW g \in {0, 1}, NEW c \in [Page -> Node], NEW r, NEW T \in SUBSET Page, NEW R,
         Keyed(g, c, r, T, R), NEW p \in T, NEW e \in Entry, e.key \in R[p],
         NEW i, Below(e, c[p], i)
  PROVE  i \in 1..Len(c[p].kids) /\ Kid(c, p, i, c[p].kids[i]) /\ e.key \in R[c[p].kids[i]]
<1>1. Kid(c, p, i, c[p].kids[i]) /\ i \in 1..Len(c[p].kids)
  BY DEF Below, Kid
<1>2. R[c[p].kids[i]] = Span(g, R[p], c[p].ents, i)
  BY <1>1 DEF Keyed
<1>3. /\ c[p] \in Node /\ Len(c[p].ents) \in Nat /\ e.key \in Int
      /\ \A k \in 1..Len(c[p].ents) : c[p].ents[k].key \in Int
  <2>1. c[p] \in Node
    OBVIOUS
  <2> QED BY <2>1, EntryKeys, KeyAssumption DEF Entry
<1>4. /\ i \in 1..Len(c[p].ents) + 1
      /\ i > 1 => c[p].ents[i - 1].key <= e.key
      /\ \A j \in i..Len(c[p].ents) : e.key < c[p].ents[j].key
      /\ \A j \in 1..Len(c[p].ents) : c[p].ents[j].key # e.key
  BY DEF Below, IsSlot, Matches
<1>5. ASSUME i > 1 PROVE c[p].ents[i - 1].key + g <= e.key
  <2>1. i - 1 \in 1..Len(c[p].ents)
    BY <1>3, <1>4, <1>5
  <2>2. c[p].ents[i - 1].key \in Int /\ c[p].ents[i - 1].key # e.key
    BY <2>1, <1>3, <1>4
  <2>3. c[p].ents[i - 1].key <= e.key
    BY <1>4, <1>5
  <2> QED BY <2>2, <2>3, <1>3
<1>6. ASSUME i <= Len(c[p].ents) PROVE e.key + g <= c[p].ents[i].key
  <2>1. i \in i..Len(c[p].ents) /\ i \in 1..Len(c[p].ents)
    BY <1>3, <1>4, <1>6
  <2>2. c[p].ents[i].key \in Int /\ e.key < c[p].ents[i].key
    BY <2>1, <1>3, <1>4
  <2> QED BY <2>2, <1>3
<1>7. e.key \in Span(g, R[p], c[p].ents, i)
  BY <1>5, <1>6 DEF Span
<1> QED BY <1>1, <1>2, <1>7

\* insert_non_full that goes on to a child keeps the tree, and the key belongs
\* below that child.
LEMMA DescendTree ==
  ASSUME IInv, NEW g \in {0, 1}, NEW T, NEW h, NEW R, Tree(g, T, h, R),
         writes = <<>>, NEW e \in todo, Descend(e, ReadPage(disk, at))
  PROVE  Tree(g, T, h, R)'
<1>0. CurFacts
  BY CurIs
<1>1. e \in Entry /\ todo = {e} /\ at \in T /\ e.key \in R[at] /\ T \in SUBSET Page /\ at \in Page
  BY TreeTyped
<1>2. Cur \in [Page -> Node] /\ Cur[at] = ReadPage(disk, at)
  <2>1. NoneDue(at)
    BY DEF NoneDue
  <2> QED BY <2>1, <1>0, <1>1 DEF CurFacts
<1>3. PICK i \in 1..Len(Cur[at].kids) : /\ Below(e, Cur[at], i)
                                        /\ at' = Cur[at].kids[i]
  BY <1>2 DEF Descend
<1>4. /\ UNCHANGED <<disk, next_page_id, root_page_id, todo, writes>> /\ Cur' = Cur
  BY SameCur DEF Descend, fileVars
<1>5. /\ Shape(Cur, root_page_id, T, h) /\ Keyed(g, Cur, root_page_id, T, R)
      /\ Destined(g, T, R)
  BY DEF Tree
<1>6. Kid(Cur, at, i, at') /\ e.key \in R[at']
  BY <1>1, <1>2, <1>3, <1>5, BelowSpan
<1>7. at' \in T
  BY <1>1, <1>5, <1>6 DEF Shape, Levels
<1>8. \A f \in todo : f.key \in R[at']
  BY <1>1, <1>5, <1>6
<1>9. Destined(g, T, R)'
  BY <1>4, <1>5, <1>7, <1>8 DEF Destined
<1>10. Ranked(h)' /\ NodesAscend(g)'
  BY <1>4 DEF Tree, Ranked, NodesAscend
<1> QED BY <1>4, <1>9, <1>10 DEF Tree

\* The write that places an entry is for the node reached and no other.
LEMMA PlaceCur ==
  ASSUME IInv, IInv', writes = <<>>, NEW m, Place(m)
  PROVE  /\ Cur \in [Page -> Node] /\ Cur' \in [Page -> Node] /\ Cur'[at] = m
         /\ \A p \in Page : p # at => Cur'[p] = Cur[p]
         /\ Len(writes') = 1 /\ Agreed' /\ todo' = {}
         /\ UNCHANGED <<disk, next_page_id, root_page_id>>
<1>1. /\ writes' = <<Write(at, m)>> /\ todo' = {}
      /\ UNCHANGED <<disk, next_page_id, root_page_id>>
  BY DEF Place, fileVars
<1>2. /\ DOMAIN writes' = {1} /\ Len(writes') = 1
      /\ writes'[1].page = at /\ writes'[1].node = m
  BY <1>1 DEF Write
<1>3. /\ Cur \in [Page -> Node] /\ Cur' \in [Page -> Node]
      /\ \A p \in Page : (\A i \in DOMAIN writes' : writes'[i].page # p) => Cur'[p] = Cur[p]
      /\ \A i \in DOMAIN writes' :
            (\A j \in DOMAIN writes' : j > i => writes'[j].page # writes'[i].page)
              => Cur'[writes'[i].page] = writes'[i].node
  BY <1>1, CurNew
<1>4. ~(1 > 1)
  OBVIOUS
<1>5. Cur'[at] = m /\ \A p \in Page : p # at => Cur'[p] = Cur[p]
  BY <1>2, <1>3, <1>4
<1>6. Agreed'
  BY <1>2, <1>5 DEF Agreed
<1> QED BY <1>1, <1>2, <1>3, <1>5, <1>6

\* The entry is put into the node reached, whose children stay as they are.
LEMMA PlaceTree ==
  ASSUME IInv, IInv', NEW g, NEW T, NEW h, NEW R, Tree(g, T, h, R),
         writes = <<>>, at \in T, NEW m \in Node, Sound(m),
         m.leaf = Cur[at].leaf, m.kids = Cur[at].kids, Len(m.ents) >= Len(Cur[at].ents),
         Ascending(g, m.ents), \A i \in 1..Len(m.ents) : m.ents[i].key \in R[at],
         ~m.leaf => /\ Len(m.ents) = Len(Cur[at].ents)
                    /\ \A i \in 1..Len(m.ents) : m.ents[i].key = Cur[at].ents[i].key,
         Place(m)
  PROVE  Tree(g, T, h, R)'
<1>1. /\ writes' = <<Write(at, m)>> /\ todo' = {}
      /\ UNCHANGED <<disk, next_page_id, root_page_id>>
  BY DEF Place, fileVars
<1>2. /\ DOMAIN writes' = {1} /\ writes'[1].page = at /\ writes'[1].node = m
  BY <1>1 DEF Write
<1>3. /\ T \in SUBSET (0..next_page_id - 1) /\ T \in SUBSET Page /\ next_page_id \in Nat
      /\ h \in [Page -> Nat] /\ R \in [Page -> SUBSET Int]
      /\ Shape(Cur, root_page_id, T, h) /\ Keyed(g, Cur, root_page_id, T, R)
  BY TreeTyped
<1>4. Cur \in [Page -> Node] /\ Cur' \in [Page -> Node] /\ Cur'[at] = m
      /\ \A p \in Page : p # at => Cur'[p] = Cur[p]
  BY PlaceCur
<1>5. \A p \in T : p # at => Cur'[p] = Cur[p]
  BY <1>3, <1>4
<1>6. Shape(Cur', root_page_id, T, h)
  BY <1>3, <1>4, <1>5, PlaceShape
<1>7. Keyed(g, Cur', root_page_id, T, R)
  BY <1>3, <1>4, <1>5, PlaceKeyed
<1>8. Destined(g, T, R)'
  BY <1>1 DEF Destined
<1>9. next_page_id' \in Nat /\ next_page_id <= next_page_id' /\ T \in SUBSET (0..next_page_id' - 1)
  BY <1>1, <1>3
<1>12. Parting(Cur', root_page_id)
  <2>1. Parting(Cur, root_page_id) /\ root_page_id \in T
    BY TreeTyped DEF Shape
  <2>2. CASE root_page_id = at
    <3>1. Cur[at] \in Node /\ Len(Cur[at].ents) \in Nat /\ Len(m.ents) \in Nat
      BY <1>3, <1>4, NodeProps
    <3> QED BY <3>1, <2>1, <2>2, <1>4 DEF Parting
  <2>3. CASE root_page_id # at
    BY <2>1, <2>3, <1>5 DEF Parting
  <2> QED BY <2>2, <2>3
<1>10. /\ Shape(Cur', root_page_id', T, h) /\ Keyed(g, Cur', root_page_id', T, R)
       /\ Parting(Cur', root_page_id')
  BY <1>1, <1>6, <1>7, <1>12
<1>11. Decided(g, T, h, R)' /\ SameRank(h, h)
  BY <1>2, <1>3, <1>4, <1>8, <1>9, <1>10 DEF Decided, SameRank
<1> QED BY <1>1, <1>9, <1>11, Decide

\* update_node on the node that holds the key keeps the tree.
LEMMA UpdateEntryTree ==
  ASSUME IInv, IInv', NEW g, NEW T, NEW h, NEW R, Tree(g, T, h, R),
         writes = <<>>, NEW e \in todo, UpdateEntry(e, ReadPage(disk, at))
  PROVE  Tree(g, T, h, R)'
<1>0. CurFacts
  BY CurIs
<1>1. e \in Entry /\ at \in T /\ at \in Page /\ e.key \in R[at]
  BY TreeTyped
<1> DEFINE n == Cur[at]
<1>2. n = ReadPage(disk, at) /\ n \in Node /\ Sound(n)
  <2>1. NoneDue(at)
    BY DEF NoneDue
  <2> QED BY <2>1, <1>0, <1>1 DEF CurFacts
<1>3. /\ Ascending(g, n.ents) /\ \A i \in 1..Len(n.ents) : n.ents[i].key \in R[at]
  BY <1>1 DEF Tree, Keyed
<1>4. PICK j \in Matches(n, e.key) : Place([n EXCEPT !.ents = ReplaceAt(@, j, e)])
  BY <1>2 DEF UpdateEntry
<1> DEFINE m == [n EXCEPT !.ents = ReplaceAt(@, j, e)]
<1>0a. Place(m)
  BY <1>4
<1> HIDE DEF n
<1>5. /\ j \in 1..Len(n.ents) /\ n.ents[j].key = e.key
      /\ n.ents \in Seq(Entry) /\ Len(n.ents) \in Nat /\ j \in 1..Len(n.ents) + 1 /\ j <= Len(n.ents)
  <2>1. j \in 1..Len(n.ents) /\ n.ents[j].key = e.key
    BY <1>4 DEF Matches
  <2>2. n.ents \in Seq(Entry) /\ Len(n.ents) \in Nat
    BY <1>2, NodeProps
  <2> QED BY <2>1, <2>2
<1>6. m \in Node /\ Sound(m) /\ m.leaf = n.leaf
  <2>1. LET k == [n EXCEPT !.ents = ReplaceAt(@, j, e)]
        IN k \in Node /\ Sound(k) /\ k.leaf = n.leaf
    BY <1>1, <1>2, <1>5, PlacedProps
  <2> QED BY <2>1
<1>7. /\ m.kids = n.kids /\ Len(m.ents) = Len(n.ents)
      /\ \A i \in 1..Len(m.ents) : m.ents[i].key = n.ents[i].key
  <2>1. m.ents = ReplaceAt(n.ents, j, e) /\ m.kids = n.kids
    BY <1>2 DEF Node
  <2>2. ReplaceAt(n.ents, j, e) = [n.ents EXCEPT ![j] = e]
    BY DEF ReplaceAt
  <2> HIDE DEF m
  <2>3. Len(m.ents) = Len(n.ents)
    BY <2>1, <2>2, <1>1, <1>5
  <2>4. \A i \in 1..Len(n.ents) : m.ents[i] = IF i = j THEN e ELSE n.ents[i]
    BY <2>1, <2>2, <1>5
  <2> QED BY <2>1, <2>3, <2>4, <1>5
<1> HIDE DEF m
<1>8. Ascending(g, m.ents) /\ \A i \in 1..Len(m.ents) : m.ents[i].key \in R[at]
  BY <1>3, <1>7 DEF Ascending
<1>9. Len(m.ents) >= Len(n.ents)
  BY <1>5, <1>7
<1> QED BY <1>0a, <1>1, <1>6, <1>7, <1>8, <1>9, PlaceTree DEF n

\* insert_non_full in a leaf keeps the tree: the new key comes to stand between
\* its neighbours.
LEMMA AddToLeafTree ==
  ASSUME IInv, IInv', NEW g \in {0, 1}, NEW T, NEW h, NEW R, Tree(g, T, h, R),
         writes = <<>>, NEW e \in todo, AddToLeaf(e, ReadPage(disk, at))
  PROVE  Tree(g, T, h, R)'
<1>0. CurFacts
  BY CurIs
<1>1. e \in Entry /\ at \in T /\ at \in Page /\ e.key \in R[at] /\ e.key \in Int
  BY TreeTyped
<1> DEFINE n == Cur[at]
<1>2. n = ReadPage(disk, at) /\ n \in Node /\ Sound(n)
  <2>1. NoneDue(at)
    BY DEF NoneDue
  <2> QED BY <2>1, <1>0, <1>1 DEF CurFacts
<1>3. /\ Ascending(g, n.ents) /\ \A i \in 1..Len(n.ents) : n.ents[i].key \in R[at]
  BY <1>1 DEF Tree, Keyed
<1>4. PICK j \in 1..Len(n.ents) + 1 :
        /\ IsSlot(n, e.key, j)
        /\ Place([n EXCEPT !.ents = InsertAt(@, j, e)])
  BY <1>2 DEF AddToLeaf
<1>5. Matches(n, e.key) = {} /\ n.leaf /\ ~Full(n)
  BY <1>2, RoomAtNode DEF AddToLeaf
<1> DEFINE m == [n EXCEPT !.ents = InsertAt(@, j, e)]
<1>0a. Place(m)
  BY <1>4
<1> HIDE DEF n
<1>6. /\ n.ents \in Seq(Entry) /\ Len(n.ents) \in Nat
      /\ \A k \in 1..Len(n.ents) : n.ents[k].key \in Int
  BY <1>2, EntryKeys
<1>7. m \in Node /\ Sound(m) /\ m.leaf = n.leaf
  <2>1. LET k == [n EXCEPT !.ents = InsertAt(@, j, e)]
        IN k \in Node /\ Sound(k) /\ k.leaf = n.leaf
    BY <1>1, <1>2, <1>5, PlacedProps
  <2> QED BY <2>1
<1>8. m.ents = InsertAt(n.ents, j, e) /\ m.kids = n.kids
  BY <1>2 DEF Node
<1> HIDE DEF m
<1>9. /\ Len(m.ents) = Len(n.ents) + 1
      /\ \A k \in 1..Len(n.ents) + 1 :
           m.ents[k] = IF k < j THEN n.ents[k] ELSE IF k = j THEN e ELSE n.ents[k - 1]
  <2>0. n.ents \in Seq(Entry) /\ e \in Entry /\ j \in 1..Len(n.ents) + 1
    BY <1>1, <1>6
  <2>1. Len(InsertAt(n.ents, j, e)) = Len(n.ents) + 1
    BY <2>0, InsertAtProps
  <2>2. \A k \in 1..Len(n.ents) + 1 :
          InsertAt(n.ents, j, e)[k] = IF k < j THEN n.ents[k]
                                      ELSE IF k = j THEN e ELSE n.ents[k - 1]
    BY <2>0, InsertAtIs
  <2> QED BY <2>1, <2>2, <1>8
<1>10. /\ \A k \in 1..j - 1 : n.ents[k].key + g <= e.key
       /\ \A k \in j..Len(n.ents) : e.key + g <= n.ents[k].key
  <2>1. /\ j > 1 => n.ents[j - 1].key <= e.key
        /\ \A k \in j..Len(n.ents) : e.key < n.ents[k].key
        /\ \A k \in 1..Len(n.ents) : n.ents[k].key # e.key
    BY <1>4, <1>5 DEF IsSlot, Matches
  <2>2. ASSUME NEW k \in 1..j - 1 PROVE n.ents[k].key + g <= e.key
    <3>1. j > 1 /\ j - 1 \in 1..Len(n.ents) /\ k \in 1..Len(n.ents)
      BY <1>6
    <3>2. n.ents[j - 1].key <= e.key /\ n.ents[j - 1].key # e.key /\ n.ents[j - 1].key \in Int
      BY <2>1, <3>1, <1>6
    <3>3. n.ents[k].key <= n.ents[j - 1].key /\ n.ents[k].key \in Int
      <4>1. n.ents[k].key \in Int
        BY <3>1, <1>6
      <4>2. CASE k = j - 1
        BY <4>1, <4>2
      <4>3. CASE k < j - 1
        <5>1. n.ents[k].key + g <= n.ents[j - 1].key
          BY <3>1, <4>3, <1>3 DEF Ascending
        <5> QED BY <5>1, <4>1, <3>2
      <4> QED BY <4>2, <4>3
    <3> QED BY <3>2, <3>3, <1>1
  <2>3. ASSUME NEW k \in j..Len(n.ents) PROVE e.key + g <= n.ents[k].key
    <3>1. k \in 1..Len(n.ents)
      BY <1>6
    <3>2. e.key < n.ents[k].key /\ n.ents[k].key \in Int
      BY <2>1, <3>1, <1>6
    <3> QED BY <3>2, <1>1
  <2> QED BY <2>2, <2>3
<1>11. Ascending(g, m.ents)
  <2> SUFFICES ASSUME NEW k \in 1..Len(m.ents), NEW l \in 1..Len(m.ents), k < l
               PROVE  m.ents[k].key + g <= m.ents[l].key
    BY DEF Ascending
  <2>1. k \in 1..Len(n.ents) + 1 /\ l \in 1..Len(n.ents) + 1
    BY <1>9
  <2>2. CASE l < j
    <3>1. k \in 1..Len(n.ents) /\ l \in 1..Len(n.ents) /\ k < j
      BY <2>1, <2>2, <1>6
    <3>2. m.ents[k] = n.ents[k] /\ m.ents[l] = n.ents[l]
      BY <2>1, <2>2, <3>1, <1>9
    <3> QED BY <3>1, <3>2, <1>3 DEF Ascending
  <2>3. CASE l = j
    <3>1. k \in 1..j - 1 /\ k < j
      BY <2>1, <2>3, <1>6
    <3>2. m.ents[k] = n.ents[k] /\ m.ents[l] = e
      BY <2>1, <2>3, <3>1, <1>9
    <3> QED BY <3>1, <3>2, <1>10
  <2>4. CASE l > j
    <3>1. l - 1 \in j..Len(n.ents) /\ l - 1 \in 1..Len(n.ents) /\ ~(l < j) /\ l # j
      BY <2>1, <2>4, <1>6
    <3>2. m.ents[l] = n.ents[l - 1]
      BY <2>1, <3>1, <1>9
    <3>3. CASE k = j
      <4>1. m.ents[k] = e
        BY <2>1, <3>3, <1>9
      <4> QED BY <4>1, <3>1, <3>2, <1>10
    <3>4. CASE k < j
      <4>1. k \in 1..Len(n.ents) /\ k < l - 1
        BY <2>1, <2>4, <3>4, <1>6
      <4>2. m.ents[k] = n.ents[k]
        BY <2>1, <3>4, <1>9
      <4> QED BY <3>1, <3>2, <4>1, <4>2, <1>3 DEF Ascending
    <3>5. CASE k > j
      <4>1. k - 1 \in 1..Len(n.ents) /\ k - 1 < l - 1 /\ ~(k < j) /\ k # j
        BY <2>1, <2>4, <3>5, <1>6
      <4>2. m.ents[k] = n.ents[k - 1]
        BY <2>1, <4>1, <1>9
      <4> QED BY <3>1, <3>2, <4>1, <4>2, <1>3 DEF Ascending
    <3> QED BY <2>1, <3>3, <3>4, <3>5
  <2> QED BY <2>1, <2>2, <2>3, <2>4
<1>12. ASSUME NEW k \in 1..Len(m.ents) PROVE m.ents[k].key \in R[at]
  <2>1. CASE k < j
    <3>1. k \in 1..Len(n.ents)
      BY <2>1, <1>6, <1>9
    <3> QED BY <2>1, <3>1, <1>3, <1>9
  <2>2. CASE k = j
    BY <2>2, <1>1, <1>9
  <2>3. CASE k > j
    <3>1. k - 1 \in 1..Len(n.ents) /\ ~(k < j) /\ k # j
      BY <2>3, <1>6, <1>9
    <3> QED BY <3>1, <1>3, <1>9
  <2> QED BY <2>1, <2>2, <2>3, <1>6, <1>9
<1>13. Len(m.ents) >= Len(n.ents)
  BY <1>6, <1>9
<1> QED BY <1>0a, <1>1, <1>5, <1>7, <1>8, <1>11, <1>12, <1>13, PlaceTree DEF n

\* The node above a split has its own keys and the median's.
LEMMA PromotedKeys ==
  ASSUME NEW c, NEW p, c[p] \in Node, Sound(c[p]), NEW i, NEW kid, NEW q, NEW c2,
         IsSplit(c, p, i, q, kid, c2), NEW k, c[kid].ents[Degree].key # k, Lacks(c[p], k)
  PROVE  Lacks(c2[p], k)
<1> SUFFICES ASSUME NEW j \in 1..Len(c2[p].ents) PROVE c2[p].ents[j].key # k
  BY DEF Lacks
<1>0. \A x \in 1..Len(c[p].ents) : c[p].ents[x].key # k
  BY DEF Lacks
<1>1. /\ Len(c2[p].ents) = Len(c[p].ents) + 1 /\ i \in 1..Len(c[p].kids)
      /\ \A x \in 1..Len(c[p].ents) + 1 :
           c2[p].ents[x] = IF x < i THEN c[p].ents[x]
                           ELSE IF x = i THEN c[kid].ents[Degree] ELSE c[p].ents[x - 1]
  BY DEF IsSplit, Kid
<1>2. /\ Len(c[p].ents) \in Nat /\ Len(c[p].kids) \in Nat
      /\ Len(c[p].kids) <= Len(c[p].ents) + 1
  <2>1. c[p].leaf => Len(c[p].kids) = 0
    BY DEF Sound
  <2> QED BY <2>1, NodeProps DEF Sound
<1>3. j \in 1..Len(c[p].ents) + 1 /\ i \in 1..Len(c[p].ents) + 1
  BY <1>1, <1>2
<1>4. CASE j < i
  <2>1. j \in 1..Len(c[p].ents)
    BY <1>2, <1>3, <1>4
  <2> QED BY <2>1, <1>0, <1>1, <1>3, <1>4
<1>5. CASE j = i
  <2>1. ~(j < i)
    BY <1>3, <1>5
  <2> QED BY <2>1, <1>1, <1>3, <1>5
<1>6. CASE j > i
  <2>1. j - 1 \in 1..Len(c[p].ents) /\ ~(j < i) /\ j # i
    BY <1>2, <1>3, <1>6
  <2>2. c2[p].ents[j] = c[p].ents[j - 1]
    BY <2>1, <1>1, <1>3
  <2> QED BY <2>1, <2>2, <1>0
<1> QED BY <1>3, <1>4, <1>5, <1>6, <1>2

\* The halves of a split are not full.
LEMMA SplitSpared ==
  ASSUME NEW c, NEW T \in SUBSET Page, NEW p \in T, NEW i, NEW kid \in T, NEW q \in Page \ T,
         NEW c2, IsSplit(c, p, i, q, kid, c2), NEW k, Spared(c, T \ {kid, p}, k),
         Full(c2[p]) => Lacks(c2[p], k)
  PROVE  Spared(c2, T \cup {q}, k)
<1>1. /\ \A x \in Page \ {kid, q, p} : c2[x] = c[x]
      /\ Len(c2[kid].ents) = Degree - 1 /\ Len(c2[q].ents) = Degree - 1
  BY DEF IsSplit
<1>2. ~Full(c2[kid]) /\ ~Full(c2[q])
  BY <1>1, MaxKeysProps DEF Full
<1>3. \A x \in T \ {kid, p} : c2[x] = c[x]
  BY <1>1
<1> QED BY <1>2, <1>3 DEF Spared

\* The nodes of the tree once a split is decided.
LEMMA SplitCur ==
  ASSUME IInv, IInv', writes = <<>>, UNCHANGED disk,
         NEW kid \in Page, NEW q \in Page, NEW p \in Page, kid # q, kid # p, p # q,
         NEW lo, NEW up, NEW pr, SplitWrites(writes', kid, lo, q, up, p, pr)
  PROVE  /\ Cur \in [Page -> Node] /\ Cur' \in [Page -> Node]
         /\ Cur'[kid] = lo /\ Cur'[q] = up /\ Cur'[p] = pr
         /\ \A x \in Page \ {kid, q, p} : Cur'[x] = Cur[x]
         /\ \A i \in DOMAIN writes' : /\ writes'[i].page \in {kid, q, p}
                                      /\ Cur'[writes'[i].page] = writes'[i].node
<1>1. /\ Cur \in [Page -> Node] /\ Cur' \in [Page -> Node]
      /\ \A x \in Page : (\A i \in DOMAIN writes' : writes'[i].page # x) => Cur'[x] = Cur[x]
      /\ \A i \in DOMAIN writes' :
            (\A j \in DOMAIN writes' : j > i => writes'[j].page # writes'[i].page)
              => Cur'[writes'[i].page] = writes'[i].node
  BY CurNew
<1>2. /\ DOMAIN writes' = 1..Len(writes') /\ Len(writes') \in Nat /\ Len(writes') >= 3
      /\ writes'[1].page = kid /\ writes'[1].node = lo
      /\ writes'[2].page = q /\ writes'[2].node = up
      /\ \A i \in 3..Len(writes') : writes'[i].page = p /\ writes'[i].node = pr
  BY DEF SplitWrites, Write
<1> DEFINE l == Len(writes')
<1>3. l \in Nat /\ l >= 3 /\ l \in 3..l /\ 1 \in 1..l /\ 2 \in 1..l /\ l \in 1..l
  BY <1>2
<1>4. /\ \A i \in 1..l : i > 1 => writes'[i].page # kid
      /\ \A i \in 1..l : i > 2 => writes'[i].page # q
  <2>1. ASSUME NEW i \in 1..l, i > 1 PROVE writes'[i].page # kid
    <3>1. i = 2 \/ i \in 3..l
      BY <2>1, <1>3
    <3> QED BY <3>1, <1>2
  <2>2. ASSUME NEW i \in 1..l, i > 2 PROVE writes'[i].page # q
    <3>1. i \in 3..l
      BY <2>2, <1>3
    <3> QED BY <3>1, <1>2
  <2> QED BY <2>1, <2>2
<1>5. Cur'[kid] = lo
  BY <1>1, <1>2, <1>3, <1>4
<1>6. Cur'[q] = up
  BY <1>1, <1>2, <1>3, <1>4
<1>7. Cur'[p] = pr
  <2>1. \A j \in DOMAIN writes' : ~(j > l)
    BY <1>2, <1>3
  <2>2. writes'[l].page = p /\ writes'[l].node = pr /\ l \in DOMAIN writes'
    BY <1>2, <1>3
  <2> QED BY <2>1, <2>2, <1>1
<1>8. ASSUME NEW i \in DOMAIN writes'
      PROVE  /\ writes'[i].page \in {kid, q, p}
             /\ Cur'[writes'[i].page] = writes'[i].node
  <2>1. i = 1 \/ i = 2 \/ i \in 3..l
    BY <1>2, <1>3
  <2> QED BY <2>1, <1>2, <1>5, <1>6, <1>7
<1>9. ASSUME NEW x \in Page \ {kid, q, p} PROVE Cur'[x] = Cur[x]
  <2>1. \A i \in DOMAIN writes' : writes'[i].page # x
    BY <1>8, <1>9
  <2> QED BY <2>1, <1>1
<1> QED BY <1>1, <1>5, <1>6, <1>7, <1>8, <1>9

\* insert_non_full that splits the full child on its way keeps the tree, with
\* one page more.
LEMMA SplitFullChildTree ==
  ASSUME IInv, IInv', NEW g \in {0, 1}, NEW T, NEW h, NEW R, Tree(g, T, h, R),
         writes = <<>>, NEW e \in todo, SplitFullChild(e, ReadPage(disk, at))
  PROVE  /\ \E T2, h2, R2 : T2 = T \cup {next_page_id} /\ Tree(g, T2, h2, R2)'
         /\ \E i, kid : Divided(Cur, T, at, i, next_page_id, kid, Cur')
         /\ Agreed'
<1>1. /\ T \in SUBSET (0..next_page_id - 1) /\ T \in SUBSET Page /\ next_page_id \in Nat
      /\ h \in [Page -> Nat] /\ R \in [Page -> SUBSET Int]
      /\ Shape(Cur, root_page_id, T, h) /\ Keyed(g, Cur, root_page_id, T, R)
      /\ e \in Entry /\ e.key \in Int /\ todo = {e}
      /\ at \in T /\ at \in Page /\ e.key \in R[at]
      /\ g > 0 => Spared(Cur, T, e.key)
      /\ Parting(Cur, root_page_id)
  BY TreeTyped
<1>2. UNCHANGED disk /\ todo # {}
  BY DEF SplitFullChild, fileVars
<1>3. Cur \in [Page -> Node] /\ \A p \in Page : Cur[p] = ReadPage(disk, p) /\ Sound(Cur[p])
  BY <1>2, CurNew
<1>4. PICK i \in 1..Len(Cur[at].kids) :
        LET kid == Cur[at].kids[i]
        IN /\ Below(e, Cur[at], i)
           /\ Full(ReadPage(disk, kid))
           /\ writes' = SplitChild(at, Cur[at], i, ReadPage(disk, kid), next_page_id)
           /\ next_page_id' = next_page_id + 1
           /\ at' = IF e.key > ReadPage(disk, kid).ents[Degree].key THEN next_page_id ELSE kid
           /\ UNCHANGED <<root_page_id, todo>>
  BY <1>1, <1>3 DEF SplitFullChild, fileVars
<1>5. PICK kid : kid = Cur[at].kids[i]
  OBVIOUS
<1> DEFINE q == next_page_id
           m == Cur[kid].ents[Degree].key
           lo == LowerHalf(Cur[kid])
           up == UpperHalf(Cur[kid])
           pr == Promote(Cur[at], i, Cur[kid].ents[Degree], q)
<1>6. Kid(Cur, at, i, kid) /\ e.key \in R[kid]
  BY <1>1, <1>3, <1>4, <1>5, BelowSpan
<1>7. /\ kid \in T /\ kid # root_page_id /\ kid # at /\ kid \in Page
      /\ Cur[at] \in Node /\ Sound(Cur[at]) /\ Cur[kid] \in Node /\ Sound(Cur[kid])
  BY <1>1, <1>3, <1>6, KidOf
<1>8. /\ Below(e, Cur[at], i)
      /\ Full(Cur[kid])
      /\ writes' = SplitChild(at, Cur[at], i, Cur[kid], q)
      /\ next_page_id' = q + 1
      /\ at' = IF e.key > m THEN q ELSE kid
      /\ UNCHANGED <<root_page_id, todo>>
  BY <1>3, <1>4, <1>5, <1>7
<1>9. q \in Page /\ q \notin T /\ q # kid /\ q # at
  <2>1. \A x \in 0..next_page_id - 1 : x # q
    BY <1>1
  <2>2. q \in Page
    BY <1>1 DEF Page
  <2> QED BY <2>1, <2>2, <1>1, <1>7
<1>10. HasRoom(Cur[at])
  <2>1. ~Full(Cur[at]) /\ ~Cur[at].leaf
    BY <1>1, <1>2, <1>3, <1>8, RoomAtNode DEF Below
  <2> QED BY <2>1, <1>7, NodeProps, MaxKeysProps DEF HasRoom, Sound, Full
<1>11. lo \in Node /\ up \in Node /\ pr \in Node
  <2>1. lo \in Node /\ up \in Node /\ Cur[kid].ents[Degree] \in Entry
    BY <1>7, <1>8, HalvesProps
  <2>2. i \in 1..Len(Cur[at].kids)
    OBVIOUS
  <2> QED BY <2>1, <2>2, <1>7, <1>9, <1>10, PromoteProps
<1>12. SplitWrites(writes', kid, lo, q, up, at, pr)
  <2>1. writes' = << Write(kid, lo), Write(q, up), Write(at, pr) >>
    BY <1>5, <1>8 DEF SplitChild
  <2> HIDE DEF lo, up, pr
  <2> QED BY <2>1, <1>1, <1>7, <1>9, <1>11, SplitWritesOf
<1>13. /\ Cur' \in [Page -> Node]
       /\ Cur'[kid] = lo /\ Cur'[q] = up /\ Cur'[at] = pr
       /\ \A x \in Page \ {kid, q, at} : Cur'[x] = Cur[x]
       /\ \A k \in DOMAIN writes' : /\ writes'[k].page \in {kid, q, at}
                                    /\ Cur'[writes'[k].page] = writes'[k].node
  <2> HIDE DEF lo, up, pr
  <2> QED BY <1>1, <1>2, <1>7, <1>9, <1>12, SplitCur
<1>14. IsSplit(Cur, at, i, q, kid, Cur')
  BY <1>1, <1>3, <1>6, <1>7, <1>8, <1>9, <1>10, <1>13, SplitAtIs
<1> HIDE DEF lo, up, pr
<1> HIDE DEF q, m
<1>23. m = Cur[kid].ents[Degree].key
  BY DEF m
<1>24. PICK T2 : T2 = T \cup {q}
  OBVIOUS
<1>25. PICK h2 : h2 = [h EXCEPT ![q] = h[kid]]
  OBVIOUS
<1>15. PICK R2 :
         /\ R2 \in [Page -> SUBSET Int]
         /\ R2[kid] = UpTo(g, R[kid], m) /\ R2[q] = From(g, R[kid], m)
         /\ Parted(g, Cur, T, R, kid, q, R2)
  <2> DEFINE R3 == [R EXCEPT ![kid] = UpTo(g, R[kid], m), ![q] = From(g, R[kid], m)]
  <2>1. /\ R3 \in [Page -> SUBSET Int]
        /\ R3[kid] = UpTo(g, R[kid], m) /\ R3[q] = From(g, R[kid], m)
        /\ \A x \in T : x # kid => R3[x] = R[x]
    <3>1. UpTo(g, R[kid], m) \in SUBSET Int /\ From(g, R[kid], m) \in SUBSET Int
      BY <1>1, <1>7 DEF UpTo, From
    <3> QED BY <3>1, <1>1, <1>7, <1>9
  <2>2. Parted(g, Cur, T, R, kid, q, R3)
    BY <2>1, <1>23 DEF Parted
  <2> QED BY <2>1, <2>2
<1>16. Shape(Cur', root_page_id, T2, h2)
  BY <1>1, <1>3, <1>6, <1>8, <1>9, <1>10, <1>14, <1>24, <1>25, SplitShape
<1>17. Keyed(g, Cur', root_page_id, T2, R2)
  <2>1. g \in Nat
    OBVIOUS
  <2>2. Keyed(g, Cur', root_page_id, T \cup {q}, R2)
    BY <2>1, <1>1, <1>3, <1>6, <1>8, <1>9, <1>10, <1>14, <1>15, <1>23, SplitKeyed
  <2> QED BY <2>2, <1>24
<1>18. h2 \in [Page -> Nat] /\ \A x \in 0..next_page_id - 1 : h2[x] = h[x]
  <2>1. \A x \in 0..next_page_id - 1 : x # q /\ x \in Page
    BY <1>1 DEF Page, q
  <2>2. h[kid] \in Nat
    BY <1>1, <1>7
  <2> QED BY <2>1, <2>2, <1>1, <1>9, <1>25
<1>19. Destined(g, T2, R2)'
  <2>1. at' \in T2
    BY <1>7, <1>8, <1>24
  <2>2. m \in Int
    <3>1. Degree \in 1..Len(Cur[kid].ents)
      BY <1>8, MaxKeysProps DEF Full
    <3> QED BY <3>1, <1>7, <1>23, EntryKeys
  <2>3. g > 0 => e.key # m
    <3>1. Degree \in 1..Len(Cur[kid].ents)
      BY <1>8, MaxKeysProps DEF Full
    <3> QED BY <3>1, <1>1, <1>7, <1>8, <1>23 DEF Spared, Lacks
  <2>4. R2[kid] = {x \in R[kid] : x + g <= m} /\ R2[q] = {x \in R[kid] : m + g <= x}
    BY <1>15 DEF UpTo, From
  <2>5. e.key \in R2[at']
    <3>1. CASE e.key > m
      BY <3>1, <2>2, <2>4, <1>1, <1>6, <1>8
    <3>2. CASE ~(e.key > m)
      <4>1. e.key + g <= m
        BY <3>2, <2>2, <2>3, <1>1
      <4> QED BY <3>2, <4>1, <2>4, <1>6, <1>8
    <3> QED BY <3>1, <3>2
  <2>6. ASSUME g > 0 PROVE Spared(Cur', T2, e.key)
    <3>1. Spared(Cur, T \ {kid, at}, e.key) /\ e.key # m
      BY <2>3, <2>6, <1>1 DEF Spared
    <3>2. Lacks(Cur[at], e.key)
      BY <1>8 DEF Below, Matches, Lacks
    <3>3. Lacks(Cur'[at], e.key)
      BY <3>1, <3>2, <1>7, <1>14, <1>23, PromotedKeys
    <3> QED BY <3>1, <3>3, <1>1, <1>7, <1>9, <1>14, <1>24, SplitSpared
  <2>7. todo' = {e}
    BY <1>1, <1>8
  <2> QED BY <2>1, <2>5, <2>6, <2>7 DEF Destined
<1>20. /\ next_page_id' \in Nat /\ next_page_id <= next_page_id'
       /\ T2 \in SUBSET (0..next_page_id' - 1)
       /\ \A k \in DOMAIN writes' : /\ writes'[k].page \in T2
                                    /\ Cur'[writes'[k].page] = writes'[k].node
  <2>1. next_page_id' = next_page_id + 1 /\ T2 = T \cup {next_page_id}
    BY <1>8, <1>24 DEF q
  <2>2. 0..next_page_id' - 1 = 0..next_page_id - 1 \cup {next_page_id}
    BY <2>1, <1>1
  <2>3. \A k \in DOMAIN writes' : /\ writes'[k].page \in T2
                                  /\ Cur'[writes'[k].page] = writes'[k].node
    BY <1>1, <1>7, <1>13, <1>24
  <2> QED BY <2>1, <2>2, <2>3, <1>1
<1>29. Parting(Cur', root_page_id)
  <2>1. Len(Cur'[at].ents) = Len(Cur[at].ents) + 1 /\ Len(Cur[at].ents) \in Nat
    BY <1>7, <1>14, NodeProps DEF IsSplit
  <2>2. CASE root_page_id = at
    BY <2>1, <2>2 DEF Parting
  <2>3. CASE root_page_id # at
    <3>1. root_page_id \in Page \ {kid, q, at}
      BY <2>3, <1>1, <1>7, <1>9 DEF Shape
    <3> QED BY <3>1, <1>1, <1>13 DEF Parting
  <2> QED BY <2>2, <2>3
<1>21. /\ Shape(Cur', root_page_id', T2, h2) /\ Keyed(g, Cur', root_page_id', T2, R2)
       /\ Parting(Cur', root_page_id')
  BY <1>8, <1>16, <1>17, <1>29
<1>22. Tree(g, T2, h2, R2)'
  <2>1. R2 \in [Page -> SUBSET Int] /\ Cur' \in [Page -> Node]
    BY <1>13, <1>15
  <2>2. UNCHANGED disk
    BY <1>2
  <2>3. T2 \in SUBSET (0..next_page_id' - 1) /\ next_page_id' \in Nat /\ next_page_id <= next_page_id'
    BY <1>20
  <2>4. \A k \in DOMAIN writes' : /\ writes'[k].page \in T2
                                  /\ Cur'[writes'[k].page] = writes'[k].node
    BY <1>20
  <2>5. Decided(g, T2, h2, R2)'
    BY <2>1, <2>3, <2>4, <1>18, <1>19, <1>21 DEF Decided
  <2>6. SameRank(h, h2)
    BY <1>18 DEF SameRank
  <2> QED BY <2>2, <2>3, <2>5, <2>6, Decide
<1>26. T2 = T \cup {next_page_id}
  BY <1>24 DEF q
<1>27. Divided(Cur, T, at, i, next_page_id, kid, Cur')
  <2>1. next_page_id = q
    BY DEF q
  <2>2. Divided(Cur, T, at, i, q, kid, Cur')
    BY <1>1, <1>6, <1>7, <1>8, <1>9, <1>10, <1>14 DEF Divided
  <2> QED BY <2>1, <2>2
<1>28. Agreed'
  BY <1>20 DEF Agreed
<1> QED BY <1>22, <1>26, <1>27, <1>28

\* insert on a full root keeps the tree: the new root has the two halves of the
\* old one.
LEMMA GrowRootTree ==
  ASSUME IInv, IInv', NEW g \in {0, 1}, NEW T, NEW h, NEW R, Tree(g, T, h, R),
         NEW e \in Entry, g > 0 => Spared(Cur, T \ {root_page_id}, e.key), GrowRoot(e)
  PROVE  /\ \E T2, h2, R2 : /\ T2 = T \cup {next_page_id, next_page_id + 1}
                            /\ Tree(g, T2, h2, R2)'
         /\ Divided([Cur EXCEPT ![next_page_id] = NewRoot(root_page_id)],
                    T \cup {next_page_id}, next_page_id, 1, next_page_id + 1,
                    root_page_id, Cur')
         /\ Agreed'
<1>1. /\ T \in SUBSET (0..next_page_id - 1) /\ T \in SUBSET Page /\ next_page_id \in Nat
      /\ h \in [Page -> Nat] /\ R \in [Page -> SUBSET Int]
      /\ Shape(Cur, root_page_id, T, h) /\ Keyed(g, Cur, root_page_id, T, R)
      /\ e.key \in Int
  BY TreeTyped, KeyAssumption DEF Entry
<1>2. UNCHANGED disk /\ writes = <<>>
  BY DEF GrowRoot, fileVars, Idle
<1>3. Cur \in [Page -> Node] /\ \A p \in Page : Cur[p] = ReadPage(disk, p) /\ Sound(Cur[p])
  BY <1>2, CurNew
<1> DEFINE nr == next_page_id
           q == next_page_id + 1
           kid == root_page_id
           lo == LowerHalf(Cur[kid])
           up == UpperHalf(Cur[kid])
           pr == Promote(NewRoot(kid), 1, Cur[kid].ents[Degree], q)
<1>4. /\ kid \in T /\ kid \in Page /\ nr \in Page /\ q \in Page
      /\ kid # nr /\ kid # q /\ nr # q /\ nr \notin T /\ q \notin T
  <2>1. kid \in T
    BY <1>1 DEF Shape
  <2>2. \A x \in 0..next_page_id - 1 : x # nr /\ x # q
    BY <1>1
  <2>3. nr \in Page /\ q \in Page /\ nr # q
    BY <1>1 DEF Page
  <2> QED BY <2>1, <2>2, <2>3, <1>1
<1>5. /\ Full(Cur[kid]) /\ Cur[kid] \in Node /\ Sound(Cur[kid])
      /\ writes' = LET s == SplitChild(nr, NewRoot(kid), 1, Cur[kid], q) IN Append(s, s[3])
      /\ next_page_id' = next_page_id + 2 /\ root_page_id' = nr
      /\ todo' = {e} /\ at' = nr
  BY <1>3, <1>4 DEF GrowRoot, NewRoot
<1>6. NewRoot(kid) \in Node /\ HasRoom(NewRoot(kid)) /\ 1 \in 1..Len(NewRoot(kid).kids)
      /\ NewRoot(kid).kids[1] = kid
  <2>1. /\ NewRoot(kid) \in Node /\ ~NewRoot(kid).leaf /\ Len(NewRoot(kid).ents) = 0
        /\ Len(NewRoot(kid).kids) = 1 /\ NewRoot(kid).kids[1] = kid
    BY <1>4, NewRootProps
  <2>2. 0 < MaxKeys /\ 1 = 0 + 1 /\ 1 \in 1..1
    BY MaxKeysProps
  <2> QED BY <2>1, <2>2 DEF HasRoom
<1> HIDE DEF nr, q, kid
<1>7. lo \in Node /\ up \in Node /\ pr \in Node
  <2>1. lo \in Node /\ up \in Node /\ Cur[kid].ents[Degree] \in Entry
    BY <1>5, HalvesProps
  <2> QED BY <2>1, <1>4, <1>6, PromoteProps
<1>8. SplitWrites(writes', kid, lo, q, up, nr, pr)
  <2> DEFINE s == << Write(kid, lo), Write(q, up), Write(nr, pr) >>
  <2>1. writes' = Append(s, s[3])
    BY <1>5, <1>6 DEF SplitChild
  <2>2. SplitWrites(Append(s, s[3]), kid, lo, q, up, nr, pr)
    <3> HIDE DEF lo, up, pr
    <3> QED BY <1>4, <1>7, SplitWritesOf
  <2> HIDE DEF s
  <2> QED BY <2>1, <2>2
<1>9. /\ Cur' \in [Page -> Node]
      /\ Cur'[kid] = lo /\ Cur'[q] = up /\ Cur'[nr] = pr
      /\ \A x \in Page \ {kid, q, nr} : Cur'[x] = Cur[x]
      /\ \A k \in DOMAIN writes' : /\ writes'[k].page \in {kid, q, nr}
                                   /\ Cur'[writes'[k].page] = writes'[k].node
  <2> HIDE DEF lo, up, pr
  <2> QED BY <1>2, <1>4, <1>8, SplitCur
<1>10. PICK c : c = [Cur EXCEPT ![nr] = NewRoot(kid)]
  OBVIOUS
<1>11. /\ c \in [Page -> Node] /\ c[nr] = NewRoot(kid) /\ c[kid] = Cur[kid]
       /\ \A x \in Page \ {nr} : c[x] = Cur[x]
  <2> HIDE DEF Cur
  <2> QED BY <1>3, <1>4, <1>6, <1>10
<1>12. Len(Cur[kid].ents) >= Degree - 1
  BY <1>5, MaxKeysProps DEF Full
<1>13. PICK h1 : h1 = [h EXCEPT ![nr] = h[kid] + 1]
  OBVIOUS
<1>14. h1 \in [Page -> Nat] /\ \A x \in Page \ {nr} : h1[x] = h[x]
  <2>1. h[kid] + 1 \in Nat
    BY <1>1, <1>4
  <2> QED BY <2>1, <1>1, <1>4, <1>13
<1>15. PICK T1 : T1 = T \cup {nr}
  OBVIOUS
<1>16. Shape(c, nr, T1, h1) /\ Kid(c, nr, 1, kid)
  <2>1. Shape(Cur, kid, T, h)
    BY <1>1 DEF kid
  <2> QED BY <2>1, <1>1, <1>3, <1>4, <1>10, <1>12, <1>13, <1>15, GrowShape
<1>17. PICK R1 : R1 = [R EXCEPT ![nr] = Int]
  OBVIOUS
<1>18. R1 \in [Page -> SUBSET Int] /\ Keyed(g, c, nr, T1, R1)
  <2>1. Shape(Cur, kid, T, h) /\ Keyed(g, Cur, kid, T, R) /\ g \in Nat
    BY <1>1 DEF kid
  <2> QED BY <2>1, <1>1, <1>3, <1>4, <1>10, <1>15, <1>17, GrowKeyed
<1>19. /\ nr \in T1 /\ kid \in T1 /\ T1 \in SUBSET Page /\ q \in Page \ T1
       /\ HasRoom(c[nr]) /\ Full(c[kid]) /\ Sound(c[kid]) /\ c[nr] \in Node
  BY <1>1, <1>4, <1>5, <1>6, <1>11, <1>15
<1>20. IsSplit(c, nr, 1, q, kid, Cur')
  <2>1. /\ Cur'[kid] = LowerHalf(c[kid]) /\ Cur'[q] = UpperHalf(c[kid])
        /\ Cur'[nr] = Promote(c[nr], 1, c[kid].ents[Degree], q)
        /\ \A x \in Page \ {kid, q, nr} : Cur'[x] = c[x]
    BY <1>9, <1>11
  <2> HIDE DEF lo, up, pr, Cur
  <2> QED BY <2>1, <1>4, <1>9, <1>11, <1>16, <1>19, SplitAtIs
<1> HIDE DEF lo, up, pr
<1>21. PICK T2 : T2 = T1 \cup {q}
  OBVIOUS
<1>22. PICK h2 : h2 = [h1 EXCEPT ![q] = h1[kid]]
  OBVIOUS
<1>23. PICK R2 : R2 \in [Page -> SUBSET Int] /\ R2[nr] = R1[nr] /\ Parted(g, c, T1, R1, kid, q, R2)
  <2> DEFINE m == c[kid].ents[Degree].key
             R3 == [R1 EXCEPT ![kid] = UpTo(g, R1[kid], m), ![q] = From(g, R1[kid], m)]
  <2>1. /\ R3 \in [Page -> SUBSET Int]
        /\ R3[kid] = UpTo(g, R1[kid], m) /\ R3[q] = From(g, R1[kid], m)
        /\ \A x \in T1 : x # kid => R3[x] = R1[x]
    <3>1. UpTo(g, R1[kid], m) \in SUBSET Int /\ From(g, R1[kid], m) \in SUBSET Int
      BY <1>4, <1>18 DEF UpTo, From
    <3> QED BY <3>1, <1>4, <1>18, <1>19
  <2> HIDE DEF R3
  <2>2. Parted(g, c, T1, R1, kid, q, R3)
    BY <2>1 DEF Parted
  <2>3. R3[nr] = R1[nr]
    BY <2>1, <1>4, <1>19
  <2> QED BY <2>1, <2>2, <2>3
<1>24. Shape(Cur', nr, T2, h2)
  BY <1>11, <1>14, <1>16, <1>19, <1>20, <1>21, <1>22, SplitShape
<1>25. Keyed(g, Cur', nr, T2, R2)
  <2>1. Keyed(g, Cur', nr, T1 \cup {q}, R2)
    BY <1>11, <1>14, <1>16, <1>18, <1>19, <1>20, <1>23, SplitKeyed
  <2> QED BY <2>1, <1>21
<1>26. h2 \in [Page -> Nat] /\ SameRank(h, h2)
  <2>1. \A x \in 0..next_page_id - 1 : x # q /\ x # nr /\ x \in Page
    BY <1>1 DEF Page, q, nr
  <2>2. h1[kid] \in Nat
    BY <1>4, <1>14
  <2>3. h2 \in [Page -> Nat] /\ \A x \in Page \ {q} : h2[x] = h1[x]
    BY <2>2, <1>14, <1>22
  <2> QED BY <2>1, <2>3, <1>14 DEF SameRank
<1>27. Destined(g, T2, R2)'
  <2>1. at' \in T2 /\ todo' = {e}
    BY <1>5, <1>15, <1>21
  <2>2. e.key \in R2[at']
    BY <1>1, <1>4, <1>5, <1>17, <1>23
  <2>3. ASSUME g > 0 PROVE Spared(Cur', T2, e.key)
    <3>1. Spared(c, T1 \ {kid, nr}, e.key)
      <4>1. T1 \ {kid, nr} \subseteq T \ {kid} /\ \A x \in T : c[x] = Cur[x]
        BY <1>1, <1>4, <1>11, <1>15
      <4>2. Spared(Cur, T \ {kid}, e.key)
        BY <2>3 DEF kid
      <4> QED BY <4>1, <4>2 DEF Spared
    <3>2. ~Full(Cur'[nr])
      <4>1. Len(Cur'[nr].ents) = 1
        BY <1>4, <1>11, <1>20, NewRootProps DEF IsSplit
      <4> QED BY <4>1, MaxKeysProps DEF Full
    <3> QED BY <3>1, <3>2, <1>4, <1>11, <1>19, <1>20, <1>21, SplitSpared
  <2> QED BY <2>1, <2>2, <2>3 DEF Destined
<1>28. /\ next_page_id' \in Nat
       /\ T2 \in SUBSET (0..next_page_id' - 1)
       /\ \A k \in DOMAIN writes' : /\ writes'[k].page \in T2
                                    /\ Cur'[writes'[k].page] = writes'[k].node
  <2>1. next_page_id' = next_page_id + 2 /\ T2 = T \cup {next_page_id, next_page_id + 1}
    BY <1>5, <1>15, <1>21 DEF nr, q
  <2>2. 0..next_page_id' - 1 = 0..next_page_id - 1 \cup {next_page_id, next_page_id + 1}
    BY <2>1, <1>1
  <2>3. \A k \in DOMAIN writes' : /\ writes'[k].page \in T2
                                  /\ Cur'[writes'[k].page] = writes'[k].node
    BY <1>4, <1>9, <1>15, <1>21
  <2> QED BY <2>1, <2>2, <2>3, <1>1
<1>35. Parting(Cur', nr)
  <2>1. Len(Cur'[nr].ents) = 1
    BY <1>4, <1>11, <1>20, NewRootProps DEF IsSplit
  <2> QED BY <2>1 DEF Parting
<1>29. /\ Shape(Cur', root_page_id', T2, h2) /\ Keyed(g, Cur', root_page_id', T2, R2)
       /\ Parting(Cur', root_page_id')
  BY <1>5, <1>24, <1>25, <1>35
<1>30. Decided(g, T2, h2, R2)'
  <2>1. R2 \in [Page -> SUBSET Int] /\ Cur' \in [Page -> Node]
    BY <1>9, <1>23
  <2> QED BY <2>1, <1>26, <1>27, <1>28, <1>29 DEF Decided
<1>31. Tree(g, T2, h2, R2)'
  BY <1>2, <1>26, <1>28, <1>30, Decide
<1>32. T2 = T \cup {next_page_id, next_page_id + 1}
  BY <1>15, <1>21 DEF nr, q
<1>33. Divided([Cur EXCEPT ![next_page_id] = NewRoot(root_page_id)],
               T \cup {next_page_id}, next_page_id, 1, next_page_id + 1, root_page_id, Cur')
  <2>1. Divided(c, T1, nr, 1, q, kid, Cur')
    BY <1>16, <1>19, <1>20 DEF Divided
  <2> QED BY <2>1, <1>10, <1>15 DEF nr, q, kid
<1>34. Agreed'
  BY <1>28 DEF Agreed
<1> QED BY <1>31, <1>32, <1>33, <1>34

\* One insert, of a key that no full node below the root has when keys may not
\* be repeated.
LEMMA InsertTree ==
  ASSUME IInv, IInv', NEW g \in {0, 1}, NEW T, NEW h, NEW R, Tree(g, T, h, R),
         NEW e \in Entry, g > 0 => Spared(Cur, T \ {root_page_id}, e.key), Insert(e)
  PROVE  TreeInv(g)'
<1>1. CASE EnterRoot(e)
  <2>1. Tree(g, T, h, R)'
    BY <1>1, EnterRootTree
  <2> QED BY <2>1 DEF TreeInv
<1>2. CASE GrowRoot(e)
  <2>1. PICK T2, h2, R2 : Tree(g, T2, h2, R2)'
    BY <1>2, GrowRootTree
  <2> QED BY <2>1 DEF TreeInv
<1> QED BY <1>1, <1>2 DEF Insert

\* Whatever else happens keeps the tree.
LEMMA OtherTree ==
  ASSUME IInv, IInv', NEW g \in {0, 1}, TreeInv(g), Step \/ Restart \/ UNCHANGED vars
  PROVE  TreeInv(g)'
<1>1. PICK T, h, R : Tree(g, T, h, R)
  BY DEF TreeInv
<1>2. CASE FlushPage
  <2>1. Tree(g, T, h, R)'
    BY <1>1, <1>2, FlushTree
  <2> QED BY <2>1 DEF TreeInv
<1>3. CASE Visit
  <2>1. PICK e \in todo : \/ UpdateEntry(e, ReadPage(disk, at))
                          \/ AddToLeaf(e, ReadPage(disk, at))
                          \/ Descend(e, ReadPage(disk, at))
                          \/ SplitFullChild(e, ReadPage(disk, at))
    BY <1>3 DEF Visit
  <2>2. writes = <<>>
    BY <1>3 DEF Visit
  <2>3. CASE UpdateEntry(e, ReadPage(disk, at))
    <3>1. Tree(g, T, h, R)'
      BY <1>1, <2>2, <2>3, UpdateEntryTree
    <3> QED BY <3>1 DEF TreeInv
  <2>4. CASE AddToLeaf(e, ReadPage(disk, at))
    <3>1. Tree(g, T, h, R)'
      BY <1>1, <2>2, <2>4, AddToLeafTree
    <3> QED BY <3>1 DEF TreeInv
  <2>5. CASE Descend(e, ReadPage(disk, at))
    <3>1. Tree(g, T, h, R)'
      BY <1>1, <2>2, <2>5, DescendTree
    <3> QED BY <3>1 DEF TreeInv
  <2>6. CASE SplitFullChild(e, ReadPage(disk, at))
    <3>1. PICK T2, h2, R2 : Tree(g, T2, h2, R2)'
      BY <1>1, <2>2, <2>6, SplitFullChildTree
    <3> QED BY <3>1 DEF TreeInv
  <2> QED BY <2>1, <2>3, <2>4, <2>5, <2>6
<1>4. CASE Restart
  BY <1>1, <1>4, RestartTree
<1>5. CASE UNCHANGED vars
  <2>1. Tree(g, T, h, R)'
    BY <1>1, <1>5, StutterTree
  <2> QED BY <2>1 DEF TreeInv
<1> QED BY <1>2, <1>3, <1>4, <1>5 DEF Step

\* Every step of the program keeps the tree.
LEMMA StepTree ==
  ASSUME IInv, TreeInv(0), [Next]_vars
  PROVE  TreeInv(0)'
<1>1. IInv' /\ 0 \in {0, 1} /\ ~(0 > 0)
  BY StepIInv
<1>2. CASE \E e \in Entry : Insert(e)
  <2>1. PICK T, h, R : Tree(0, T, h, R)
    BY DEF TreeInv
  <2> QED BY <2>1, <1>1, <1>2, InsertTree
<1>3. CASE Step \/ Restart \/ UNCHANGED vars
  BY <1>1, <1>3, OtherTree
<1> QED BY <1>2, <1>3 DEF Next

\* Whatever is inserted, the pages below the root always are a B-tree with its
\* keys in order, when the page writes that are due are counted in.
THEOREM TreeInvariant == Spec => []TreeInv(0)
<1>1. Init => IInv /\ TreeInv(0)
  BY InitIInv, InitTree
<1>2. IInv /\ TreeInv(0) /\ [Next]_vars => (IInv /\ TreeInv(0))'
  BY StepIInv, StepTree
<1> QED BY <1>1, <1>2, PTL DEF Spec

-----------------------------------------------------------------------------
(* The traversals: what the recursive definitions that readers and the        *)
(* properties use return.                                                     *)

\* A definition that steps from 0 to N has a solution.
Stepwise(N, V, v0, G) == N \in Nat /\ v0 \in V /\ G \in [(1..N) \X V -> V]

\* u is what the steps G make of v0.
Stepped(N, v0, G, u) == u[0] = v0 /\ \A i \in 1..N : u[i] = G[<<i, u[i - 1]>>]

\* A definition by steps has a solution, as the loops of InOrder and Hits need.
LEMMA Steps ==
  ASSUME NEW N, NEW V, NEW v0, NEW G, Stepwise(N, V, v0, G)
  PROVE  \E u \in [0..N -> V] : Stepped(N, v0, G, u)
<1>0. N \in Nat /\ v0 \in V /\ G \in [(1..N) \X V -> V]
  BY DEF Stepwise
<1> DEFINE D == 0..N
           rank == [i \in D |-> i]
           F == [f \in [D -> V] |-> [i \in D |-> IF i = 0 THEN v0 ELSE G[<<i, f[i - 1]>>]]]
<1>1. \A i \in D : i # 0 => i - 1 \in D /\ i \in 1..N
  BY <1>0
<1>2. rank \in [D -> Nat] /\ \A i \in D : rank[i] = i
  BY <1>0
<1>3. ASSUME NEW f \in [D -> V], NEW i \in D
      PROVE  (IF i = 0 THEN v0 ELSE G[<<i, f[i - 1]>>]) \in V
  <2> HIDE DEF D
  <2>1. CASE i # 0
    <3>1. <<i, f[i - 1]>> \in (1..N) \X V
      BY <1>1, <2>1
    <3>2. G[<<i, f[i - 1]>>] \in V
      BY <3>1, <1>0
    <3> QED BY <2>1, <3>2
  <2> QED BY <2>1, <1>0
<1>4. F \in [[D -> V] -> [D -> V]]
  BY <1>3
<1>5. ASSUME NEW f \in [D -> V], NEW g \in [D -> V], NEW i \in D,
             \A j \in D : rank[j] < rank[i] => f[j] = g[j]
      PROVE  F[f][i] = F[g][i]
  <2>1. i # 0 => f[i - 1] = g[i - 1]
    BY <1>1, <1>2, <1>5
  <2> QED BY <2>1
<1>6. \A f \in [D -> V] : F[f] = [i \in 0..N |-> IF i = 0 THEN v0 ELSE G[<<i, f[i - 1]>>]]
  OBVIOUS
<1> HIDE DEF D, rank, F
<1>7. \A f, g \in [D -> V] : \A i \in D :
         (\A j \in D : rank[j] < rank[i] => f[j] = g[j]) => F[f][i] = F[g][i]
  BY <1>5
<1>8. rank \in [D -> Nat]
  BY <1>2
<1>9. Recurses(D, V, rank, F)
  BY <1>0, <1>4, <1>7, <1>8 DEF Recurses
<1>10. PICK u \in [D -> V] : u = F[u]
  BY <1>9, Recursion
<1>11. \A i \in 1..N : i \in 0..N /\ i # 0
  BY <1>0
<1>12. 0 \in 0..N
  BY <1>0
<1>13. u = [i \in 0..N |-> IF i = 0 THEN v0 ELSE G[<<i, u[i - 1]>>]]
  BY <1>6, <1>10
<1> QED BY <1>10, <1>11, <1>12, <1>13 DEF D, Stepped

\* u is how far InOrder has come after each child of n.
Between(n, shown, u) ==
  /\ u[0] = <<>>
  /\ \A i \in 1..Len(n.kids) :
       u[i] = u[i - 1] \o shown[n.kids[i]] \o
              IF i <= Len(n.ents) THEN <<n.ents[i]>> ELSE <<>>

\* A leaf shows its entries, an inner node those of its children around them.
LEMMA InOrderIs ==
  ASSUME NEW n \in Node, NEW shown, \A i \in 1..Len(n.kids) : shown[n.kids[i]] \in Seq(Entry)
  PROVE  /\ InOrder(n, shown) \in Seq(Entry)
         /\ n.leaf => InOrder(n, shown) = n.ents
         /\ ~n.leaf => \E u \in [0..Len(n.kids) -> Seq(Entry)] :
                         Between(n, shown, u) /\ InOrder(n, shown) = u[Len(n.kids)]
<1> DEFINE N == Len(n.kids)
           last(i) == IF i <= Len(n.ents) THEN <<n.ents[i]>> ELSE <<>>
           G == [x \in (1..N) \X Seq(Entry) |-> x[2] \o shown[n.kids[x[1]]] \o last(x[1])]
           is(u) == u = [i \in 0..N |-> IF i = 0 THEN <<>>
                                        ELSE u[i - 1] \o shown[n.kids[i]] \o last(i)]
<1>1. /\ N \in Nat /\ n.ents \in Seq(Entry) /\ Len(n.ents) \in Nat /\ n.leaf \in BOOLEAN
      /\ \A i \in 1..Len(n.ents) : n.ents[i] \in Entry
  BY NodeProps, EntryKeys
<1>2. ASSUME NEW i \in 1..N PROVE last(i) \in Seq(Entry)
  <2>1. i <= Len(n.ents) => n.ents[i] \in Entry
    BY <1>1
  <2> QED BY <2>1
<1>3. ASSUME NEW i \in 1..N, NEW s \in Seq(Entry)
      PROVE  s \o shown[n.kids[i]] \o last(i) \in Seq(Entry)
  <2> HIDE DEF last
  <2>1. shown[n.kids[i]] \in Seq(Entry) /\ last(i) \in Seq(Entry)
    BY <1>2
  <2> QED BY <2>1
<1>4. G \in [(1..N) \X Seq(Entry) -> Seq(Entry)]
  <2> SUFFICES ASSUME NEW x \in (1..N) \X Seq(Entry)
               PROVE  x[2] \o shown[n.kids[x[1]]] \o last(x[1]) \in Seq(Entry)
    OBVIOUS
  <2> HIDE DEF last, N
  <2> QED BY <1>3
<1>5. \A i \in 1..N, s \in Seq(Entry) : G[<<i, s>>] = s \o shown[n.kids[i]] \o last(i)
  OBVIOUS
<1>6. PICK w \in [0..N -> Seq(Entry)] :
        w[0] = <<>> /\ \A i \in 1..N : w[i] = G[<<i, w[i - 1]>>]
  <2> HIDE DEF G, N, is
  <2> DEFINE none == <<>>
  <2>1. N \in Nat /\ none \in Seq(Entry)
    BY <1>1, EmptySequence
  <2> HIDE DEF none
  <2>2. Stepwise(N, Seq(Entry), none, G)
    BY <2>1, <1>4 DEF Stepwise
  <2>3. PICK w \in [0..N -> Seq(Entry)] : Stepped(N, none, G, w)
    BY <2>2, Steps
  <2> QED BY <2>3 DEF none, Stepped
<1>7. is(w)
  <2>1. \A i \in 0..N : i # 0 => i \in 1..N /\ i - 1 \in 0..N
    BY <1>1
  <2> HIDE DEF G, N, last
  <2>2. \A i \in 0..N : i # 0 => G[<<i, w[i - 1]>>] = w[i - 1] \o shown[n.kids[i]] \o last(i)
    BY <1>5, <2>1
  <2> QED BY <1>6, <2>1, <2>2
<1>8. PICK u : is(u) /\ InOrder(n, shown) = IF n.leaf THEN n.ents ELSE u[N]
  BY <1>7 DEF InOrder
<1>9. /\ u[0] = <<>>
      /\ \A i \in 1..N : i - 1 \in 0..N /\ u[i] = u[i - 1] \o shown[n.kids[i]] \o last(i)
  <2>1. \A i \in 1..N : i \in 0..N /\ i - 1 \in 0..N /\ i # 0
    BY <1>1
  <2>2. 0 \in 0..N
    BY <1>1
  <2> HIDE DEF N, last
  <2> QED BY <1>8, <2>1, <2>2
<1>10. Between(n, shown, u)
  BY <1>9 DEF Between
<1>11. u \in [0..N -> Seq(Entry)]
  <2> DEFINE S == {i \in Nat : i <= N => u[i] \in Seq(Entry)}
  <2>1. 0 \in S
    <3>1. u[0] \in Seq(Entry)
      BY <1>9, EmptySequence
    <3> QED BY <3>1
  <2>2. ASSUME NEW i \in S PROVE i + 1 \in S
    <3> SUFFICES ASSUME i + 1 <= N PROVE u[i + 1] \in Seq(Entry)
      OBVIOUS
    <3>1. i + 1 \in 1..N /\ (i + 1) - 1 = i /\ u[i] \in Seq(Entry)
      BY <1>1
    <3> HIDE DEF N, last, S
    <3>2. u[i] \o shown[n.kids[i + 1]] \o last(i + 1) \in Seq(Entry)
      BY <3>1, <1>3
    <3> QED BY <3>1, <3>2, <1>9
  <2>3. S = Nat
    <3> HIDE DEF S
    <3>1. S \in SUBSET Nat
      BY DEF S
    <3> QED BY <2>1, <2>2, <3>1, NatInd
  <2>4. \A i \in 0..N : u[i] \in Seq(Entry)
    BY <2>3, <1>1
  <2> HIDE DEF N, last
  <2> QED BY <2>4, <1>8
<1>12. N \in 0..N
  BY <1>1
<1> QED BY <1>1, <1>8, <1>10, <1>11, <1>12

\* What a node shows depends on what its children show only.
LEMMA InOrderSame ==
  ASSUME NEW n \in Node, NEW f, NEW g,
         \A i \in 1..Len(n.kids) : f[n.kids[i]] \in Seq(Entry) /\ f[n.kids[i]] = g[n.kids[i]]
  PROVE  InOrder(n, f) = InOrder(n, g)
<1> DEFINE N == Len(n.kids)
<1>1. N \in Nat /\ n.leaf \in BOOLEAN
  BY NodeProps
<1>2. CASE n.leaf
  BY <1>2, InOrderIs
<1>3. CASE ~n.leaf
  <2>1. PICK u : Between(n, f, u) /\ InOrder(n, f) = u[N]
    BY <1>3, InOrderIs
  <2>2. PICK v : Between(n, g, v) /\ InOrder(n, g) = v[N]
    BY <1>3, InOrderIs
  <2> DEFINE S == {i \in Nat : i <= N => u[i] = v[i]}
  <2>3. 0 \in S
    BY <2>1, <2>2 DEF Between
  <2>4. ASSUME NEW i \in S PROVE i + 1 \in S
    <3> SUFFICES ASSUME i + 1 <= N PROVE u[i + 1] = v[i + 1]
      OBVIOUS
    <3>1. i + 1 \in 1..N /\ (i + 1) - 1 = i /\ u[i] = v[i]
      BY <1>1
    <3> DEFINE j == i + 1
               last == IF j <= Len(n.ents) THEN <<n.ents[j]>> ELSE <<>>
    <3>2. j \in 1..Len(n.kids) /\ j - 1 = i
      BY <3>1
    <3>3. u[j] = u[j - 1] \o f[n.kids[j]] \o last
      BY <3>2, <2>1 DEF Between
    <3>4. v[j] = v[j - 1] \o g[n.kids[j]] \o last
      BY <3>2, <2>2 DEF Between
    <3>5. f[n.kids[j]] = g[n.kids[j]] /\ u[j - 1] = v[j - 1]
      BY <3>1, <3>2
    <3> HIDE DEF j, last
    <3>6. u[j] = v[j]
      BY <3>3, <3>4, <3>5
    <3> QED BY <3>6 DEF j
  <2>5. S = Nat
    <3> HIDE DEF S
    <3>1. S \in SUBSET Nat
      BY DEF S
    <3> QED BY <2>3, <2>4, <3>1, NatInd
  <2>6. u[N] = v[N]
    BY <2>5, <1>1
  <2> QED BY <2>1, <2>2, <2>6
<1> QED BY <1>1, <1>2, <1>3

\* Every node, of the tree or not, stands above its children.
Above(h) == \A p \in Page : \A i \in 1..Len(Cur[p].kids) :
              Cur[p].kids[i] \in Page /\ h[Cur[p].kids[i]] < h[p]

\* In a state with a tree every page is above the pages it links.
LEMMA TreeAbove ==
  ASSUME IInv, NEW g, NEW T, NEW h, NEW R, Tree(g, T, h, R)
  PROVE  Above(h)
<1>0. CurFacts
  BY CurIs
<1> SUFFICES ASSUME NEW p \in Page, NEW i \in 1..Len(Cur[p].kids)
             PROVE  Cur[p].kids[i] \in Page /\ h[Cur[p].kids[i]] < h[p]
  BY DEF Above
<1>1. Cur[p] \in Node /\ Cur[p].kids[i] \in Page
  <2>1. Cur[p] \in Node
    BY <1>0 DEF CurFacts
  <2>2. Cur[p].kids \in Seq(Page)
    BY <2>1, NodeProps
  <2> QED BY <2>1, <2>2, ElementOfSeq
<1>2. Cur[p].kids[i] \in Linked(Cur[p])
  BY <1>1, NodeProps DEF Linked
<1>3. Ranked(h)
  BY DEF Tree
<1>4. CASE NoneDue(p)
  <2>1. Cur[p] = Load(IF p \in DOMAIN disk THEN disk[p] ELSE ZeroPage)
    BY <1>0, <1>4 DEF CurFacts, ReadPage
  <2>2. Cur[p].kids # <<>>
    <3>1. Len(Cur[p].kids) \in Nat /\ Cur[p].kids \in Seq(Page)
      BY <1>1, NodeProps
    <3>2. Len(Cur[p].kids) # 0
      BY <3>1
    <3> QED BY <3>1, <3>2, EmptySequence
  <2>3. p \in DOMAIN disk
    BY <2>1, <2>2 DEF Load, ZeroPage
  <2>4. Cur[p].kids = disk[p].kids
    BY <2>1, <2>2, <2>3 DEF Load
  <2>5. Cur[p].kids[i] \in Linked(disk[p])
    BY <1>2, <2>4 DEF Linked
  <2> QED BY <1>1, <1>3, <2>3, <2>5 DEF Ranked
<1>5. CASE ~NoneDue(p)
  <2>1. PICK j : LastDue(j) /\ writes[j].page = p
    BY <1>0, <1>5 DEF CurFacts
  <2>2. j \in DOMAIN writes /\ Cur[p] = writes[j].node
    BY <1>0, <2>1 DEF CurFacts, LastDue
  <2> QED BY <1>1, <1>2, <1>3, <2>1, <2>2 DEF Ranked
<1> QED BY <1>4, <1>5

\* The value G gives a page depends on those of its children only.
Folding(V, G) ==
  /\ V # {}
  /\ G \in [Page \X [Page -> V] -> V]
  /\ \A p \in Page, f, g \in [Page -> V] :
       (\A i \in 1..Len(Cur[p].kids) : f[Cur[p].kids[i]] = g[Cur[p].kids[i]])
         => G[<<p, f>>] = G[<<p, g>>]

\* What is defined by recursion over the children of a page is defined.
LEMMA PageFold ==
  ASSUME NEW h \in [Page -> Nat], Above(h), NEW V, NEW G, Folding(V, G)
  PROVE  \E f \in [Page -> V] : \A p \in Page : f[p] = G[<<p, f>>]
<1> DEFINE F == [f \in [Page -> V] |-> [p \in Page |-> G[<<p, f>>]]]
<1>0. /\ V # {}
      /\ G \in [Page \X [Page -> V] -> V]
      /\ \A p \in Page, f, g \in [Page -> V] :
           (\A i \in 1..Len(Cur[p].kids) : f[Cur[p].kids[i]] = g[Cur[p].kids[i]])
             => G[<<p, f>>] = G[<<p, g>>]
  BY DEF Folding
<1>1. \A f \in [Page -> V], p \in Page : F[f][p] = G[<<p, f>>]
  OBVIOUS
<1>2. F \in [[Page -> V] -> [Page -> V]]
  <2>1. \A f \in [Page -> V], p \in Page : <<p, f>> \in Page \X [Page -> V]
    OBVIOUS
  <2>2. \A f \in [Page -> V], p \in Page : G[<<p, f>>] \in V
    BY <2>1, <1>0
  <2> QED BY <2>2
<1> HIDE DEF F
<1>3. ASSUME NEW f \in [Page -> V], NEW g \in [Page -> V], NEW p \in Page,
             \A x \in Page : h[x] < h[p] => f[x] = g[x]
      PROVE  F[f][p] = F[g][p]
  <2>1. \A i \in 1..Len(Cur[p].kids) : f[Cur[p].kids[i]] = g[Cur[p].kids[i]]
    BY <1>3 DEF Above
  <2>2. G[<<p, f>>] = G[<<p, g>>]
    BY <2>1, <1>0
  <2> QED BY <2>2, <1>1
<1>4. Recurses(Page, V, h, F)
  <2>1. h \in [Page -> Nat]
    OBVIOUS
  <2> QED BY <1>0, <1>2, <1>3, <2>1 DEF Recurses
<1>5. PICK f \in [Page -> V] : f = F[f]
  BY <1>4, Recursion
<1>6. \A p \in Page : F[f][p] = G[<<p, f>>]
  BY <1>1
<1>7. \A p \in Page : f[p] = G[<<p, f>>]
  BY <1>5, <1>6, Zenon
<1> QED BY <1>7

\* A page's traversal is what its node shows of its children's traversals.
Traversal(f) == f \in [Page -> Seq(Entry)] /\ \A p \in Page : f[p] = InOrder(Cur[p], f)

\* collect_all_values ends, with the entries of each page's subtree.
LEMMA ValuesIs ==
  ASSUME NEW h \in [Page -> Nat], Above(h), Cur \in [Page -> Node], NEW r \in Page
  PROVE  \E f : Traversal(f) /\ Values(Overlay, r) = f[r]
<1> DEFINE V == Seq(Entry)
           G == [x \in Page \X [Page -> V] |-> InOrder(Cur[x[1]], x[2])]
           is(f) == f = [p \in Page |-> InOrder(ReadPage(Overlay, p), f)]
<1>0. \A p \in Page : Cur[p] \in Node /\ Cur[p] = ReadPage(Overlay, p)
  BY DEF Cur
<1>1. ASSUME NEW f, NEW p \in Page, \A i \in 1..Len(Cur[p].kids) : f[Cur[p].kids[i]] \in V
      PROVE  InOrder(Cur[p], f) \in V
  BY <1>0, <1>1, InOrderIs
<1>2. ASSUME NEW p \in Page, NEW f \in [Page -> V]
      PROVE  InOrder(Cur[p], f) \in V
  <2>1. \A i \in 1..Len(Cur[p].kids) : f[Cur[p].kids[i]] \in V
    BY DEF Above
  <2> HIDE DEF V
  <2> QED BY <2>1, <1>1
<1>3. ASSUME NEW p \in Page, NEW f \in [Page -> V], NEW g \in [Page -> V],
             \A i \in 1..Len(Cur[p].kids) : f[Cur[p].kids[i]] = g[Cur[p].kids[i]]
      PROVE  InOrder(Cur[p], f) = InOrder(Cur[p], g)
  <2>1. \A i \in 1..Len(Cur[p].kids) : f[Cur[p].kids[i]] \in Seq(Entry)
    BY DEF Above
  <2> QED BY <2>1, <1>0, <1>3, InOrderSame
<1>4. Folding(V, G)
  <2>0. V # {}
    <3>1. <<>> \in V
      OBVIOUS
    <3> QED BY <3>1
  <2>1. \A p \in Page, f \in [Page -> V] : G[<<p, f>>] = InOrder(Cur[p], f)
    OBVIOUS
  <2>2. G \in [Page \X [Page -> V] -> V]
    <3> HIDE DEF V
    <3> QED BY <1>2
  <2> HIDE DEF V, G
  <2>3. \A p \in Page, f, g \in [Page -> V] :
          (\A i \in 1..Len(Cur[p].kids) : f[Cur[p].kids[i]] = g[Cur[p].kids[i]])
            => G[<<p, f>>] = G[<<p, g>>]
    <3> TAKE p \in Page, f, g \in [Page -> V]
    <3> HAVE \A i \in 1..Len(Cur[p].kids) : f[Cur[p].kids[i]] = g[Cur[p].kids[i]]
    <3>1. InOrder(Cur[p], f) = InOrder(Cur[p], g)
      BY <1>3
    <3> QED BY <2>1, <3>1
  <2> QED BY <2>0, <2>2, <2>3 DEF Folding
<1>5. PICK f0 \in [Page -> V] : \A p \in Page : f0[p] = InOrder(Cur[p], f0)
  <2>2. \A p \in Page, f \in [Page -> V] : G[<<p, f>>] = InOrder(Cur[p], f)
    OBVIOUS
  <2> HIDE DEF V, G
  <2>3. PICK f0 \in [Page -> V] : \A p \in Page : f0[p] = G[<<p, f0>>]
    BY <1>4, PageFold
  <2> QED BY <2>2, <2>3
<1>6. is(f0)
  <2> HIDE DEF V
  <2> QED BY <1>0, <1>5
<1>7. PICK f : is(f) /\ Values(Overlay, r) = f[r]
  BY <1>6 DEF Values
<1>8. \A p \in Page : f[p] = InOrder(Cur[p], f)
  BY <1>0, <1>7
<1>9. f \in [Page -> V]
  <2> DEFINE S == {p \in Page : f[p] \in V}
  <2>1. ASSUME NEW p \in Page, \A x \in Page : h[x] < h[p] => x \in S
        PROVE  p \in S
    <3>1. \A i \in 1..Len(Cur[p].kids) : f[Cur[p].kids[i]] \in V
      BY <2>1 DEF Above
    <3> HIDE DEF V, is
    <3> QED BY <3>1, <1>1, <1>8
  <2>2. Page \subseteq S
    <3> HIDE DEF S
    <3>1. h \in [Page -> Nat]
      OBVIOUS
    <3>2. Inherited(Page, S, h)
      BY <2>1, <3>1 DEF Inherited
    <3> QED BY <3>2, RankInd
  <2>3. \A p \in Page : f[p] \in V
    BY <2>2
  <2> HIDE DEF V
  <2> QED BY <2>3, <1>7
<1> QED BY <1>7, <1>8, <1>9 DEF Traversal

\* The keys of all entries of s are in X.
Within(s, X) == \A i \in 1..Len(s) : s[i].key \in X

\* Two sequences in a row.
LEMMA Concat ==
  ASSUME NEW s \in Seq(Entry), NEW t \in Seq(Entry)
  PROVE  /\ s \o t \in Seq(Entry) /\ Len(s \o t) = Len(s) + Len(t)
         /\ Len(s) \in Nat /\ Len(t) \in Nat
         /\ \A i \in 1..Len(s \o t) :
              \/ i \in 1..Len(s) /\ (s \o t)[i] = s[i]
              \/ i - Len(s) \in 1..Len(t) /\ (s \o t)[i] = t[i - Len(s)]
OBVIOUS

\* Two sequences in a row, with keys of X each.
LEMMA ConcatWithin ==
  ASSUME NEW s \in Seq(Entry), NEW t \in Seq(Entry), NEW X, Within(s, X), Within(t, X)
  PROVE  Within(s \o t, X)
BY Concat DEF Within

\* Two sequences in a row ascend when each does and the first ends before the
\* second begins.
LEMMA ConcatAscends ==
  ASSUME NEW g, NEW s \in Seq(Entry), NEW t \in Seq(Entry), Ascending(g, s), Ascending(g, t),
         \A i \in 1..Len(s), j \in 1..Len(t) : s[i].key + g <= t[j].key
  PROVE  Ascending(g, s \o t)
<1> SUFFICES ASSUME NEW i \in 1..Len(s \o t), NEW j \in 1..Len(s \o t), i < j
             PROVE  (s \o t)[i].key + g <= (s \o t)[j].key
  BY DEF Ascending
<1>1. /\ Len(s) \in Nat /\ Len(t) \in Nat
      /\ \/ i \in 1..Len(s) /\ (s \o t)[i] = s[i]
         \/ i - Len(s) \in 1..Len(t) /\ (s \o t)[i] = t[i - Len(s)]
      /\ \/ j \in 1..Len(s) /\ (s \o t)[j] = s[j]
         \/ j - Len(s) \in 1..Len(t) /\ (s \o t)[j] = t[j - Len(s)]
  BY Concat
<1> DEFINE a == i - Len(s)
           b == j - Len(s)
<1>2. i \in 1..Len(s) \/ j \notin 1..Len(s)
  BY <1>1
<1>3. i \in Int /\ j \in Int /\ a < b
  BY <1>1
<1> HIDE DEF a, b
<1>4. CASE i \in 1..Len(s) /\ (s \o t)[i] = s[i] /\ j \in 1..Len(s) /\ (s \o t)[j] = s[j]
  BY <1>4 DEF Ascending
<1>5. CASE i \in 1..Len(s) /\ (s \o t)[i] = s[i] /\ b \in 1..Len(t) /\ (s \o t)[j] = t[b]
  BY <1>5
<1>6. CASE a \in 1..Len(t) /\ (s \o t)[i] = t[a] /\ b \in 1..Len(t) /\ (s \o t)[j] = t[b]
  BY <1>3, <1>6 DEF Ascending
<1>7. CASE a \in 1..Len(t) /\ j \in 1..Len(s)
  <2>1. i > Len(s) /\ j <= Len(s)
    BY <1>1, <1>3, <1>7 DEF a
  <2> QED BY <2>1, <1>1, <1>3
<1> QED BY <1>1, <1>4, <1>5, <1>6, <1>7 DEF a, b

\* The keys below the i-th child lie between those of the entries beside it.
LEMMA SpanIs ==
  ASSUME NEW g, NEW X, NEW s, NEW i, NEW t, Within(t, Span(g, X, s, i))
  PROVE  /\ Within(t, X)
         /\ \A j \in 1..Len(t) : /\ i > 1 => s[i - 1].key + g <= t[j].key
                                 /\ i <= Len(s) => t[j].key + g <= s[i].key
BY DEF Within, Span

\* The keys of n and those its children show are in order, each within its span.
Spanned(g, n, X, shown) ==
  /\ Ascending(g, n.ents) /\ Within(n.ents, X)
  /\ \A i \in 1..Len(n.kids) :
       /\ shown[n.kids[i]] \in Seq(Entry)
       /\ Ascending(g, shown[n.kids[i]])
       /\ Within(shown[n.kids[i]], Span(g, X, n.ents, i))

\* A node whose children show their keys in order, each within its span, shows
\* its own in order.
LEMMA InOrderAscends ==
  ASSUME NEW g \in Nat, NEW n \in Node, Sound(n), NEW X, NEW shown, Spanned(g, n, X, shown)
  PROVE  Ascending(g, InOrder(n, shown)) /\ Within(InOrder(n, shown), X)
<1> DEFINE N == Len(n.kids)
           M == Len(n.ents)
<1>1. /\ N \in Nat /\ M \in Nat /\ n.leaf \in BOOLEAN
      /\ \A i \in 1..M : n.ents[i] \in Entry /\ n.ents[i].key \in Int
  BY NodeProps, EntryKeys
<1>2. /\ Ascending(g, n.ents) /\ Within(n.ents, X)
      /\ \A i \in 1..N : /\ shown[n.kids[i]] \in Seq(Entry)
                         /\ Ascending(g, shown[n.kids[i]])
                         /\ Within(shown[n.kids[i]], Span(g, X, n.ents, i))
  BY DEF Spanned
<1>3. CASE n.leaf
  <2>1. InOrder(n, shown) = n.ents
    BY <1>2, <1>3, InOrderIs
  <2> QED BY <2>1, <1>2
<1>4. CASE ~n.leaf
  <2>1. PICK u \in [0..N -> Seq(Entry)] : Between(n, shown, u) /\ InOrder(n, shown) = u[N]
    BY <1>2, <1>4, InOrderIs
  <2>2. N = M + 1
    BY <1>4 DEF Sound
  <2> DEFINE Done(i) == /\ Ascending(g, u[i]) /\ Within(u[i], X)
                        /\ i \in 1..M => \A j \in 1..Len(u[i]) : u[i][j].key <= n.ents[i].key
             S == {i \in Nat : i <= N => Done(i)}
  <2>3. 0 \in S
    <3>1. u[0] = <<>>
      BY <2>1 DEF Between
    <3>2. Len(u[0]) = 0
      BY <3>1
    <3>3. Ascending(g, u[0]) /\ Within(u[0], X) /\ 0 \notin 1..M
      BY <3>2, <1>1 DEF Ascending, Within
    <3> QED BY <3>3
  <2>4. ASSUME NEW i \in S PROVE i + 1 \in S
    <3> DEFINE s == u[i]
               t == shown[n.kids[i + 1]]
               e == n.ents[i + 1]
    <3> SUFFICES ASSUME i + 1 <= N PROVE Done(i + 1)
      OBVIOUS
    <3>1. /\ i \in Nat /\ i + 1 \in 1..N /\ (i + 1) - 1 = i /\ i \in 0..N
          /\ i <= M /\ (i # 0 => i \in 1..M /\ i + 1 > 1)
          /\ i + 1 <= M => i + 1 \in 1..M
      BY <1>1, <2>2
    <3>2. Done(i)
      BY <3>1
    <3>3. u[i + 1] = s \o t \o IF i + 1 <= M THEN <<e>> ELSE <<>>
      BY <3>1, <2>1 DEF Between
    <3>4. s \in Seq(Entry) /\ t \in Seq(Entry) /\ Ascending(g, t)
      BY <3>1, <2>1, <1>2
    <3>5. /\ Within(t, X)
          /\ \A j \in 1..Len(t) : /\ i # 0 => n.ents[i].key + g <= t[j].key
                                  /\ i + 1 <= M => t[j].key + g <= e.key
      <4>1. Within(t, Span(g, X, n.ents, i + 1))
        BY <3>1, <1>2
      <4>2. /\ Within(t, X)
            /\ \A j \in 1..Len(t) : /\ i + 1 > 1 => n.ents[(i + 1) - 1].key + g <= t[j].key
                                    /\ i + 1 <= M => t[j].key + g <= e.key
        <5> HIDE DEF t
        <5> QED BY <4>1, SpanIs
      <4> QED BY <4>2, <3>1
    <3>6. i = 0 => Len(s) = 0
      BY <2>1 DEF Between
    <3>7. i # 0 => \A j \in 1..Len(s) : s[j].key <= n.ents[i].key
      BY <3>1, <3>2
    <3>8. Ascending(g, s) /\ Within(s, X)
      BY <3>2
    <3>9. i # 0 /\ i + 1 <= M => n.ents[i].key + g <= e.key
      BY <3>1, <1>2 DEF Ascending
    <3>10. i # 0 => n.ents[i].key \in Int
      BY <3>1, <1>1
    <3>11. i + 1 <= M => e \in Entry /\ e.key \in Int /\ e.key \in X
      BY <3>1, <1>1, <1>2 DEF Within
    <3>12. /\ \A j \in 1..Len(s) : s[j].key \in Int
           /\ \A j \in 1..Len(t) : t[j].key \in Int
      <4>1. \A x \in Entry : x.key \in Int
        BY KeyAssumption DEF Entry
      <4> HIDE DEF s, t
      <4> QED BY <4>1, <3>4, ElementOfSeq
    <3> DEFINE st == s \o t
    <3> HIDE DEF s, t, e
    <3>13. \A j \in 1..Len(s), k \in 1..Len(t) : s[j].key + g <= t[k].key
      <4>1. CASE i = 0
        BY <4>1, <3>6
      <4>2. CASE i # 0
        <5>1. \A a, b, c \in Int : a <= b /\ b + g <= c => a + g <= c
          OBVIOUS
        <5> QED BY <4>2, <5>1, <3>5, <3>7, <3>10, <3>12
      <4> QED BY <4>1, <4>2
    <3>14. Ascending(g, st) /\ Within(st, X) /\ st \in Seq(Entry)
      BY <3>4, <3>5, <3>8, <3>13, ConcatAscends, ConcatWithin, Concat
    <3>15. CASE i + 1 <= M
      <4>1. u[i + 1] = st \o <<e>>
        BY <3>3, <3>15
      <4>2. \A j \in 1..Len(s) : s[j].key + g <= e.key
        <5>1. CASE i = 0
          BY <5>1, <3>6
        <5>2. CASE i # 0
          <6>1. \A a, b, c \in Int : a <= b /\ b + g <= c => a + g <= c
            OBVIOUS
          <6> QED BY <5>2, <6>1, <3>15, <3>7, <3>9, <3>10, <3>11, <3>12
        <5> QED BY <5>1, <5>2
      <4>3. \A j \in 1..Len(st) : st[j].key + g <= e.key /\ st[j].key \in Int
        BY <4>2, <3>4, <3>5, <3>12, <3>15, Concat
      <4> DEFINE one == <<e>>
      <4>4. /\ one \in Seq(Entry) /\ Len(one) = 1 /\ one[1] = e
            /\ Ascending(g, one) /\ Within(one, X)
        BY <3>11, <3>15 DEF Ascending, Within
      <4> HIDE DEF st, one
      <4>5. \A j \in 1..Len(st), k \in 1..Len(one) : st[j].key + g <= one[k].key
        BY <4>3, <4>4
      <4>6. Ascending(g, st \o one) /\ Within(st \o one, X)
        BY <4>4, <4>5, <3>14, ConcatAscends, ConcatWithin
      <4>7. \A j \in 1..Len(st \o one) : (st \o one)[j].key <= e.key
        <5>1. \A a, b \in Int : a + g <= b => a <= b
          OBVIOUS
        <5>2. \A j \in 1..Len(st) : st[j].key <= e.key
          BY <5>1, <4>3, <3>11, <3>15
        <5>3. \A j \in 1..Len(one) : one[j].key <= e.key
          BY <4>4, <3>11, <3>15
        <5> QED BY <5>2, <5>3, <4>4, <3>14, Concat
      <4>8. u[i + 1] = st \o one
        BY <4>1 DEF one
      <4> QED BY <4>6, <4>7, <4>8 DEF e
    <3>16. CASE ~(i + 1 <= M)
      <4>1. u[i + 1] = st
        <5>1. u[i + 1] = st \o <<>>
          BY <3>3, <3>16
        <5> HIDE DEF st
        <5> QED BY <5>1, <3>14
      <4> QED BY <4>1, <3>14, <3>16
    <3> QED BY <3>15, <3>16
  <2>5. S = Nat
    <3> HIDE DEF S
    <3>1. S \in SUBSET Nat
      BY DEF S
    <3> QED BY <2>3, <2>4, <3>1, NatInd
  <2>6. Done(N)
    <3>1. N \in S
      BY <2>5, <1>1
    <3> HIDE DEF Done, N
    <3> QED BY <3>1, <1>1
  <2> QED BY <2>1, <2>6
<1> QED BY <1>1, <1>3, <1>4

\* A reader sees the keys of the tree in order.
LEMMA ValuesAscend ==
  ASSUME IInv, NEW g \in Nat, NEW T, NEW h, NEW R, Tree(g, T, h, R)
  PROVE  /\ Values(Overlay, root_page_id) \in Seq(Entry)
         /\ Ascending(g, Values(Overlay, root_page_id))
<1>1. /\ T \in SUBSET Page /\ h \in [Page -> Nat] /\ Shape(Cur, root_page_id, T, h)
      /\ Keyed(g, Cur, root_page_id, T, R) /\ root_page_id \in T
  BY TreeTyped DEF Shape
<1>2. Above(h) /\ Cur \in [Page -> Node]
  BY TreeAbove, CurIs DEF CurFacts
<1>3. PICK f : Traversal(f) /\ Values(Overlay, root_page_id) = f[root_page_id]
  BY <1>1, <1>2, ValuesIs
<1>4. f \in [Page -> Seq(Entry)] /\ \A p \in Page : f[p] = InOrder(Cur[p], f)
  BY <1>3 DEF Traversal
<1> DEFINE S == {p \in Page : p \in T => Ascending(g, f[p]) /\ Within(f[p], R[p])}
<1>5. ASSUME NEW p \in Page, \A x \in Page : h[x] < h[p] => x \in S
      PROVE  p \in S
  <2> SUFFICES ASSUME p \in T PROVE Ascending(g, f[p]) /\ Within(f[p], R[p])
    OBVIOUS
  <2>1. /\ Cur[p] \in Node /\ Sound(Cur[p])
        /\ Ascending(g, Cur[p].ents) /\ Within(Cur[p].ents, R[p])
    BY <1>1, <1>2 DEF Shape, Keyed, Within
  <2>2. ASSUME NEW i \in 1..Len(Cur[p].kids)
        PROVE  LET x == Cur[p].kids[i]
               IN  /\ f[x] \in Seq(Entry) /\ Ascending(g, f[x])
                   /\ Within(f[x], Span(g, R[p], Cur[p].ents, i))
    <3>1. PICK x : x = Cur[p].kids[i]
      OBVIOUS
    <3>2. Kid(Cur, p, i, x)
      BY <3>1 DEF Kid
    <3>3. x \in T /\ x \in Page /\ h[x] < h[p]
      BY <3>1, <3>2, <1>1, <1>2, KidOf DEF Above
    <3>4. R[x] = Span(g, R[p], Cur[p].ents, i)
      BY <3>2, <1>1 DEF Keyed
    <3>5. Ascending(g, f[x]) /\ Within(f[x], R[x])
      BY <3>3, <1>5
    <3>6. f[x] \in Seq(Entry)
      BY <3>3, <1>4
    <3> QED BY <3>1, <3>4, <3>5, <3>6
  <2>3. Spanned(g, Cur[p], R[p], f)
    BY <2>1, <2>2 DEF Spanned
  <2>4. Ascending(g, InOrder(Cur[p], f)) /\ Within(InOrder(Cur[p], f), R[p])
    BY <2>1, <2>3, InOrderAscends
  <2> QED BY <2>4, <1>4
<1>6. Page \subseteq S
  <2> HIDE DEF S
  <2>1. Inherited(Page, S, h)
    BY <1>1, <1>5 DEF Inherited
  <2> QED BY <2>1, RankInd
<1> QED BY <1>1, <1>3, <1>4, <1>6

\* Readers see the entries in key order, whatever was inserted or updated.
THEOREM OrderedAlways == Spec => []Ordered
<1>1. IInv /\ TreeInv(0) => Ordered
  <2> SUFFICES ASSUME IInv, TreeInv(0) PROVE Ordered
    OBVIOUS
  <2>1. PICK T, h, R : Tree(0, T, h, R)
    BY DEF TreeInv
  <2> DEFINE vs == Values(Overlay, root_page_id)
  <2>2. vs \in Seq(Entry) /\ Ascending(0, vs)
    BY <2>1, ValuesAscend
  <2>3. \A i \in 1..Len(vs) : vs[i].key \in Int
    <3>1. \A x \in Entry : x.key \in Int
      BY KeyAssumption DEF Entry
    <3> HIDE DEF vs
    <3> QED BY <3>1, <2>2, ElementOfSeq
  <2>4. ASSUME NEW i \in 1..Len(vs), NEW j \in 1..Len(vs), i < j
        PROVE  vs[i].key <= vs[j].key
    <3>1. vs[i].key + 0 <= vs[j].key /\ vs[i].key \in Int
      BY <2>2, <2>3, <2>4 DEF Ascending
    <3> HIDE DEF vs
    <3> QED BY <3>1
  <2> QED BY <2>4 DEF Ordered, IsSorted
<1> QED BY <1>1, Invariant, TreeInvariant, PTL

\* What is joined piece by piece.
Pieces(N, s0, piece) == N \in Nat /\ s0 \in Seq(Entry) /\ piece \in [1..N -> Seq(Entry)]

\* u is how far the joining of the pieces to s0 has come after each of them.
Joined(N, s0, piece, u) ==
  u = [i \in 0..N |-> IF i = 0 THEN s0 ELSE u[i - 1] \o piece[i]]

\* Pieces that join to nothing are nothing.
LEMMA JoinedIs ==
  ASSUME NEW N, NEW s0, NEW piece, Pieces(N, s0, piece), NEW u, Joined(N, s0, piece, u)
  PROVE  /\ u[N] \in Seq(Entry)
         /\ u[N] = <<>> => s0 = <<>> /\ \A i \in 1..N : piece[i] = <<>>
<1>0. N \in Nat /\ s0 \in Seq(Entry) /\ piece \in [1..N -> Seq(Entry)]
  BY DEF Pieces
<1>a. u[0] = s0 /\ \A i \in 1..N : u[i] = u[i - 1] \o piece[i]
  <2>1. 0 \in 0..N /\ \A i \in 1..N : i \in 0..N /\ i # 0
    BY <1>0
  <2> QED BY <2>1 DEF Joined
<1> DEFINE Done(i) == /\ u[i] \in Seq(Entry)
                      /\ u[i] = <<>> => s0 = <<>> /\ \A j \in 1..i : piece[j] = <<>>
           S == {i \in Nat : i <= N => Done(i)}
<1>1. 0 \in S
  <2>1. u[0] = s0
    BY <1>a
  <2>2. u[0] \in Seq(Entry) /\ \A j \in 1..0 : piece[j] = <<>>
    BY <2>1, <1>0
  <2> QED BY <2>1, <2>2
<1>2. ASSUME NEW i \in S PROVE i + 1 \in S
  <2> SUFFICES ASSUME i + 1 <= N PROVE Done(i + 1)
    OBVIOUS
  <2>1. i \in Nat /\ i + 1 \in 1..N /\ (i + 1) - 1 = i /\ i <= N
    BY <1>0
  <2>2. u[i + 1] = u[i] \o piece[i + 1] /\ piece[i + 1] \in Seq(Entry)
    BY <2>1, <1>0, <1>a
  <2>3. Done(i)
    BY <2>1
  <2> DEFINE s == u[i]
             t == piece[i + 1]
  <2> HIDE DEF s, t
  <2>4. s \in Seq(Entry) /\ t \in Seq(Entry) /\ u[i + 1] = s \o t
    BY <2>2, <2>3 DEF s, t
  <2>5. s \o t \in Seq(Entry) /\ Len(s \o t) = Len(s) + Len(t) /\ Len(s) \in Nat /\ Len(t) \in Nat
    BY <2>4, Concat
  <2>6. s \o t = <<>> => s = <<>> /\ t = <<>>
    <3>1. s \o t = <<>> => Len(s \o t) = 0
      OBVIOUS
    <3>2. s \o t = <<>> => Len(s) = 0 /\ Len(t) = 0
      BY <3>1, <2>5
    <3> QED BY <3>2, <2>4, EmptySequence
  <2>7. \A j \in 1..i + 1 : j \in 1..i \/ j = i + 1
    BY <2>1
  <2> QED BY <2>3, <2>4, <2>5, <2>6, <2>7 DEF s, t
<1>3. S = Nat
  <2> HIDE DEF S
  <2>1. S \in SUBSET Nat
    BY DEF S
  <2> QED BY <1>1, <1>2, <2>1, NatInd
<1>4. Done(N)
  BY <1>0, <1>3
<1> QED BY <1>4

\* What is joined piece by piece exists,
LEMMA JoinedExists ==
  ASSUME NEW N, NEW s0, NEW piece, Pieces(N, s0, piece)
  PROVE  \E u : Joined(N, s0, piece, u)
<1>0. N \in Nat /\ s0 \in Seq(Entry) /\ piece \in [1..N -> Seq(Entry)]
  BY DEF Pieces
<1> DEFINE V == Seq(Entry)
           G == [x \in (1..N) \X V |-> x[2] \o piece[x[1]]]
<1>1. G \in [(1..N) \X V -> V]
  <2> SUFFICES ASSUME NEW x \in (1..N) \X V PROVE x[2] \o piece[x[1]] \in V
    OBVIOUS
  <2>1. x[2] \in Seq(Entry) /\ piece[x[1]] \in Seq(Entry)
    BY <1>0
  <2> QED BY <2>1
<1>2. \A i \in 1..N, s \in V : G[<<i, s>>] = s \o piece[i]
  OBVIOUS
<1>3. \A i \in 1..N : i - 1 \in 0..N
  BY <1>0
<1> HIDE DEF V, G
<1>4. Stepwise(N, V, s0, G)
  BY <1>0, <1>1 DEF Stepwise, V
<1>5. PICK u \in [0..N -> V] : Stepped(N, s0, G, u)
  BY <1>4, Steps
<1>6. ASSUME NEW i \in 1..N PROVE u[i] = u[i - 1] \o piece[i]
  <2>1. u[i] = G[<<i, u[i - 1]>>]
    BY <1>5 DEF Stepped
  <2>2. u[i - 1] \in V
    BY <1>3, <1>5
  <2> QED BY <2>1, <2>2, <1>2
<1>7. \A i \in 0..N : i # 0 => i \in 1..N
  BY <1>0
<1>8. u[0] = s0
  BY <1>5 DEF Stepped
<1>9. Joined(N, s0, piece, u)
  BY <1>5, <1>6, <1>7, <1>8 DEF Joined
<1> QED BY <1>9

\* and is one sequence only.
LEMMA JoinedSame ==
  ASSUME NEW N \in Nat, NEW s0, NEW piece, NEW u, NEW v,
         Joined(N, s0, piece, u), Joined(N, s0, piece, v)
  PROVE  u[N] = v[N]
<1>1. /\ u[0] = s0 /\ \A i \in 1..N : u[i] = u[i - 1] \o piece[i]
      /\ v[0] = s0 /\ \A i \in 1..N : v[i] = v[i - 1] \o piece[i]
  <2>1. 0 \in 0..N /\ \A i \in 1..N : i \in 0..N /\ i # 0
    OBVIOUS
  <2> QED BY <2>1 DEF Joined
<1> DEFINE S == {i \in Nat : i <= N => u[i] = v[i]}
<1>2. 0 \in S
  BY <1>1
<1>3. ASSUME NEW i \in S PROVE i + 1 \in S
  <2> SUFFICES ASSUME i + 1 <= N PROVE u[i + 1] = v[i + 1]
    OBVIOUS
  <2>1. i + 1 \in 1..N /\ (i + 1) - 1 = i /\ u[i] = v[i]
    OBVIOUS
  <2> QED BY <2>1, <1>1
<1>4. S = Nat
  <2> HIDE DEF S
  <2>1. S \in SUBSET Nat
    BY DEF S
  <2> QED BY <1>2, <1>3, <2>1, NatInd
<1> QED BY <1>4

\* What search_node finds in a node itself, and what its children found.
OwnHits(n, k) ==
  LET here[i \in 0..Len(n.ents)] ==
        IF i = 0 THEN <<>>
        ELSE here[i - 1] \o IF n.ents[i].key = k THEN <<n.ents[i]>> ELSE <<>>
  IN here[Len(n.ents)]

\* What was found in each child of n.
KidHits(n, found) == [i \in 1..Len(n.kids) |-> found[n.kids[i]]]

\* The loop of search_node over a node's own entries finds every one with the
\* key.
LEMMA OwnHitsIs ==
  ASSUME NEW n \in Node, NEW k
  PROVE  /\ OwnHits(n, k) \in Seq(Entry)
         /\ OwnHits(n, k) = <<>> => \A i \in 1..Len(n.ents) : n.ents[i].key # k
<1> DEFINE M == Len(n.ents)
           own(i) == IF n.ents[i].key = k THEN <<n.ents[i]>> ELSE <<>>
           isHere(u) == u = [i \in 0..M |-> IF i = 0 THEN <<>> ELSE u[i - 1] \o own(i)]
           ones == [i \in 1..M |-> own(i)]
           none == <<>>
<1>1. M \in Nat /\ \A i \in 1..M : n.ents[i] \in Entry
  BY EntryKeys
<1>2. Pieces(M, none, ones)
  <2>1. ones \in [1..M -> Seq(Entry)]
    <3> SUFFICES ASSUME NEW i \in 1..M PROVE own(i) \in Seq(Entry)
      OBVIOUS
    <3>1. n.ents[i] \in Entry
      BY <1>1
    <3> QED BY <3>1
  <2>2. none \in Seq(Entry)
    OBVIOUS
  <2> HIDE DEF ones, none
  <2> QED BY <2>1, <2>2, <1>1 DEF Pieces
<1>3. \A i \in 0..M : i # 0 => ones[i] = own(i)
  BY <1>1
<1>4. PICK u0 : isHere(u0)
  <2>1. PICK u : Joined(M, none, ones, u)
    <3> HIDE DEF M, none, ones
    <3> QED BY <1>2, JoinedExists
  <2>2. u = [i \in 0..M |-> IF i = 0 THEN none ELSE u[i - 1] \o ones[i]]
    <3> HIDE DEF M, none, ones
    <3> QED BY <2>1 DEF Joined
  <2>3. isHere(u)
    <3> HIDE DEF M, ones, own
    <3> QED BY <2>2, <1>3
  <2> QED BY <2>3
<1>5. PICK u : isHere(u) /\ OwnHits(n, k) = u[M]
  BY <1>4 DEF OwnHits
<1>6. Joined(M, none, ones, u)
  <2> HIDE DEF M, ones, own
  <2>1. u = [i \in 0..M |-> IF i = 0 THEN none ELSE u[i - 1] \o ones[i]]
    BY <1>3, <1>5
  <2> HIDE DEF none
  <2> QED BY <2>1 DEF Joined
<1>7. u[M] \in Seq(Entry) /\ (u[M] = <<>> => \A i \in 1..M : ones[i] = <<>>)
  <2> HIDE DEF M, none, ones
  <2> QED BY <1>2, <1>6, JoinedIs
<1>8. ASSUME NEW i \in 1..M, ones[i] = <<>> PROVE n.ents[i].key # k
  <2>1. ones[i] = own(i)
    OBVIOUS
  <2>2. <<n.ents[i]>> # <<>>
    OBVIOUS
  <2> QED BY <2>1, <2>2, <1>8
<1> HIDE DEF ones, own
<1> QED BY <1>5, <1>7, <1>8

\* What search_node returns for a node, joined of its own and its children's
\* finds.
LEMMA HitsIs ==
  ASSUME NEW n \in Node, Sound(n), NEW k, NEW found,
         \A i \in 1..Len(n.kids) : found[n.kids[i]] \in Seq(Entry)
  PROVE  /\ Pieces(Len(n.kids), OwnHits(n, k), KidHits(n, found))
         /\ \E b : /\ Joined(Len(n.kids), OwnHits(n, k), KidHits(n, found), b)
                   /\ Hits(n, k, found) = b[Len(n.kids)]
<1> DEFINE N == Len(n.kids)
           o == OwnHits(n, k)
           isBelow(b) == b = [i \in 0..N |-> IF i = 0 THEN o ELSE b[i - 1] \o found[n.kids[i]]]
           kids == KidHits(n, found)
<1>1. N \in Nat /\ n.leaf \in BOOLEAN /\ (n.leaf => N = 0)
  BY NodeProps DEF Sound
<1>2. \A i \in 0..N : i # 0 => kids[i] = found[n.kids[i]]
  BY <1>1 DEF KidHits
<1>3. Pieces(N, o, kids)
  <2>1. kids \in [1..N -> Seq(Entry)]
    BY DEF KidHits
  <2>2. o \in Seq(Entry)
    BY OwnHitsIs
  <2> HIDE DEF kids, N, o
  <2> QED BY <2>1, <2>2, <1>1 DEF Pieces
<1>4. PICK b0 : isBelow(b0)
  <2> HIDE DEF N, o, kids
  <2>1. PICK u : Joined(N, o, kids, u)
    BY <1>3, JoinedExists
  <2>2. u = [i \in 0..N |-> IF i = 0 THEN o ELSE u[i - 1] \o kids[i]]
    BY <2>1 DEF Joined
  <2>3. isBelow(u)
    BY <2>2, <1>2
  <2> QED BY <2>3
<1>5. PICK b : isBelow(b) /\ Hits(n, k, found) = b[IF n.leaf THEN 0 ELSE N]
  BY <1>4 DEF Hits, OwnHits
<1>6. Joined(N, o, kids, b)
  <2> HIDE DEF N, o, kids
  <2>1. b = [i \in 0..N |-> IF i = 0 THEN o ELSE b[i - 1] \o kids[i]]
    BY <1>2, <1>5
  <2> QED BY <2>1 DEF Joined
<1>7. Hits(n, k, found) = b[N]
  BY <1>1, <1>5
<1> QED BY <1>3, <1>6, <1>7

\* search_node finds nothing only where the key is in no entry of the node and
\* nothing is found in its children.
LEMMA HitsNone ==
  ASSUME NEW n \in Node, Sound(n), NEW k, NEW found,
         \A i \in 1..Len(n.kids) : found[n.kids[i]] \in Seq(Entry)
  PROVE  /\ Hits(n, k, found) \in Seq(Entry)
         /\ Hits(n, k, found) = <<>> =>
              /\ \A i \in 1..Len(n.ents) : n.ents[i].key # k
              /\ \A i \in 1..Len(n.kids) : found[n.kids[i]] = <<>>
<1>1. PICK b : /\ Joined(Len(n.kids), OwnHits(n, k), KidHits(n, found), b)
               /\ Hits(n, k, found) = b[Len(n.kids)]
  BY HitsIs
<1>2. Pieces(Len(n.kids), OwnHits(n, k), KidHits(n, found))
  BY HitsIs
<1>3. /\ Hits(n, k, found) \in Seq(Entry)
      /\ Hits(n, k, found) = <<>> =>
           OwnHits(n, k) = <<>> /\ \A i \in 1..Len(n.kids) : KidHits(n, found)[i] = <<>>
  BY <1>1, <1>2, JoinedIs
<1>4. \A i \in 1..Len(n.kids) : KidHits(n, found)[i] = found[n.kids[i]]
  BY DEF KidHits
<1> QED BY <1>3, <1>4, OwnHitsIs

\* What search_node finds in a node depends on what its children found only.
LEMMA HitsSame ==
  ASSUME NEW n \in Node, Sound(n), NEW k, NEW f, NEW g,
         \A i \in 1..Len(n.kids) : f[n.kids[i]] \in Seq(Entry) /\ f[n.kids[i]] = g[n.kids[i]]
  PROVE  Hits(n, k, f) = Hits(n, k, g)
<1>1. KidHits(n, f) = KidHits(n, g)
  BY DEF KidHits
<1>2. PICK u : /\ Joined(Len(n.kids), OwnHits(n, k), KidHits(n, f), u)
               /\ Hits(n, k, f) = u[Len(n.kids)]
  BY HitsIs
<1>3. PICK v : /\ Joined(Len(n.kids), OwnHits(n, k), KidHits(n, f), v)
               /\ Hits(n, k, g) = v[Len(n.kids)]
  BY <1>1, HitsIs
<1>4. Len(n.kids) \in Nat
  BY NodeProps
<1>5. u[Len(n.kids)] = v[Len(n.kids)]
  BY <1>2, <1>3, <1>4, JoinedSame
<1> QED BY <1>2, <1>3, <1>5

\* What search finds from a page on.
Searched(k, f) == f \in [Page -> Seq(Entry)] /\ \A p \in Page : f[p] = Hits(Cur[p], k, f)

\* search ends, with the finds of each page's subtree.
LEMMA SearchIs ==
  ASSUME NEW h \in [Page -> Nat], Above(h), CurFacts, writes = <<>>, NEW r \in Page, NEW k
  PROVE  \E f : Searched(k, f) /\ Search(disk, r, k) = f[r]
<1> DEFINE V == Seq(Entry)
           G == [x \in Page \X [Page -> V] |-> Hits(Cur[x[1]], k, x[2])]
           is(f) == f = [p \in Page |-> Hits(ReadPage(disk, p), k, f)]
<1>0. \A p \in Page : Cur[p] \in Node /\ Sound(Cur[p]) /\ Cur[p] = ReadPage(disk, p)
  <2>1. \A p \in Page : NoneDue(p)
    BY DEF NoneDue
  <2> QED BY <2>1 DEF CurFacts
<1>1. ASSUME NEW f, NEW p \in Page, \A i \in 1..Len(Cur[p].kids) : f[Cur[p].kids[i]] \in V
      PROVE  Hits(Cur[p], k, f) \in V
  BY <1>0, <1>1, HitsNone
<1>2. ASSUME NEW p \in Page, NEW f \in [Page -> V]
      PROVE  Hits(Cur[p], k, f) \in V
  <2>1. \A i \in 1..Len(Cur[p].kids) : f[Cur[p].kids[i]] \in V
    BY DEF Above
  <2> HIDE DEF V
  <2> QED BY <2>1, <1>1
<1>3. ASSUME NEW p \in Page, NEW f \in [Page -> V], NEW g \in [Page -> V],
             \A i \in 1..Len(Cur[p].kids) : f[Cur[p].kids[i]] = g[Cur[p].kids[i]]
      PROVE  Hits(Cur[p], k, f) = Hits(Cur[p], k, g)
  <2>1. \A i \in 1..Len(Cur[p].kids) : f[Cur[p].kids[i]] \in Seq(Entry)
    BY DEF Above
  <2>2. Cur[p] \in Node /\ Sound(Cur[p])
    BY <1>0
  <2>3. \A i \in 1..Len(Cur[p].kids) :
          f[Cur[p].kids[i]] \in Seq(Entry) /\ f[Cur[p].kids[i]] = g[Cur[p].kids[i]]
    BY <2>1, <1>3
  <2> QED BY <2>2, <2>3, HitsSame
<1>4. \A p \in Page, f \in [Page -> V] : G[<<p, f>>] = Hits(Cur[p], k, f)
  OBVIOUS
<1>5. Folding(V, G)
  <2>0. V # {}
    <3>1. <<>> \in V
      OBVIOUS
    <3> QED BY <3>1
  <2>1. G \in [Page \X [Page -> V] -> V]
    <3> HIDE DEF V
    <3> QED BY <1>2
  <2> HIDE DEF V, G
  <2>2. \A p \in Page, f, g \in [Page -> V] :
          (\A i \in 1..Len(Cur[p].kids) : f[Cur[p].kids[i]] = g[Cur[p].kids[i]])
            => G[<<p, f>>] = G[<<p, g>>]
    <3> TAKE p \in Page, f, g \in [Page -> V]
    <3> HAVE \A i \in 1..Len(Cur[p].kids) : f[Cur[p].kids[i]] = g[Cur[p].kids[i]]
    <3>1. Hits(Cur[p], k, f) = Hits(Cur[p], k, g)
      BY <1>3
    <3> QED BY <1>4, <3>1
  <2> QED BY <2>0, <2>1, <2>2 DEF Folding
<1>6. PICK f0 \in [Page -> V] : \A p \in Page : f0[p] = Hits(Cur[p], k, f0)
  <2> HIDE DEF V, G
  <2>1. PICK f0 \in [Page -> V] : \A p \in Page : f0[p] = G[<<p, f0>>]
    BY <1>5, PageFold
  <2> QED BY <1>4, <2>1
<1>7. is(f0)
  <2> HIDE DEF V
  <2> QED BY <1>0, <1>6
<1>8. PICK f : is(f) /\ Search(disk, r, k) = f[r]
  BY <1>7 DEF Search
<1>9. \A p \in Page : f[p] = Hits(Cur[p], k, f)
  BY <1>0, <1>8
<1>10. f \in [Page -> V]
  <2> DEFINE S == {p \in Page : f[p] \in V}
  <2>1. ASSUME NEW p \in Page, \A x \in Page : h[x] < h[p] => x \in S
        PROVE  p \in S
    <3>1. \A i \in 1..Len(Cur[p].kids) : f[Cur[p].kids[i]] \in V
      BY <2>1 DEF Above
    <3> HIDE DEF V, is
    <3> QED BY <3>1, <1>1, <1>9
  <2>2. Page \subseteq S
    <3> HIDE DEF S
    <3>1. h \in [Page -> Nat]
      OBVIOUS
    <3>2. Inherited(Page, S, h)
      BY <2>1, <3>1 DEF Inherited
    <3> QED BY <3>2, RankInd
  <2>3. \A p \in Page : f[p] \in V
    BY <2>2
  <2> HIDE DEF V
  <2> QED BY <2>3, <1>8
<1> QED BY <1>8, <1>9, <1>10 DEF Searched

\* What holds at the root, and at the children of every page where it holds,
\* holds in the whole tree.
LEMMA FromRoot ==
  ASSUME NEW c \in [Page -> Node], NEW r, NEW T \in SUBSET Page, NEW h \in [Page -> Nat],
         Shape(c, r, T, h), NEW S, r \in S,
         \A p \in T \cap S : \A i, x : Kid(c, p, i, x) => x \in S
  PROVE  T \subseteq S
<1> DEFINE rank == [p \in T |-> h[r] - h[p]]
<1>1. r \in T /\ \A p \in T : h[p] \in Nat /\ h[p] <= h[r]
  BY DEF Shape, RootHighest
<1>2. rank \in [T -> Nat] /\ \A p \in T : rank[p] = h[r] - h[p]
  BY <1>1
<1> HIDE DEF rank
<1>3. ASSUME NEW x \in T, \A p \in T : rank[p] < rank[x] => p \in S
      PROVE  x \in S
  <2> SUFFICES ASSUME x # r PROVE x \in S
    OBVIOUS
  <2>1. PICK p \in T : \E i : Kid(c, p, i, x)
    BY DEF Shape, HasParent
  <2>2. PICK i : Kid(c, p, i, x)
    BY <2>1
  <2>3. h[x] + 1 = h[p]
    BY <2>2, KidOf
  <2>4. rank[p] < rank[x]
    BY <2>3, <1>1, <1>2
  <2>5. p \in S
    BY <2>4, <1>3
  <2> QED BY <2>2, <2>5
<1>4. Inherited(T, S, rank)
  BY <1>2, <1>3 DEF Inherited
<1> QED BY <1>4, RankInd

\* search visits every node of the tree: a key it does not find is in none.
LEMMA UnknownAbsent ==
  ASSUME IInv, NEW g, NEW T, NEW h, NEW R, Tree(g, T, h, R), writes = <<>>,
         NEW k, ~Known(k)
  PROVE  Absent(Cur, T, k)
<1>1. /\ T \in SUBSET Page /\ h \in [Page -> Nat] /\ Shape(Cur, root_page_id, T, h)
      /\ root_page_id \in T /\ root_page_id \in Page
  BY TreeTyped DEF Shape
<1>2. Above(h) /\ CurFacts /\ Cur \in [Page -> Node]
  BY TreeAbove, CurIs DEF CurFacts
<1>3. PICK f : Searched(k, f) /\ Search(disk, root_page_id, k) = f[root_page_id]
  BY <1>1, <1>2, SearchIs
<1>4. f \in [Page -> Seq(Entry)] /\ \A p \in Page : f[p] = Hits(Cur[p], k, f)
  BY <1>3 DEF Searched
<1> DEFINE S == {p \in Page : f[p] = <<>>}
<1>5. root_page_id \in S
  BY <1>1, <1>3 DEF Known
<1>6. ASSUME NEW p \in T, f[p] = <<>>
      PROVE  /\ \A i \in 1..Len(Cur[p].ents) : Cur[p].ents[i].key # k
             /\ \A i \in 1..Len(Cur[p].kids) : f[Cur[p].kids[i]] = <<>>
  <2>1. Cur[p] \in Node /\ Sound(Cur[p])
    BY <1>1, <1>2 DEF CurFacts
  <2>2. \A i \in 1..Len(Cur[p].kids) : f[Cur[p].kids[i]] \in Seq(Entry)
    BY <1>1, <1>2, <1>4 DEF Above
  <2>3. Hits(Cur[p], k, f) = <<>>
    BY <1>1, <1>4, <1>6
  <2> QED BY <2>1, <2>2, <2>3, HitsNone
<1>7. ASSUME NEW p \in T \cap S, NEW i, NEW x, Kid(Cur, p, i, x)
      PROVE  x \in S
  <2>1. i \in 1..Len(Cur[p].kids) /\ Cur[p].kids[i] = x
    BY <1>7 DEF Kid
  <2>2. x \in Page
    BY <2>1, <1>1, <1>2 DEF Above
  <2> QED BY <2>1, <2>2, <1>6
<1>8. T \subseteq S
  <2> HIDE DEF S
  <2> QED BY <1>1, <1>2, <1>5, <1>7, FromRoot
<1> QED BY <1>6, <1>8 DEF Absent

\* Every step with callers that search before they insert keeps the tree with
\* strictly ascending keys.
LEMMA StepNewTree ==
  ASSUME IInv, TreeInv(1), [NextNew]_vars
  PROVE  TreeInv(1)'
<1>1. IInv' /\ 1 \in {0, 1}
  BY StepIInv DEF Next, NextNew, InsertNew
<1>2. CASE \E e \in Entry : InsertNew(e)
  <2>1. PICK e \in Entry : ~Known(e.key) /\ Insert(e)
    BY <1>2 DEF InsertNew
  <2>2. PICK T, h, R : Tree(1, T, h, R)
    BY DEF TreeInv
  <2>3. writes = <<>>
    BY <2>1 DEF Insert, EnterRoot, GrowRoot, Idle
  <2>4. Spared(Cur, T \ {root_page_id}, e.key)
    BY <2>1, <2>2, <2>3, UnknownAbsent DEF Absent, Spared, Lacks
  <2> QED BY <2>1, <2>2, <2>4, <1>1, InsertTree
<1>3. CASE Step \/ Restart \/ UNCHANGED vars
  BY <1>1, <1>3, OtherTree
<1> QED BY <1>2, <1>3 DEF NextNew

\* With callers that search before they insert, keys strictly ascend as well.
THEOREM NewTreeInvariant == NewSpec => []TreeInv(1)
<1>1. Init => TreeInv(1)
  BY InitTree
<1>2. NewSpec => []IInv
  BY Invariant, NewKeysImplement, PTL
<1>3. IInv /\ TreeInv(1) /\ [NextNew]_vars => TreeInv(1)'
  BY StepNewTree
<1> QED BY <1>1, <1>2, <1>3, PTL DEF NewSpec

\* No key is stored twice.
THEOREM SingleCopyAlways == NewSpec => []SingleCopy
<1>1. IInv /\ TreeInv(1) => SingleCopy
  <2> SUFFICES ASSUME IInv, TreeInv(1) PROVE SingleCopy
    OBVIOUS
  <2>1. PICK T, h, R : Tree(1, T, h, R)
    BY DEF TreeInv
  <2> DEFINE vs == Values(Overlay, root_page_id)
  <2>2. vs \in Seq(Entry) /\ Ascending(1, vs)
    BY <2>1, ValuesAscend
  <2>3. /\ DOMAIN vs = 1..Len(vs) /\ Len(vs) \in Nat
        /\ \A i \in 1..Len(vs) : vs[i].key \in Int
    <3>1. \A x \in Entry : x.key \in Int
      BY KeyAssumption DEF Entry
    <3> HIDE DEF vs
    <3> QED BY <3>1, <2>2, ElementOfSeq, EmptySequence
  <2>4. ASSUME NEW i \in 1..Len(vs), NEW j \in 1..Len(vs), i < j
        PROVE  vs[i].key # vs[j].key
    <3>1. vs[i].key + 1 <= vs[j].key /\ vs[i].key \in Int /\ vs[j].key \in Int
      BY <2>2, <2>3, <2>4 DEF Ascending
    <3> HIDE DEF vs
    <3> QED BY <3>1
  <2>5. ASSUME NEW i \in 1..Len(vs), NEW j \in 1..Len(vs), i # j
        PROVE  vs[i].key # vs[j].key
    <3>1. i < j \/ j < i
      BY <2>3, <2>5
    <3> HIDE DEF vs
    <3> QED BY <3>1, <2>4
  <2> HIDE DEF vs
  <2>6. \A i, j \in DOMAIN vs : i # j => vs[i].key # vs[j].key
    BY <2>3, <2>5
  <2> QED BY <2>6 DEF SingleCopy, vs
<1>2. NewSpec => []IInv
  BY Invariant, NewKeysImplement, PTL
<1> QED BY <1>1, <1>2, NewTreeInvariant, PTL

-----------------------------------------------------------------------------
(* Balance *)

\* The depth of the leftmost leaf below a page of the tree is the page's height.
LEMMA HeightIs ==
  ASSUME NEW h \in [Page -> Nat], Above(h), CurFacts, NEW T \in SUBSET Page, NEW r,
         Shape(Cur, r, T, h), NEW p0 \in T
  PROVE  Height(Overlay, p0) = h[p0]
<1> DEFINE up(p, f) == IF Cur[p].leaf THEN 0 ELSE 1 + f[Cur[p].kids[1]]
           G == [x \in Page \X [Page -> Nat] |-> up(x[1], x[2])]
           is(f) == f = [p \in Page |-> LET n == ReadPage(Overlay, p)
                                        IN IF n.leaf THEN 0 ELSE 1 + f[n.kids[1]]]
<1>0. \A p \in Page : /\ Cur[p] \in Node /\ Cur[p] = ReadPage(Overlay, p)
                      /\ ~Cur[p].leaf => 1 \in 1..Len(Cur[p].kids)
  <2> TAKE p \in Page
  <2>1. Cur[p] \in Node /\ Sound(Cur[p])
    BY DEF CurFacts
  <2>2. Cur[p] = ReadPage(Overlay, p)
    BY DEF Cur
  <2>3. Len(Cur[p].ents) \in Nat
    BY <2>1, NodeProps
  <2> QED BY <2>1, <2>2, <2>3 DEF Sound
<1>1. ASSUME NEW p \in Page, ~Cur[p].leaf PROVE Cur[p].kids[1] \in Page
  BY <1>0, <1>1 DEF Above
<1>2. \A p \in Page, f \in [Page -> Nat] : G[<<p, f>>] = up(p, f)
  OBVIOUS
<1>3. Folding(Nat, G)
  <2>1. ASSUME NEW p \in Page, NEW f \in [Page -> Nat] PROVE up(p, f) \in Nat
    <3>1. CASE Cur[p].leaf
      BY <3>1
    <3>2. CASE ~Cur[p].leaf
      <4>1. f[Cur[p].kids[1]] \in Nat
        BY <3>2, <1>1
      <4> QED BY <3>2, <4>1
    <3> QED BY <3>1, <3>2
  <2>2. G \in [Page \X [Page -> Nat] -> Nat]
    <3> HIDE DEF up
    <3> QED BY <2>1
  <2>3. \A p \in Page, f, g \in [Page -> Nat] :
          (\A i \in 1..Len(Cur[p].kids) : f[Cur[p].kids[i]] = g[Cur[p].kids[i]])
            => G[<<p, f>>] = G[<<p, g>>]
    <3> TAKE p \in Page, f, g \in [Page -> Nat]
    <3> HAVE \A i \in 1..Len(Cur[p].kids) : f[Cur[p].kids[i]] = g[Cur[p].kids[i]]
    <3> HIDE DEF G
    <3>1. up(p, f) = up(p, g)
      BY <1>0
    <3> HIDE DEF up
    <3> QED BY <1>2, <3>1
  <2>4. Nat # {}
    OBVIOUS
  <2> HIDE DEF G
  <2> QED BY <2>2, <2>3, <2>4 DEF Folding
<1>4. PICK f0 \in [Page -> Nat] : \A p \in Page : f0[p] = up(p, f0)
  <2> HIDE DEF G, up
  <2>1. PICK f0 \in [Page -> Nat] : \A p \in Page : f0[p] = G[<<p, f0>>]
    BY <1>3, PageFold
  <2> QED BY <1>2, <2>1
<1>5. is(f0)
  BY <1>0, <1>4
<1>6. PICK f : is(f) /\ Height(Overlay, p0) = f[p0]
  BY <1>5 DEF Height
<1>7. \A p \in Page : f[p] = IF Cur[p].leaf THEN 0 ELSE 1 + f[Cur[p].kids[1]]
  BY <1>0, <1>6
<1> HIDE DEF is, up, G
<1> DEFINE S == {p \in Page : p \in T => f[p] = h[p]}
<1>8. ASSUME NEW p \in Page, \A x \in Page : h[x] < h[p] => x \in S
      PROVE  p \in S
  <2> SUFFICES ASSUME p \in T PROVE f[p] = h[p]
    OBVIOUS
  <2>1. Cur[p].leaf <=> h[p] = 0
    BY DEF Shape, Levels
  <2>2. CASE Cur[p].leaf
    BY <2>1, <2>2, <1>7
  <2>3. CASE ~Cur[p].leaf
    <3>1. PICK x : Kid(Cur, p, 1, x)
      BY <2>3, <1>0 DEF Kid
    <3>2. x \in T /\ x \in Page /\ h[x] + 1 = h[p] /\ h[x] \in Nat
      BY <3>1, KidOf DEF CurFacts
    <3>3. f[x] = h[x]
      BY <3>2, <1>8
    <3>4. f[p] = 1 + f[x]
      BY <2>3, <3>1, <1>7 DEF Kid
    <3> QED BY <3>2, <3>3, <3>4
  <2> QED BY <2>2, <2>3
<1>9. Inherited(Page, S, h)
  <2> HIDE DEF S
  <2>1. h \in [Page -> Nat]
    OBVIOUS
  <2> QED BY <2>1, <1>8 DEF Inherited
<1>10. Page \subseteq S
  <2> HIDE DEF S
  <2> QED BY <1>9, RankInd
<1> QED BY <1>6, <1>10

\* What is reached from each page: the page, and what its children reach.
Reaching(f) == \A p \in Page : f[p] = {p} \cup UNION {f[q] : q \in Linked(Cur[p])}

\* The pages reached from each page are defined.
LEMMA ReachableIs ==
  ASSUME NEW h \in [Page -> Nat], Above(h), CurFacts, NEW r \in Page
  PROVE  \E f : Reaching(f) /\ Reachable(Overlay, r) = f[r]
<1> DEFINE V == SUBSET Page
           all(p, f) == {p} \cup UNION {f[q] : q \in Linked(Cur[p])}
           G == [x \in Page \X [Page -> V] |-> all(x[1], x[2])]
           is(f) == f = [p \in Page |->
                           {p} \cup UNION {f[q] : q \in Linked(ReadPage(Overlay, p))}]
<1>0. \A p \in Page : Cur[p] \in Node /\ Cur[p] = ReadPage(Overlay, p)
  BY DEF Cur, CurFacts
<1>1. \A p \in Page : \A q \in Linked(Cur[p]) :
         q \in Page /\ \E i \in 1..Len(Cur[p].kids) : Cur[p].kids[i] = q
  <2> TAKE p \in Page
  <2> TAKE q \in Linked(Cur[p])
  <2>1. DOMAIN Cur[p].kids = 1..Len(Cur[p].kids)
    BY <1>0, NodeProps
  <2>2. PICK i \in 1..Len(Cur[p].kids) : Cur[p].kids[i] = q
    BY <2>1 DEF Linked
  <2> QED BY <2>2 DEF Above
<1>2. \A p \in Page, f \in [Page -> V] : G[<<p, f>>] = all(p, f)
  OBVIOUS
<1>3. Folding(V, G)
  <2>1. ASSUME NEW p \in Page, NEW f \in [Page -> V] PROVE all(p, f) \in V
    <3>1. \A q \in Linked(Cur[p]) : f[q] \subseteq Page
      BY <1>1
    <3> QED BY <3>1
  <2>2. G \in [Page \X [Page -> V] -> V]
    <3> HIDE DEF all, V
    <3> QED BY <2>1
  <2>3. \A p \in Page, f, g \in [Page -> V] :
          (\A i \in 1..Len(Cur[p].kids) : f[Cur[p].kids[i]] = g[Cur[p].kids[i]])
            => G[<<p, f>>] = G[<<p, g>>]
    <3> TAKE p \in Page, f, g \in [Page -> V]
    <3> HAVE \A i \in 1..Len(Cur[p].kids) : f[Cur[p].kids[i]] = g[Cur[p].kids[i]]
    <3>1. \A q \in Linked(Cur[p]) : f[q] = g[q]
      <4> TAKE q \in Linked(Cur[p])
      <4>1. PICK i \in 1..Len(Cur[p].kids) : q = Cur[p].kids[i]
        BY <1>1
      <4> QED BY <4>1
    <3> HIDE DEF G, V
    <3>2. all(p, f) = all(p, g)
      BY <3>1
    <3> HIDE DEF all
    <3> QED BY <1>2, <3>2
  <2>4. V # {}
    <3>1. {} \in V
      OBVIOUS
    <3> QED BY <3>1
  <2> HIDE DEF G, V
  <2> QED BY <2>2, <2>3, <2>4 DEF Folding
<1>4. PICK f0 \in [Page -> V] : \A p \in Page : f0[p] = all(p, f0)
  <2> HIDE DEF G, V, all
  <2>1. PICK f0 \in [Page -> V] : \A p \in Page : f0[p] = G[<<p, f0>>]
    BY <1>3, PageFold
  <2> QED BY <1>2, <2>1
<1>5. is(f0)
  <2> HIDE DEF V
  <2> QED BY <1>0, <1>4
<1>6. PICK f : is(f) /\ Reachable(Overlay, r) = f[r]
  BY <1>5 DEF Reachable
<1>7. Reaching(f)
  BY <1>0, <1>6 DEF Reaching
<1> QED BY <1>6, <1>7

\* The pages of the tree are those reached from its root.
LEMMA ReachableTree ==
  ASSUME NEW h \in [Page -> Nat], Above(h), CurFacts, NEW T \in SUBSET Page, NEW r,
         Shape(Cur, r, T, h)
  PROVE  Reachable(Overlay, r) = T
<1>0. r \in T /\ r \in Page /\ Cur \in [Page -> Node] /\ h \in [Page -> Nat]
  BY DEF Shape, CurFacts
<1>1. PICK f : Reaching(f) /\ Reachable(Overlay, r) = f[r]
  BY <1>0, ReachableIs
<1>2. \A p \in Page : \A x : x \in f[p] <=> x = p \/ \E q \in Linked(Cur[p]) : x \in f[q]
  BY <1>1 DEF Reaching
<1>3. \A p \in Page : \A q \in Linked(Cur[p]) :
         q \in Page /\ h[q] < h[p] /\ \E i : Kid(Cur, p, i, q)
  <2> TAKE p \in Page
  <2> TAKE q \in Linked(Cur[p])
  <2>1. DOMAIN Cur[p].kids = 1..Len(Cur[p].kids)
    BY <1>0, NodeProps
  <2>2. PICK i \in 1..Len(Cur[p].kids) : Cur[p].kids[i] = q
    BY <2>1 DEF Linked
  <2>3. Kid(Cur, p, i, q)
    BY <2>2 DEF Kid
  <2> QED BY <2>2, <2>3 DEF Above
<1>4. \A p \in Page : \A i, x : Kid(Cur, p, i, x) => x \in Linked(Cur[p])
  <2> SUFFICES ASSUME NEW p \in Page, NEW i, NEW x, Kid(Cur, p, i, x) PROVE x \in Linked(Cur[p])
    OBVIOUS
  <2>1. DOMAIN Cur[p].kids = 1..Len(Cur[p].kids)
    BY <1>0, NodeProps
  <2> QED BY <2>1 DEF Kid, Linked
<1>5. f[r] \subseteq T
  <2> DEFINE S == {p \in Page : p \in T => f[p] \subseteq T}
  <2>1. ASSUME NEW p \in Page, \A x \in Page : h[x] < h[p] => x \in S
        PROVE  p \in S
    <3> SUFFICES ASSUME p \in T, NEW x \in f[p] PROVE x \in T
      OBVIOUS
    <3>1. CASE x = p
      BY <3>1
    <3>2. CASE x # p
      <4>1. PICK q \in Linked(Cur[p]) : x \in f[q]
        BY <3>2, <1>2
      <4>2. q \in Page /\ h[q] < h[p]
        BY <1>3
      <4>3. PICK i : Kid(Cur, p, i, q)
        BY <1>3
      <4>4. q \in T
        BY <4>3, <1>0, KidOf
      <4>5. f[q] \subseteq T
        BY <4>2, <4>4, <2>1
      <4> QED BY <4>1, <4>5
    <3> QED BY <3>1, <3>2
  <2>2. Page \subseteq S
    <3> HIDE DEF S
    <3>1. Inherited(Page, S, h)
      BY <1>0, <2>1 DEF Inherited
    <3> QED BY <3>1, RankInd
  <2> QED BY <1>0, <2>2
<1>6. \A p \in Page : \A q \in f[p] : f[q] \subseteq f[p]
  <2> DEFINE S == {p \in Page : \A q \in f[p] : f[q] \subseteq f[p]}
  <2>1. ASSUME NEW p \in Page, \A x \in Page : h[x] < h[p] => x \in S
        PROVE  p \in S
    <3> SUFFICES ASSUME NEW q \in f[p], NEW x \in f[q] PROVE x \in f[p]
      OBVIOUS
    <3>1. CASE q = p
      BY <3>1
    <3>2. CASE q # p
      <4>1. PICK k \in Linked(Cur[p]) : q \in f[k]
        BY <3>2, <1>2
      <4>2. k \in Page /\ h[k] < h[p]
        BY <1>3
      <4>3. x \in f[k]
        BY <4>1, <4>2, <2>1
      <4> QED BY <4>1, <4>3, <1>2
    <3> QED BY <3>1, <3>2
  <2>2. Page \subseteq S
    <3> HIDE DEF S
    <3>1. Inherited(Page, S, h)
      BY <1>0, <2>1 DEF Inherited
    <3> QED BY <3>1, RankInd
  <2> QED BY <2>2
<1>7. T \subseteq f[r]
  <2> DEFINE S == f[r]
  <2>1. r \in S
    BY <1>0, <1>2
  <2>2. ASSUME NEW p \in T \cap S, NEW i, NEW x, Kid(Cur, p, i, x)
        PROVE  x \in S
    <3>1. p \in Page /\ x \in Linked(Cur[p])
      BY <2>2, <1>4
    <3>2. x \in Page
      BY <3>1, <1>3
    <3>3. x \in f[p]
      BY <3>1, <3>2, <1>2
    <3> QED BY <3>3, <1>0, <1>6
  <2> HIDE DEF S
  <2>3. T \subseteq S
    BY <2>1, <2>2, <1>0, FromRoot
  <2> QED BY <2>3 DEF S
<1> QED BY <1>1, <1>5, <1>7

\* The links of the pages of T to their children.
Links(c, T) == UNION {{p} \X DOMAIN c[p].kids : p \in T}

\* Every page of the tree but the root has one link to it.
LEMMA LinksCounted ==
  ASSUME NEW c \in [Page -> Node], NEW r, NEW T \in SUBSET Page, NEW h \in [Page -> Nat],
         Shape(c, r, T, h), IsFiniteSet(T)
  PROVE  /\ Cardinality(Links(c, T)) = Cardinality(T) - 1
         /\ \A l \in Links(c, T) : l[1] \in T /\ Kid(c, l[1], l[2], c[l[1]].kids[l[2]])
<1> DEFINE L == Links(c, T)
           to == [l \in L |-> c[l[1]].kids[l[2]]]
<1>1. \A p \in T : DOMAIN c[p].kids = 1..Len(c[p].kids)
  BY NodeProps
<1>2. ASSUME NEW l \in L
      PROVE  /\ l = <<l[1], l[2]>> /\ l[1] \in T
             /\ Kid(c, l[1], l[2], c[l[1]].kids[l[2]])
  <2>1. PICK p \in T : l \in {p} \X DOMAIN c[p].kids
    BY DEF Links
  <2>2. l = <<l[1], l[2]>> /\ l[1] = p /\ l[2] \in DOMAIN c[p].kids
    BY <2>1
  <2> QED BY <2>2, <1>1 DEF Kid
<1>3. ASSUME NEW p \in T, NEW i, NEW x, Kid(c, p, i, x)
      PROVE  <<p, i>> \in L /\ to[<<p, i>>] = x
  <2>1. i \in DOMAIN c[p].kids /\ c[p].kids[i] = x
    BY <1>1, <1>3 DEF Kid
  <2>2. <<p, i>> \in L
    BY <2>1 DEF Links
  <2> QED BY <2>1, <2>2
<1>4. \A l \in L : to[l] = c[l[1]].kids[l[2]]
  OBVIOUS
<1>5. DOMAIN to = L /\ to \in [L -> T \ {r}]
  <2>1. \A l \in L : c[l[1]].kids[l[2]] \in T \ {r}
    BY <1>2, KidOf
  <2> HIDE DEF L
  <2> QED BY <2>1
<1> HIDE DEF L, to
<1>6. \A a, b \in L : to[a] = to[b] => a = b
  <2> SUFFICES ASSUME NEW a \in L, NEW b \in L, to[a] = to[b] PROVE a = b
    OBVIOUS
  <2>1. a[1] \in T /\ Kid(c, a[1], a[2], to[a]) /\ a = <<a[1], a[2]>>
    BY <1>2, <1>4
  <2>2. b[1] \in T /\ Kid(c, b[1], b[2], to[a]) /\ b = <<b[1], b[2]>>
    BY <1>2, <1>4
  <2>3. a[1] = b[1] /\ a[2] = b[2]
    BY <2>1, <2>2 DEF Shape, OneParent
  <2> QED BY <2>1, <2>2, <2>3
<1>7. to \in Injection(L, T \ {r})
  BY <1>5, <1>6 DEF Injection, IsInjective
<1>8. to \in Surjection(L, T \ {r})
  <2>1. ASSUME NEW x \in T \ {r} PROVE \E l \in L : to[l] = x
    <3>1. PICK p \in T : \E i : Kid(c, p, i, x)
      BY DEF Shape, HasParent
    <3>2. PICK i : Kid(c, p, i, x)
      BY <3>1
    <3>3. <<p, i>> \in L /\ to[<<p, i>>] = x
      BY <3>2, <1>3
    <3> QED BY <3>3
  <2> QED BY <2>1, <1>5 DEF Surjection
<1>9. /\ IsFiniteSet(T \ {r}) /\ Cardinality(T \ {r}) = Cardinality(T) - 1
  BY FS_RemoveElement DEF Shape
<1>10. Cardinality(L) = Cardinality(T \ {r})
  BY <1>7, <1>8, <1>9, FS_Injection
<1> QED BY <1>2, <1>9, <1>10 DEF L

\* Whatever splits are under way, the tree is balanced: all leaves at one
\* depth, one parent for each page, every node but the root half full.
THEOREM BalancedAlways == Spec => []Balanced
<1>1. IInv /\ TreeInv(0) => Balanced
  <2> SUFFICES ASSUME IInv, TreeInv(0) PROVE Balanced
    OBVIOUS
  <2>1. PICK T, h, R : Tree(0, T, h, R)
    BY DEF TreeInv
  <2>2. /\ T \in SUBSET (0..next_page_id - 1) /\ T \in SUBSET Page /\ h \in [Page -> Nat]
        /\ Shape(Cur, root_page_id, T, h)
    BY <2>1, TreeTyped DEF Tree
  <2>3. Above(h) /\ CurFacts /\ Cur \in [Page -> Node]
    BY <2>1, TreeAbove, CurIs DEF CurFacts
  <2>4. IsFiniteSet(T)
    <3>1. next_page_id \in Nat
      BY DEF IInv, TypeOK
    <3>2. IsFiniteSet(0..next_page_id - 1)
      BY <3>1, FS_Interval
    <3> QED BY <2>2, <3>2, FS_Subset
  <2>5. Reachable(Overlay, root_page_id) = T
    BY <2>2, <2>3, ReachableTree
  <2>6. \A p \in T : ReadPage(Overlay, p) = Cur[p]
    BY <2>2 DEF Cur
  <2>7. UNION {{p} \X DOMAIN ReadPage(Overlay, p).kids : p \in T} = Links(Cur, T)
    BY <2>6 DEF Links
  <2>8. /\ Cardinality(Links(Cur, T)) = Cardinality(T) - 1
        /\ \A l \in Links(Cur, T) :
             l[1] \in T /\ Kid(Cur, l[1], l[2], Cur[l[1]].kids[l[2]])
    BY <2>2, <2>3, <2>4, LinksCounted
  <2>9. \A p \in T : \A i, x : Kid(Cur, p, i, x) => Height(Overlay, x) + 1 = Height(Overlay, p)
    <3> SUFFICES ASSUME NEW p \in T, NEW i, NEW x, Kid(Cur, p, i, x)
                 PROVE  Height(Overlay, x) + 1 = Height(Overlay, p)
      OBVIOUS
    <3>1. x \in T /\ h[x] + 1 = h[p]
      BY <2>2, <2>3, KidOf
    <3>2. Height(Overlay, x) = h[x]
      BY <3>1, <2>2, <2>3, HeightIs
    <3>3. Height(Overlay, p) = h[p]
      BY <2>2, <2>3, HeightIs
    <3> QED BY <3>1, <3>2, <3>3
  <2>10. \A q \in T \ {root_page_id} : Len(Cur[q].ents) >= Degree - 1
    BY <2>2 DEF Shape, HalfFull
  <2>11. \A l \in Links(Cur, T) :
           Height(Overlay, ReadPage(Overlay, l[1]).kids[l[2]]) + 1 = Height(Overlay, l[1])
    BY <2>6, <2>8, <2>9
  <2>12. \A q \in T \ {root_page_id} : Len(ReadPage(Overlay, q).ents) >= Degree - 1
    BY <2>6, <2>10
  <2> QED BY <2>5, <2>7, <2>8, <2>11, <2>12 DEF Balanced
<1> QED BY <1>1, Invariant, TreeInvariant, PTL

-----------------------------------------------------------------------------
(* The tree as a set of entries: what KeyStore says of it.                   *)

\* The entries in the nodes of T.
Items(c, T) == UNION {ToSet(c[p].ents) : p \in T}

\* What is in a sequence.
LEMMA ToSetIs ==
  ASSUME NEW s \in Seq(Entry)
  PROVE  /\ ToSet(s) = {s[i] : i \in 1..Len(s)} /\ ToSet(s) \subseteq Entry
         /\ \A x : x \in ToSet(s) <=> \E i \in 1..Len(s) : s[i] = x
<1>1. DOMAIN s = 1..Len(s) /\ \A i \in 1..Len(s) : s[i] \in Entry
  BY ElementOfSeq
<1> QED BY <1>1 DEF ToSet

\* Two sequences in a row have the members of both.
LEMMA ToSetConcat ==
  ASSUME NEW s \in Seq(Entry), NEW t \in Seq(Entry)
  PROVE  ToSet(s \o t) = ToSet(s) \cup ToSet(t)
<1>1. /\ s \o t \in Seq(Entry) /\ Len(s \o t) = Len(s) + Len(t)
      /\ Len(s) \in Nat /\ Len(t) \in Nat
      /\ \A i \in 1..Len(s) + Len(t) :
           (s \o t)[i] = IF i <= Len(s) THEN s[i] ELSE t[i - Len(s)]
  BY ConcatProperties
<1>2. ASSUME NEW x, x \in ToSet(s \o t) PROVE x \in ToSet(s) \cup ToSet(t)
  <2>1. PICK i \in 1..Len(s) + Len(t) : (s \o t)[i] = x
    <3>1. \E i \in 1..Len(s \o t) : (s \o t)[i] = x
      BY <1>1, <1>2, ToSetIs
    <3> QED BY <3>1, <1>1
  <2>2. CASE i <= Len(s)
    <3>1. i \in 1..Len(s) /\ s[i] = x
      BY <1>1, <2>1, <2>2
    <3> QED BY <3>1, ToSetIs
  <2>3. CASE ~(i <= Len(s))
    <3>1. i - Len(s) \in 1..Len(t) /\ t[i - Len(s)] = x
      BY <1>1, <2>1, <2>3
    <3> QED BY <3>1, ToSetIs
  <2> QED BY <2>2, <2>3
<1>3. ASSUME NEW x, x \in ToSet(s) PROVE x \in ToSet(s \o t)
  <2>1. PICK i \in 1..Len(s) : s[i] = x
    BY <1>3, ToSetIs
  <2>2. i \in 1..Len(s) + Len(t) /\ (s \o t)[i] = x
    BY <1>1, <2>1
  <2> QED BY <2>2, <1>1, ToSetIs
<1>4. ASSUME NEW x, x \in ToSet(t) PROVE x \in ToSet(s \o t)
  <2>1. PICK i \in 1..Len(t) : t[i] = x
    BY <1>4, ToSetIs
  <2>2. /\ i + Len(s) \in 1..Len(s) + Len(t) /\ ~(i + Len(s) <= Len(s))
        /\ (i + Len(s)) - Len(s) = i
    BY <1>1
  <2>3. (s \o t)[i + Len(s)] = x
    BY <1>1, <2>1, <2>2
  <2> QED BY <2>2, <2>3, <1>1, ToSetIs
<1> QED BY <1>2, <1>3, <1>4

\* A node shows its entries and what its children show, and nothing else.
LEMMA InOrderItems ==
  ASSUME NEW n \in Node, Sound(n), NEW shown,
         \A i \in 1..Len(n.kids) : shown[n.kids[i]] \in Seq(Entry)
  PROVE  \A x : x \in ToSet(InOrder(n, shown)) <=>
                  \/ \E i \in 1..Len(n.ents) : n.ents[i] = x
                  \/ \E i \in 1..Len(n.kids) : x \in ToSet(shown[n.kids[i]])
<1> DEFINE N == Len(n.kids)
           last(i) == IF i <= Len(n.ents) THEN <<n.ents[i]>> ELSE <<>>
<1>1. /\ N \in Nat /\ n.ents \in Seq(Entry) /\ Len(n.ents) \in Nat /\ n.leaf \in BOOLEAN
      /\ \A i \in 1..Len(n.ents) : n.ents[i] \in Entry
  BY NodeProps, EntryKeys
<1>2. CASE n.leaf
  <2>1. Len(n.kids) = 0 /\ InOrder(n, shown) = n.ents
    BY <1>2, InOrderIs DEF Sound
  <2> QED BY <2>1, <1>1, ToSetIs
<1>3. CASE ~n.leaf
  <2>1. N = Len(n.ents) + 1
    BY <1>3 DEF Sound
  <2>2. PICK u \in [0..N -> Seq(Entry)] : Between(n, shown, u) /\ InOrder(n, shown) = u[N]
    BY <1>3, InOrderIs
  <2>3. /\ u[0] = <<>>
        /\ \A i \in 1..N : u[i] = u[i - 1] \o shown[n.kids[i]] \o last(i)
    BY <2>2 DEF Between
  <2>4. \A i \in 1..N : /\ last(i) \in Seq(Entry)
                        /\ \A x : x \in ToSet(last(i)) <=> i <= Len(n.ents) /\ n.ents[i] = x
    <3> TAKE i \in 1..N
    <3>1. CASE i <= Len(n.ents)
      <4>1. n.ents[i] \in Entry
        BY <3>1, <1>1
      <4> DEFINE one == <<n.ents[i]>>
      <4>2. one \in Seq(Entry) /\ Len(one) = 1 /\ one[1] = n.ents[i] /\ last(i) = one
        BY <3>1, <4>1
      <4> HIDE DEF one, last
      <4>3. \A x : x \in ToSet(one) <=> n.ents[i] = x
        <5>1. \A k : k \in 1..Len(one) <=> k = 1
          BY <4>2
        <5> QED BY <4>2, <5>1, ToSetIs
      <4> QED BY <3>1, <4>2, <4>3
    <3>2. CASE ~(i <= Len(n.ents))
      <4> DEFINE none == <<>>
      <4>1. none \in Seq(Entry) /\ Len(none) = 0
        OBVIOUS
      <4>2. last(i) = none
        BY <3>2
      <4> HIDE DEF none, last
      <4>3. \A x : x \notin ToSet(none)
        <5>1. \A k : k \notin 1..Len(none)
          BY <4>1
        <5> QED BY <4>1, <5>1, ToSetIs
      <4>4. last(i) \in Seq(Entry) /\ \A x : x \notin ToSet(last(i))
        BY <4>1, <4>2, <4>3
      <4> QED BY <3>2, <4>4
    <3> QED BY <3>1, <3>2
  <2> HIDE DEF last
  <2> DEFINE upto(i, x) == \/ \E k \in 1..i : k <= Len(n.ents) /\ n.ents[k] = x
                           \/ \E k \in 1..i : x \in ToSet(shown[n.kids[k]])
             S == {i \in Nat : i <= N => \A x : x \in ToSet(u[i]) <=> upto(i, x)}
  <2>5. 0 \in S
    <3> DEFINE none == <<>>
    <3>1. none \in Seq(Entry) /\ Len(none) = 0 /\ u[0] = none
      BY <2>3
    <3> HIDE DEF none
    <3>2. \A x : x \notin ToSet(u[0])
      BY <3>1, ToSetIs
    <3> QED BY <3>2
  <2>6. ASSUME NEW i \in S PROVE i + 1 \in S
    <3> SUFFICES ASSUME i + 1 <= N, NEW x
                 PROVE  x \in ToSet(u[i + 1]) <=> upto(i + 1, x)
      OBVIOUS
    <3>1. /\ i \in Nat /\ i + 1 \in 1..N /\ (i + 1) - 1 = i /\ i <= N /\ i \in 0..N
          /\ u[i] \in Seq(Entry) /\ shown[n.kids[i + 1]] \in Seq(Entry)
          /\ last(i + 1) \in Seq(Entry)
      BY <1>1, <2>4
    <3>2. x \in ToSet(u[i]) <=> upto(i, x)
      BY <3>1
    <3>3. u[i + 1] = u[i] \o shown[n.kids[i + 1]] \o last(i + 1)
      BY <2>3, <3>1
    <3>4. x \in ToSet(u[i + 1]) <=> \/ x \in ToSet(u[i])
                                    \/ x \in ToSet(shown[n.kids[i + 1]])
                                    \/ x \in ToSet(last(i + 1))
      <4>1. u[i] \o shown[n.kids[i + 1]] \in Seq(Entry)
        BY <3>1
      <4>2. ToSet(u[i + 1]) = ToSet(u[i] \o shown[n.kids[i + 1]]) \cup ToSet(last(i + 1))
        BY <3>1, <3>3, <4>1, ToSetConcat
      <4>3. ToSet(u[i] \o shown[n.kids[i + 1]]) = ToSet(u[i]) \cup ToSet(shown[n.kids[i + 1]])
        BY <3>1, ToSetConcat
      <4> QED BY <4>2, <4>3
    <3>5. x \in ToSet(last(i + 1)) <=> i + 1 <= Len(n.ents) /\ n.ents[i + 1] = x
      BY <2>4, <3>1
    <3>6. \A k : k \in 1..i + 1 <=> k \in 1..i \/ k = i + 1
      BY <3>1
    <3> HIDE DEF S
    <3> QED BY <3>2, <3>4, <3>5, <3>6
  <2>7. S = Nat
    <3> HIDE DEF S
    <3>1. S \in SUBSET Nat
      BY DEF S
    <3> QED BY <2>5, <2>6, <3>1, NatInd
  <2>8. \A x : x \in ToSet(u[N]) <=> upto(N, x)
    <3> HIDE DEF upto, S
    <3>1. N \in S /\ N <= N
      BY <2>7, <1>1
    <3> QED BY <3>1 DEF S
  <2>9. \A k \in 1..N : k <= Len(n.ents) <=> k \in 1..Len(n.ents)
    BY <1>1, <2>1
  <2>10. \A k \in 1..Len(n.ents) : k \in 1..N /\ k <= Len(n.ents)
    BY <1>1, <2>1
  <2> QED BY <2>2, <2>8, <2>9, <2>10
<1> QED BY <1>1, <1>2, <1>3

\* A reader gets the entries of the pages of the tree.
LEMMA TraversalItems ==
  ASSUME NEW h \in [Page -> Nat], Above(h), CurFacts, NEW T \in SUBSET Page, NEW r,
         Shape(Cur, r, T, h), NEW f, Traversal(f)
  PROVE  ToSet(f[r]) = Items(Cur, T)
<1>0. r \in T /\ r \in Page /\ Cur \in [Page -> Node] /\ h \in [Page -> Nat]
  BY DEF Shape, CurFacts
<1>1. f \in [Page -> Seq(Entry)] /\ \A p \in Page : f[p] = InOrder(Cur[p], f)
  BY DEF Traversal
<1>2. ASSUME NEW p \in Page
      PROVE  /\ Cur[p].ents \in Seq(Entry)
             /\ \A i \in 1..Len(Cur[p].kids) : Cur[p].kids[i] \in Page
             /\ \A x : x \in ToSet(f[p]) <=>
                         \/ x \in ToSet(Cur[p].ents)
                         \/ \E i \in 1..Len(Cur[p].kids) : x \in ToSet(f[Cur[p].kids[i]])
  <2>1. Cur[p] \in Node /\ Sound(Cur[p])
    BY DEF CurFacts
  <2>2. \A i \in 1..Len(Cur[p].kids) :
          Cur[p].kids[i] \in Page /\ f[Cur[p].kids[i]] \in Seq(Entry)
    BY <1>1 DEF Above
  <2>3. Cur[p].ents \in Seq(Entry)
    BY <2>1, NodeProps
  <2>4. \A x : x \in ToSet(InOrder(Cur[p], f)) <=>
                 \/ \E i \in 1..Len(Cur[p].ents) : Cur[p].ents[i] = x
                 \/ \E i \in 1..Len(Cur[p].kids) : x \in ToSet(f[Cur[p].kids[i]])
    BY <2>1, <2>2, InOrderItems
  <2>5. \A x : x \in ToSet(Cur[p].ents) <=> \E i \in 1..Len(Cur[p].ents) : Cur[p].ents[i] = x
    BY <2>3, ToSetIs
  <2>6. f[p] = InOrder(Cur[p], f)
    BY <1>1
  <2> QED BY <2>2, <2>3, <2>4, <2>5, <2>6
<1>3. ToSet(f[r]) \subseteq Items(Cur, T)
  <2> DEFINE S == {p \in Page : p \in T => ToSet(f[p]) \subseteq Items(Cur, T)}
  <2>1. ASSUME NEW p \in Page, \A x \in Page : h[x] < h[p] => x \in S
        PROVE  p \in S
    <3> SUFFICES ASSUME p \in T, NEW x \in ToSet(f[p]) PROVE x \in Items(Cur, T)
      OBVIOUS
    <3>1. CASE x \in ToSet(Cur[p].ents)
      BY <3>1 DEF Items
    <3>2. CASE \E i \in 1..Len(Cur[p].kids) : x \in ToSet(f[Cur[p].kids[i]])
      <4>1. PICK i \in 1..Len(Cur[p].kids) : x \in ToSet(f[Cur[p].kids[i]])
        BY <3>2
      <4>2. PICK k : Kid(Cur, p, i, k)
        BY DEF Kid
      <4>3. k \in T /\ k \in Page /\ h[k] + 1 = h[p] /\ h[k] \in Nat
        BY <4>2, <1>0, KidOf
      <4>4. h[k] < h[p]
        BY <4>3
      <4>5. x \in ToSet(f[k])
        BY <4>1, <4>2 DEF Kid
      <4> QED BY <4>3, <4>4, <4>5, <2>1
    <3> QED BY <3>1, <3>2, <1>2
  <2>2. Page \subseteq S
    <3> HIDE DEF S
    <3>1. Inherited(Page, S, h)
      BY <1>0, <2>1 DEF Inherited
    <3> QED BY <3>1, RankInd
  <2> QED BY <1>0, <2>2
<1>4. Items(Cur, T) \subseteq ToSet(f[r])
  <2> DEFINE S == {p \in Page : ToSet(f[p]) \subseteq ToSet(f[r])}
  <2>1. r \in S
    BY <1>0
  <2>2. ASSUME NEW p \in T \cap S, NEW i, NEW x, Kid(Cur, p, i, x)
        PROVE  x \in S
    <3>1. p \in Page /\ i \in 1..Len(Cur[p].kids) /\ Cur[p].kids[i] = x
      BY <2>2 DEF Kid
    <3>2. x \in Page
      BY <3>1, <1>2
    <3>3. ToSet(f[x]) \subseteq ToSet(f[p])
      BY <3>1, <1>2
    <3> QED BY <3>2, <3>3
  <2> HIDE DEF S
  <2>3. T \subseteq S
    BY <2>1, <2>2, <1>0, FromRoot
  <2>4. ASSUME NEW p \in T PROVE ToSet(Cur[p].ents) \subseteq ToSet(f[r])
    <3>1. ToSet(f[p]) \subseteq ToSet(f[r])
      BY <2>3 DEF S
    <3>2. ToSet(Cur[p].ents) \subseteq ToSet(f[p])
      BY <1>2
    <3> QED BY <3>1, <3>2
  <2> QED BY <2>4 DEF Items
<1> QED BY <1>3, <1>4

\* What the contract calls the store is the entries of the tree.
StoredFact ==
  \A g, T, h, R : Tree(g, T, h, R) => /\ Stored = Items(Cur, T)
                                      /\ Stored = ToSet(Values(Overlay, root_page_id))

\* What readers of a tree with all writes made would get.
LEMMA StoredIs == IInv => StoredFact
<1> SUFFICES ASSUME IInv, NEW g, NEW T, NEW h, NEW R, Tree(g, T, h, R)
             PROVE  /\ Stored = Items(Cur, T)
                    /\ Stored = ToSet(Values(Overlay, root_page_id))
  BY DEF StoredFact
<1>1. /\ T \in SUBSET Page /\ h \in [Page -> Nat] /\ Shape(Cur, root_page_id, T, h)
      /\ root_page_id \in Page
  BY TreeTyped DEF Shape
<1>2. Above(h) /\ CurFacts /\ Cur \in [Page -> Node]
  BY TreeAbove, CurIs DEF CurFacts
<1>3. PICK f : Traversal(f) /\ Values(Overlay, root_page_id) = f[root_page_id]
  BY <1>1, <1>2, ValuesIs
<1>4. ToSet(f[root_page_id]) = Items(Cur, T)
  BY <1>1, <1>2, <1>3, TraversalItems
<1>5. Stored = ToSet(Values(Overlay, root_page_id))
  BY DEF Stored
<1> QED BY <1>3, <1>4, <1>5

-----------------------------------------------------------------------------
(* Page 0, where a new process looks for its root.                           *)

\* Page 0 is the leftmost leaf below the root.
Leftmost(c, r, T) ==
  \E P \in SUBSET T : /\ 0 \in P /\ r \in P
                      /\ \A p \in P : IF c[p].leaf THEN p = 0 ELSE c[p].kids[1] \in P

\* t begins with s.
Starts(s, t) == Len(s) <= Len(t) /\ \A i \in 1..Len(s) : t[i] = s[i]

\* What is put behind a sequence leaves its start.
LEMMA StartsConcat ==
  ASSUME NEW s \in Seq(Entry), NEW t \in Seq(Entry), NEW v \in Seq(Entry), Starts(s, t)
  PROVE  Starts(s, t \o v)
<1>1. /\ Len(t \o v) = Len(t) + Len(v) /\ Len(t) \in Nat /\ Len(v) \in Nat /\ Len(s) \in Nat
      /\ \A i \in 1..Len(t) + Len(v) : (t \o v)[i] = IF i <= Len(t) THEN t[i] ELSE v[i - Len(t)]
  BY ConcatProperties
<1>2. ASSUME NEW i \in 1..Len(s) PROVE (t \o v)[i] = s[i]
  <2>1. i \in 1..Len(t) + Len(v) /\ i <= Len(t)
    BY <1>1 DEF Starts
  <2> QED BY <2>1, <1>1 DEF Starts
<1>3. Len(s) <= Len(t \o v)
  BY <1>1 DEF Starts
<1> QED BY <1>2, <1>3 DEF Starts

\* What a node shows begins with what its first child shows.
LEMMA InOrderStarts ==
  ASSUME NEW n \in Node, Sound(n), ~n.leaf, NEW shown,
         \A i \in 1..Len(n.kids) : shown[n.kids[i]] \in Seq(Entry),
         NEW s \in Seq(Entry), Starts(s, shown[n.kids[1]])
  PROVE  Starts(s, InOrder(n, shown))
<1> DEFINE N == Len(n.kids)
           last(i) == IF i <= Len(n.ents) THEN <<n.ents[i]>> ELSE <<>>
<1>1. /\ N \in Nat /\ N >= 1 /\ Len(n.ents) \in Nat
      /\ \A i \in 1..Len(n.ents) : n.ents[i] \in Entry
  BY NodeProps, EntryKeys DEF Sound
<1>2. PICK u \in [0..N -> Seq(Entry)] : Between(n, shown, u) /\ InOrder(n, shown) = u[N]
  BY InOrderIs
<1>3. /\ u[0] = <<>>
      /\ \A i \in 1..N : u[i] = u[i - 1] \o shown[n.kids[i]] \o last(i)
  BY <1>2 DEF Between
<1>4. ASSUME NEW i \in 1..N PROVE last(i) \in Seq(Entry)
  <2>1. i <= Len(n.ents) => n.ents[i] \in Entry
    BY <1>1
  <2> QED BY <2>1
<1> HIDE DEF last
<1> DEFINE S == {i \in Nat : i < N => Starts(s, u[i + 1])}
<1>5. 0 \in S
  <2>1. 1 \in 1..N /\ 0 + 1 = 1 /\ 1 - 1 = 0
    BY <1>1
  <2>2. shown[n.kids[1]] \in Seq(Entry) /\ last(1) \in Seq(Entry)
    BY <2>1, <1>4
  <2>3. u[1] = <<>> \o shown[n.kids[1]] \o last(1)
    BY <2>1, <1>3
  <2>4. <<>> \o shown[n.kids[1]] = shown[n.kids[1]]
    BY <2>2, ConcatEmptySeq
  <2>5. Starts(s, shown[n.kids[1]] \o last(1))
    BY <2>2, StartsConcat
  <2> QED BY <2>1, <2>3, <2>4, <2>5
<1>6. ASSUME NEW i \in S PROVE i + 1 \in S
  <2> SUFFICES ASSUME i + 1 < N PROVE Starts(s, u[(i + 1) + 1])
    OBVIOUS
  <2> DEFINE j == i + 1
  <2>1. /\ i \in Nat /\ j + 1 \in 1..N /\ (j + 1) - 1 = j /\ j \in 0..N
        /\ Starts(s, u[j])
    BY <1>1
  <2> HIDE DEF j, N, S
  <2>2. /\ u[j] \in Seq(Entry) /\ shown[n.kids[j + 1]] \in Seq(Entry)
        /\ last(j + 1) \in Seq(Entry)
    BY <2>1, <1>2, <1>4 DEF N
  <2>3. Starts(s, u[j] \o shown[n.kids[j + 1]]) /\ u[j] \o shown[n.kids[j + 1]] \in Seq(Entry)
    BY <2>1, <2>2, StartsConcat, ConcatProperties
  <2>4. Starts(s, (u[j] \o shown[n.kids[j + 1]]) \o last(j + 1))
    BY <2>2, <2>3, StartsConcat
  <2> QED BY <2>1, <2>4, <1>3 DEF j
<1>7. S = Nat
  <2> HIDE DEF S
  <2>1. S \in SUBSET Nat
    BY DEF S
  <2> QED BY <1>5, <1>6, <2>1, NatInd
<1>8. N - 1 \in Nat /\ N - 1 < N /\ (N - 1) + 1 = N
  BY <1>1
<1>9. Starts(s, u[N])
  <2>1. N - 1 \in S
    BY <1>7, <1>8
  <2> HIDE DEF N
  <2> QED BY <2>1, <1>8
<1> QED BY <1>2, <1>9

\* A reader gets the entries of page 0 first.
LEMMA TraversalStarts ==
  ASSUME NEW h \in [Page -> Nat], Above(h), CurFacts, NEW T \in SUBSET Page, NEW r,
         Leftmost(Cur, r, T), NEW f, Traversal(f)
  PROVE  Starts(Cur[0].ents, f[r])
<1>0. Cur \in [Page -> Node] /\ h \in [Page -> Nat]
  BY DEF CurFacts
<1>1. f \in [Page -> Seq(Entry)] /\ \A p \in Page : f[p] = InOrder(Cur[p], f)
  BY DEF Traversal
<1>2. PICK P \in SUBSET T :
        /\ 0 \in P /\ r \in P
        /\ \A p \in P : IF Cur[p].leaf THEN p = 0 ELSE Cur[p].kids[1] \in P
  BY DEF Leftmost
<1> DEFINE s == Cur[0].ents
           S == {p \in Page : p \in P => Starts(s, f[p])}
<1>3. s \in Seq(Entry)
  BY <1>0, <1>2, NodeProps
<1>4. ASSUME NEW p \in Page, \A x \in Page : h[x] < h[p] => x \in S
      PROVE  p \in S
  <2> SUFFICES ASSUME p \in P PROVE Starts(s, f[p])
    OBVIOUS
  <2>1. Cur[p] \in Node /\ Sound(Cur[p]) /\ f[p] = InOrder(Cur[p], f)
    BY <1>1 DEF CurFacts
  <2>2. \A i \in 1..Len(Cur[p].kids) :
          /\ Cur[p].kids[i] \in Page /\ h[Cur[p].kids[i]] < h[p]
          /\ f[Cur[p].kids[i]] \in Seq(Entry)
    BY <1>1 DEF Above
  <2>3. CASE Cur[p].leaf
    <3>1. p = 0 /\ f[p] = Cur[p].ents
      BY <2>1, <2>2, <2>3, <1>2, InOrderIs
    <3>2. Starts(s, s)
      BY <1>3 DEF Starts
    <3> QED BY <3>1, <3>2
  <2>4. CASE ~Cur[p].leaf
    <3>1. Cur[p].kids[1] \in P /\ 1 \in 1..Len(Cur[p].kids)
      <4>1. Len(Cur[p].ents) \in Nat
        BY <2>1, NodeProps
      <4> QED BY <4>1, <2>1, <2>4, <1>2 DEF Sound
    <3>2. Starts(s, f[Cur[p].kids[1]])
      BY <3>1, <2>2, <1>4
    <3> HIDE DEF s
    <3> QED BY <3>2, <2>1, <2>2, <2>4, <1>3, InOrderStarts
  <2> QED BY <2>3, <2>4
<1>5. Page \subseteq S
  <2> HIDE DEF S
  <2>1. Inherited(Page, S, h)
    BY <1>0, <1>4 DEF Inherited
  <2> QED BY <2>1, RankInd
<1> QED BY <1>2, <1>5

\* A sequence with ascending keys has as many entries as positions.
LEMMA Distinct ==
  ASSUME NEW s \in Seq(Entry), Ascending(1, s)
  PROVE  /\ IsFiniteSet(ToSet(s)) /\ Cardinality(ToSet(s)) = Len(s)
         /\ Len(s) \in Nat /\ DOMAIN s = 1..Len(s)
         /\ \A i, j \in 1..Len(s) : i < j => s[i].key < s[j].key
         /\ \A i \in 1..Len(s) : s[i] \in Entry /\ s[i].key \in Int
<1>1. /\ Len(s) \in Nat /\ DOMAIN s = 1..Len(s)
      /\ \A i \in 1..Len(s) : s[i] \in Entry /\ s[i].key \in Int
  <2>1. Len(s) \in Nat /\ DOMAIN s = 1..Len(s) /\ \A i \in 1..Len(s) : s[i] \in Entry
    BY ElementOfSeq
  <2>2. \A x \in Entry : x.key \in Int
    BY KeyAssumption DEF Entry
  <2> QED BY <2>1, <2>2
<1>2. \A i, j \in 1..Len(s) : i < j => s[i].key < s[j].key
  <2> SUFFICES ASSUME NEW i \in 1..Len(s), NEW j \in 1..Len(s), i < j
               PROVE  s[i].key < s[j].key
    OBVIOUS
  <2>1. s[i].key + 1 <= s[j].key /\ s[i].key \in Int /\ s[j].key \in Int
    BY <1>1 DEF Ascending
  <2> QED BY <2>1
<1>3. \A i, j \in 1..Len(s) : s[i] = s[j] => i = j
  <2> SUFFICES ASSUME NEW i \in 1..Len(s), NEW j \in 1..Len(s), i # j
               PROVE  s[i] # s[j]
    OBVIOUS
  <2>1. i < j \/ j < i
    BY <1>1
  <2>2. s[i].key < s[j].key \/ s[j].key < s[i].key
    BY <2>1, <1>2
  <2>3. s[i].key # s[j].key
    BY <2>2, <1>1
  <2> QED BY <2>3
<1>4. ToSet(s) = {s[i] : i \in 1..Len(s)}
  BY ToSetIs
<1>5. s \in [1..Len(s) -> ToSet(s)]
  <2>1. \A i \in 1..Len(s) : s[i] \in ToSet(s)
    BY <1>4
  <2>2. s = [i \in 1..Len(s) |-> s[i]]
    OBVIOUS
  <2> QED BY <2>1, <2>2
<1>6. s \in Surjection(1..Len(s), ToSet(s))
  BY <1>4, <1>5 DEF Surjection
<1>7. s \in Injection(1..Len(s), ToSet(s))
  BY <1>1, <1>3, <1>5 DEF Injection, IsInjective
<1>8. IsFiniteSet(1..Len(s)) /\ Cardinality(1..Len(s)) = Len(s)
  <2>1. 1 \in Int /\ Len(s) \in Int
    BY <1>1
  <2>2. IsFiniteSet(1..Len(s)) /\ Cardinality(1..Len(s)) = IF 1 > Len(s) THEN 0 ELSE Len(s) - 1 + 1
    BY <2>1, FS_Interval
  <2> QED BY <2>2, <1>1
<1> QED BY <1>1, <1>2, <1>6, <1>7, <1>8, FS_Surjection

\* KeyStore counts with the same operator.
LEMMA SameCardinality == \A S : Contract!Cardinality(S) = Cardinality(S)
BY DEF Contract!Cardinality, Cardinality

\* The first entries of a sequence with ascending keys have the least keys.
LEMMA StartsLeast ==
  ASSUME NEW s \in Seq(Entry), NEW t \in Seq(Entry), Ascending(1, t), Starts(s, t),
         Ascending(1, s)
  PROVE  ToSet(s) \in Contract!Least(ToSet(t), Len(s))
<1>1. /\ Len(t) \in Nat /\ Len(s) \in Nat /\ Len(s) <= Len(t)
      /\ \A i \in 1..Len(s) : i \in 1..Len(t) /\ t[i] = s[i]
      /\ \A i, j \in 1..Len(t) : i < j => t[i].key < t[j].key
      /\ Cardinality(ToSet(s)) = Len(s)
  BY Distinct DEF Starts
<1>2. ToSet(s) \subseteq ToSet(t)
  <2> SUFFICES ASSUME NEW x \in ToSet(s) PROVE x \in ToSet(t)
    OBVIOUS
  <2>1. PICK i \in 1..Len(s) : s[i] = x
    BY ToSetIs
  <2> QED BY <2>1, <1>1, ToSetIs
<1>3. ASSUME NEW e \in ToSet(s), NEW x \in ToSet(t) \ ToSet(s)
      PROVE  e.key < x.key
  <2>1. PICK i \in 1..Len(s) : s[i] = e
    BY ToSetIs
  <2>2. PICK j \in 1..Len(t) : t[j] = x
    BY ToSetIs
  <2>3. j \notin 1..Len(s)
    <3> SUFFICES ASSUME j \in 1..Len(s) PROVE FALSE
      OBVIOUS
    <3>1. s[j] = x
      BY <2>2, <1>1
    <3> QED BY <3>1, ToSetIs
  <2>4. i < j /\ i \in 1..Len(t) /\ t[i] = e
    BY <2>1, <2>3, <1>1
  <2> QED BY <2>2, <2>4, <1>1
<1> QED BY <1>1, <1>2, <1>3, SameCardinality DEF Contract!Least

\* Page 0 is a leaf, whether a write is due for it or not.
ZeroFact ==
  /\ Cur[0].leaf
  /\ NoneDue(0) => Cur[0] = disk[0]

\* In every state page 0 is a leaf.
LEMMA ZeroIs == IInv => ZeroFact
<1> SUFFICES ASSUME IInv PROVE ZeroFact
  OBVIOUS
<1>1. CurFacts /\ 0 \in Page
  BY CurIs DEF Page
<1>2. /\ 0 \in DOMAIN disk /\ disk[0].leaf /\ disk[0] # ZeroPage /\ Sound(disk[0])
      /\ disk[0] \in Node
  BY DEF IInv, TypeOK, PagesFit, PageZeroDue, Written, PageZeroIsLeaf
<1>3. ReadPage(disk, 0) = disk[0]
  BY <1>2, LoadSound DEF ReadPage
<1>4. NoneDue(0) => Cur[0] = disk[0]
  BY <1>1, <1>3 DEF CurFacts
<1>5. CASE ~NoneDue(0)
  <2>1. PICK i : LastDue(i) /\ writes[i].page = 0
    BY <1>1, <1>5 DEF CurFacts
  <2>2. Cur[0] = writes[i].node /\ i \in DOMAIN writes
    BY <2>1, <1>1 DEF CurFacts, LastDue
  <2>3. Cur[0].leaf
    BY <2>1, <2>2 DEF IInv, PageZeroDue
  <2> QED BY <2>3, <1>5 DEF ZeroFact
<1> QED BY <1>2, <1>4, <1>5 DEF ZeroFact

\* What page 0 has of the store.
LEMMA PageZeroFirst ==
  ASSUME IInv, NEW T, NEW h, NEW R, Tree(1, T, h, R), Leftmost(Cur, root_page_id, T)
  PROVE  /\ IsFiniteSet(Stored) /\ Cardinality(Stored) \in Nat /\ Stored \subseteq Entry
         /\ ToSet(Cur[0].ents) \in Contract!Least(Stored, Len(Cur[0].ents))
         /\ Cur[0].leaf /\ Cur[0] \in Node /\ 0 \in T
         /\ Len(Cur[0].ents) \in Nat /\ Len(Cur[0].ents) <= MaxKeys
         /\ Cardinality(ToSet(Cur[0].ents)) = Len(Cur[0].ents)
         /\ root_page_id # 0 => Len(Cur[0].ents) >= Degree - 1
         /\ root_page_id = 0 => Stored = ToSet(Cur[0].ents)
<1>1. /\ T \in SUBSET Page /\ h \in [Page -> Nat] /\ Shape(Cur, root_page_id, T, h)
      /\ Keyed(1, Cur, root_page_id, T, R) /\ root_page_id \in Page
  BY TreeTyped DEF Shape
<1>2. Above(h) /\ CurFacts /\ Cur \in [Page -> Node]
  BY TreeAbove, CurIs DEF CurFacts
<1>3. PICK f : Traversal(f) /\ Values(Overlay, root_page_id) = f[root_page_id]
  BY <1>1, <1>2, ValuesIs
<1>4. f \in [Page -> Seq(Entry)] /\ \A p \in Page : f[p] = InOrder(Cur[p], f)
  BY <1>3 DEF Traversal
<1> DEFINE t == f[root_page_id]
           s == Cur[0].ents
<1>5. t \in Seq(Entry) /\ Ascending(1, t)
  <2>1. 1 \in Nat
    OBVIOUS
  <2>2. Ascending(1, Values(Overlay, root_page_id))
    BY <2>1, ValuesAscend
  <2> QED BY <2>2, <1>1, <1>3, <1>4
<1>6. Stored = ToSet(t)
  BY <1>3, StoredIs DEF StoredFact
<1>7. 0 \in T /\ 0 \in Page
  BY <1>1 DEF Leftmost
<1>8. Cur[0] \in Node /\ Sound(Cur[0])
  BY <1>2, <1>7 DEF CurFacts
<1>9. Cur[0].leaf
  BY ZeroIs DEF ZeroFact
<1>10. s \in Seq(Entry) /\ Ascending(1, s) /\ Len(s) \in Nat /\ Len(s) <= MaxKeys
  BY <1>1, <1>7, <1>8, NodeProps DEF Keyed, Sound
<1>11. Starts(s, t)
  BY <1>1, <1>2, <1>3, TraversalStarts
<1>12. root_page_id # 0 => Len(s) >= Degree - 1
  BY <1>1, <1>7 DEF Shape, HalfFull
<1>13. root_page_id = 0 => t = s
  <2>1. f[0] = InOrder(Cur[0], f) /\ \A i \in 1..Len(Cur[0].kids) : f[Cur[0].kids[i]] \in Seq(Entry)
    BY <1>2, <1>4, <1>7 DEF Above
  <2>2. InOrder(Cur[0], f) = Cur[0].ents
    BY <2>1, <1>8, <1>9, InOrderIs
  <2> QED BY <2>1, <2>2
<1> HIDE DEF s, t
<1>14. ToSet(s) \in Contract!Least(ToSet(t), Len(s))
  BY <1>5, <1>10, <1>11, StartsLeast
<1>15. /\ IsFiniteSet(ToSet(t)) /\ Cardinality(ToSet(t)) \in Nat /\ ToSet(t) \subseteq Entry
       /\ Cardinality(ToSet(s)) = Len(s)
  BY <1>5, <1>10, Distinct, ToSetIs
<1> QED BY <1>6, <1>7, <1>8, <1>9, <1>10, <1>12, <1>13, <1>14, <1>15 DEF s

\* P is what KeyStore allows a new process to find of the store S, where a says
\* whether an insert was running.
Leaves(P, S, a) ==
  \/ P \in Contract!Kept(S)
  \/ /\ a
     /\ Cardinality(S) = MaxKeys
     /\ P \in Contract!Least(S, Degree - 1)

\* A tree of several pages holds more than a node can, except between the split
\* of a full root and the placing of the entry it was split for.
Grown ==
  root_page_id # 0 => \/ Cardinality(Stored) > MaxKeys
                      \/ /\ todo # {}
                         /\ Cardinality(Stored) = MaxKeys
                         /\ Len(Cur[0].ents) = Degree - 1

\* What page 0 has once the writes are made is what a new process may find.
LEMMA PageZeroLeaves ==
  ASSUME IInv, NEW T, NEW h, NEW R, Tree(1, T, h, R), Leftmost(Cur, root_page_id, T), Grown
  PROVE  Leaves(ToSet(Cur[0].ents), Stored, todo # {})
<1>1. /\ Cardinality(Stored) \in Nat
      /\ ToSet(Cur[0].ents) \in Contract!Least(Stored, Len(Cur[0].ents))
      /\ Len(Cur[0].ents) \in Nat /\ Len(Cur[0].ents) <= MaxKeys
      /\ Cardinality(ToSet(Cur[0].ents)) = Len(Cur[0].ents)
      /\ root_page_id # 0 => Len(Cur[0].ents) >= Degree - 1
      /\ root_page_id = 0 => Stored = ToSet(Cur[0].ents)
  BY PageZeroFirst
<1>2. Degree \in Nat /\ Degree >= 2 /\ MaxKeys = Contract!Capacity /\ MaxKeys \in Nat
  BY MaxKeysProps DEF MaxKeys, Contract!Capacity
<1>3. CASE root_page_id = 0
  <2>1. Stored = ToSet(Cur[0].ents) /\ Cardinality(Stored) <= Contract!Capacity
    BY <1>1, <1>2, <1>3
  <2> QED BY <2>1, SameCardinality DEF Leaves, Contract!Kept
<1>4. CASE root_page_id # 0 /\ Cardinality(Stored) > MaxKeys
  <2>1. ~(Cardinality(Stored) <= Contract!Capacity)
    BY <1>1, <1>2, <1>4
  <2>2. Len(Cur[0].ents) \in Degree - 1..Contract!Capacity
    BY <1>1, <1>2, <1>4
  <2> QED BY <1>1, <2>1, <2>2, SameCardinality DEF Leaves, Contract!Kept
<1>5. CASE root_page_id # 0 /\ ~(Cardinality(Stored) > MaxKeys)
  <2>1. todo # {} /\ Cardinality(Stored) = MaxKeys /\ Len(Cur[0].ents) = Degree - 1
    BY <1>5 DEF Grown
  <2>2. ToSet(Cur[0].ents) \in Contract!Least(Stored, Degree - 1)
    BY <1>1, <2>1
  <2> QED BY <2>1, <2>2 DEF Leaves
<1> QED BY <1>3, <1>4, <1>5

-----------------------------------------------------------------------------
(* What the steps of an insert do to the entries and to the leftmost leaf.    *)

\* Splitting a child moves entries between pages and loses none.
LEMMA SplitItems ==
  ASSUME NEW c \in [Page -> Node], NEW T \in SUBSET Page, NEW p, NEW i, NEW q, NEW kid, NEW c2,
         Divided(c, T, p, i, q, kid, c2), kid # p
  PROVE  Items(c2, T \cup {q}) = Items(c, T)
<1> DEFINE m == c[kid].ents[Degree]
<1>1. /\ p \in T /\ kid \in T /\ q \in Page /\ q \notin T /\ kid # p
      /\ i \in 1..Len(c[p].ents) + 1
      /\ Len(c[kid].ents) = MaxKeys
      /\ c2 \in [Page -> Node]
  BY DEF Divided, IsSplit, HasRoom, Kid, Full
<1>2. /\ \A x \in Page \ {kid, q, p} : c2[x] = c[x]
      /\ Len(c2[kid].ents) = Degree - 1
      /\ \A k \in 1..Degree - 1 : c2[kid].ents[k] = c[kid].ents[k]
      /\ Len(c2[q].ents) = Degree - 1
      /\ \A k \in 1..Degree - 1 : c2[q].ents[k] = c[kid].ents[Degree + k]
      /\ Len(c2[p].ents) = Len(c[p].ents) + 1
      /\ \A k \in 1..Len(c[p].ents) + 1 :
           c2[p].ents[k] = IF k < i THEN c[p].ents[k] ELSE IF k = i THEN m ELSE c[p].ents[k - 1]
  BY DEF Divided, IsSplit
<1>3. Degree \in Nat /\ Degree >= 2 /\ MaxKeys = 2 * Degree - 1
  BY MaxKeysProps DEF MaxKeys
<1>4. /\ c[kid].ents \in Seq(Entry) /\ c[p].ents \in Seq(Entry) /\ Len(c[p].ents) \in Nat
      /\ c2[kid].ents \in Seq(Entry) /\ c2[q].ents \in Seq(Entry) /\ c2[p].ents \in Seq(Entry)
  BY <1>1, NodeProps
<1> HIDE DEF m
<1>5. m = c[kid].ents[Degree] /\ Degree \in 1..Len(c[kid].ents)
  BY <1>1, <1>3 DEF m
<1>6. ASSUME NEW x
      PROVE  x \in ToSet(c[kid].ents) <=>
               x \in ToSet(c2[kid].ents) \/ x \in ToSet(c2[q].ents) \/ x = m
  <2>1. ASSUME x \in ToSet(c[kid].ents)
        PROVE  x \in ToSet(c2[kid].ents) \/ x \in ToSet(c2[q].ents) \/ x = m
    <3>1. PICK k \in 1..Len(c[kid].ents) : c[kid].ents[k] = x
      BY <2>1, <1>4, ToSetIs
    <3>2. CASE k < Degree
      <4>1. k \in 1..Degree - 1 /\ k \in 1..Len(c2[kid].ents)
        BY <3>2, <1>2, <1>3
      <4>2. c2[kid].ents[k] = x
        BY <3>1, <4>1, <1>2
      <4> QED BY <4>1, <4>2, <1>4, ToSetIs
    <3>3. CASE k = Degree
      BY <3>1, <3>3, <1>5
    <3>4. CASE k > Degree
      <4>1. k - Degree \in 1..Degree - 1 /\ Degree + (k - Degree) = k
        BY <3>4, <1>1, <1>3
      <4>2. k - Degree \in 1..Len(c2[q].ents) /\ c2[q].ents[k - Degree] = x
        BY <3>1, <4>1, <1>2
      <4> QED BY <4>2, <1>4, ToSetIs
    <3> QED BY <3>2, <3>3, <3>4, <1>3
  <2>2. ASSUME x \in ToSet(c2[kid].ents) PROVE x \in ToSet(c[kid].ents)
    <3>0. PICK k \in 1..Len(c2[kid].ents) : c2[kid].ents[k] = x
      BY <2>2, <1>4, ToSetIs
    <3>1. k \in 1..Degree - 1
      BY <1>2
    <3>2. k \in 1..Len(c[kid].ents) /\ c[kid].ents[k] = x
      BY <3>0, <3>1, <1>1, <1>2, <1>3
    <3> QED BY <3>2, <1>4, ToSetIs
  <2>3. ASSUME x \in ToSet(c2[q].ents) PROVE x \in ToSet(c[kid].ents)
    <3>0. PICK k \in 1..Len(c2[q].ents) : c2[q].ents[k] = x
      BY <2>3, <1>4, ToSetIs
    <3>1. k \in 1..Degree - 1
      BY <1>2
    <3>2. Degree + k \in 1..Len(c[kid].ents) /\ c[kid].ents[Degree + k] = x
      BY <3>0, <3>1, <1>1, <1>2, <1>3
    <3> QED BY <3>2, <1>4, ToSetIs
  <2>4. m \in ToSet(c[kid].ents)
    BY <1>4, <1>5, ToSetIs
  <2> QED BY <2>1, <2>2, <2>3, <2>4
<1>7. ASSUME NEW x
      PROVE  x \in ToSet(c2[p].ents) <=> x \in ToSet(c[p].ents) \/ x = m
  <2>1. ASSUME x \in ToSet(c2[p].ents) PROVE x \in ToSet(c[p].ents) \/ x = m
    <3>0. PICK k \in 1..Len(c2[p].ents) : c2[p].ents[k] = x
      BY <2>1, <1>4, ToSetIs
    <3>1. k \in 1..Len(c[p].ents) + 1 /\ c2[p].ents[k] = x
      BY <3>0, <1>2
    <3>2. CASE k < i
      <4>1. k \in 1..Len(c[p].ents) /\ c[p].ents[k] = x
        BY <3>1, <3>2, <1>1, <1>2, <1>4
      <4> QED BY <4>1, <1>4, ToSetIs
    <3>3. CASE k = i
      <4>1. ~(k < i)
        BY <3>3, <1>1, <1>4
      <4> QED BY <3>1, <3>3, <4>1, <1>2
    <3>4. CASE k > i
      <4>1. k - 1 \in 1..Len(c[p].ents) /\ ~(k < i) /\ k # i
        BY <3>1, <3>4, <1>1, <1>4
      <4>2. c[p].ents[k - 1] = x
        BY <3>1, <4>1, <1>2
      <4> QED BY <4>1, <4>2, <1>4, ToSetIs
    <3> QED BY <3>2, <3>3, <3>4, <1>1, <1>4
  <2>2. ASSUME x \in ToSet(c[p].ents) PROVE x \in ToSet(c2[p].ents)
    <3>1. PICK k \in 1..Len(c[p].ents) : c[p].ents[k] = x
      BY <2>2, <1>4, ToSetIs
    <3>2. CASE k < i
      <4>1. k \in 1..Len(c[p].ents) + 1 /\ c2[p].ents[k] = x
        BY <3>1, <3>2, <1>2, <1>4
      <4> QED BY <4>1, <1>2, <1>4, ToSetIs
    <3>3. CASE ~(k < i)
      <4>1. /\ k + 1 \in 1..Len(c[p].ents) + 1 /\ ~(k + 1 < i) /\ k + 1 # i
            /\ (k + 1) - 1 = k
        BY <3>1, <3>3, <1>1, <1>4
      <4>2. c2[p].ents[k + 1] = x
        BY <3>1, <4>1, <1>2
      <4> QED BY <4>1, <4>2, <1>2, <1>4, ToSetIs
    <3> QED BY <3>2, <3>3
  <2>3. m \in ToSet(c2[p].ents)
    <3>1. c2[p].ents[i] = m /\ i \in 1..Len(c2[p].ents)
      <4>1. ~(i < i)
        BY <1>1, <1>4
      <4> QED BY <4>1, <1>1, <1>2
    <3> QED BY <3>1, <1>4, ToSetIs
  <2> QED BY <2>1, <2>2, <2>3
<1>8. \A z \in T : z # kid /\ z # p => c2[z] = c[z]
  BY <1>1, <1>2
<1>9. ASSUME NEW x
      PROVE  (\E z \in T \cup {q} : x \in ToSet(c2[z].ents)) <=>
               \E z \in T : x \in ToSet(c[z].ents)
  <2>1. ASSUME NEW z \in T \cup {q}, x \in ToSet(c2[z].ents)
        PROVE  \E y \in T : x \in ToSet(c[y].ents)
    <3>1. CASE z = q \/ z = kid
      <4>1. x \in ToSet(c[kid].ents)
        BY <2>1, <3>1, <1>6
      <4> QED BY <4>1, <1>1
    <3>2. CASE z = p
      <4>1. x \in ToSet(c[p].ents) \/ x \in ToSet(c[kid].ents)
        BY <2>1, <3>2, <1>6, <1>7
      <4> QED BY <4>1, <1>1
    <3>3. CASE z # q /\ z # kid /\ z # p
      <4>1. z \in T /\ c2[z] = c[z]
        BY <3>3, <1>8
      <4> QED BY <2>1, <4>1
    <3> QED BY <3>1, <3>2, <3>3
  <2>2. ASSUME NEW z \in T, x \in ToSet(c[z].ents)
        PROVE  \E y \in T \cup {q} : x \in ToSet(c2[y].ents)
    <3>1. CASE z = kid
      <4>1. x \in ToSet(c2[kid].ents) \/ x \in ToSet(c2[q].ents) \/ x \in ToSet(c2[p].ents)
        BY <2>2, <3>1, <1>6, <1>7
      <4> QED BY <4>1, <1>1
    <3>2. CASE z = p
      <4>1. x \in ToSet(c2[p].ents)
        BY <2>2, <3>2, <1>7
      <4> QED BY <4>1, <1>1
    <3>3. CASE z # kid /\ z # p
      <4>1. c2[z] = c[z]
        BY <3>3, <1>8
      <4> QED BY <2>2, <4>1
    <3> QED BY <3>1, <3>2, <3>3
  <2> QED BY <2>1, <2>2
<1> QED BY <1>9 DEF Items

\* Splitting a child leaves the leftmost leaf where it is.
LEMMA SplitLeftmost ==
  ASSUME NEW c \in [Page -> Node], NEW T \in SUBSET Page, NEW p, NEW i, NEW q, NEW kid, NEW c2,
         Divided(c, T, p, i, q, kid, c2), kid # p, NEW r, Leftmost(c, r, T)
  PROVE  Leftmost(c2, r, T \cup {q})
<1>1. /\ p \in T /\ kid \in T /\ q \in Page /\ q \notin T /\ kid # p
      /\ i \in 1..Len(c[p].kids) /\ ~c[p].leaf /\ ~c2[p].leaf
      /\ Len(c[p].kids) \in Nat
      /\ \A x \in Page \ {kid, q, p} : c2[x] = c[x]
      /\ c2[kid].leaf = c[kid].leaf
      /\ ~c[kid].leaf => \A k \in 1..Degree : c2[kid].kids[k] = c[kid].kids[k]
      /\ \A k \in 1..Len(c[p].kids) + 1 :
           c2[p].kids[k] = IF k < i + 1 THEN c[p].kids[k]
                           ELSE IF k = i + 1 THEN q ELSE c[p].kids[k - 1]
  BY NodeProps DEF Divided, IsSplit, HasRoom, Kid
<1>2. 1 \in 1..Degree
  BY MaxKeysProps
<1>3. 1 \in 1..Len(c[p].kids) + 1 /\ 1 < i + 1
  BY <1>1
<1>4. c2[p].kids[1] = c[p].kids[1]
  BY <1>1, <1>3
<1>5. PICK P \in SUBSET T :
        /\ 0 \in P /\ r \in P
        /\ \A x \in P : IF c[x].leaf THEN x = 0 ELSE c[x].kids[1] \in P
  BY DEF Leftmost
<1>6. ASSUME NEW x \in P PROVE IF c2[x].leaf THEN x = 0 ELSE c2[x].kids[1] \in P
  <2>1. CASE x = kid
    BY <2>1, <1>1, <1>2, <1>5
  <2>2. CASE x = p
    BY <2>2, <1>1, <1>4, <1>5
  <2>3. CASE x # kid /\ x # p
    <3>1. c2[x] = c[x]
      BY <2>3, <1>1
    <3> QED BY <3>1, <1>5
  <2> QED BY <2>1, <2>2, <2>3
<1> QED BY <1>5, <1>6 DEF Leftmost

\* The new root has no entry yet and the old one as its first child.
LEMMA GrowItems ==
  ASSUME NEW c \in [Page -> Node], NEW T \in SUBSET Page, NEW r \in T, NEW nr \in Page \ T
  PROVE  LET d == [c EXCEPT ![nr] = NewRoot(r)]
         IN /\ d \in [Page -> Node] /\ d[r] = c[r]
            /\ Items(d, T \cup {nr}) = Items(c, T)
            /\ Leftmost(c, r, T) => Leftmost(d, nr, T \cup {nr})
<1> DEFINE d == [c EXCEPT ![nr] = NewRoot(r)]
<1>1. /\ NewRoot(r) \in Node /\ ~NewRoot(r).leaf /\ Len(NewRoot(r).ents) = 0
      /\ NewRoot(r).kids[1] = r
  BY NewRootProps
<1>2. d \in [Page -> Node] /\ d[nr] = NewRoot(r) /\ \A x \in T : d[x] = c[x]
  BY <1>1
<1>3. \A x : x \notin ToSet(d[nr].ents)
  <2>1. d[nr].ents \in Seq(Entry) /\ \A k : k \notin 1..Len(d[nr].ents)
    BY <1>1, <1>2, NodeProps
  <2> QED BY <2>1, ToSetIs
<1> HIDE DEF d
<1>4. Items(d, T \cup {nr}) = Items(c, T)
  BY <1>2, <1>3 DEF Items
<1>5. ASSUME Leftmost(c, r, T) PROVE Leftmost(d, nr, T \cup {nr})
  <2>1. PICK P \in SUBSET T :
          /\ 0 \in P /\ r \in P
          /\ \A x \in P : IF c[x].leaf THEN x = 0 ELSE c[x].kids[1] \in P
    BY <1>5 DEF Leftmost
  <2> DEFINE Q == P \cup {nr}
  <2>2. \A x \in Q : IF d[x].leaf THEN x = 0 ELSE d[x].kids[1] \in Q
    BY <1>1, <1>2, <2>1
  <2>3. Q \in SUBSET (T \cup {nr}) /\ 0 \in Q /\ nr \in Q
    BY <2>1
  <2> QED BY <2>2, <2>3 DEF Leftmost
<1> QED BY <1>2, <1>4, <1>5 DEF d

-----------------------------------------------------------------------------
(* The states of an insert against KeyStore's.                               *)

\* A new entry in a leaf is a new entry of the tree, and the leftmost leaf
\* stays where it is.
LEMMA AddItems ==
  ASSUME NEW c \in [Page -> Node], NEW T \in SUBSET Page, NEW p \in T, NEW e \in Entry,
         NEW i \in 1..Len(c[p].ents) + 1, NEW m \in Node,
         m.leaf = c[p].leaf, m.kids = c[p].kids, m.ents = InsertAt(c[p].ents, i, e),
         NEW d, d[p] = m, \A x \in T : x # p => d[x] = c[x]
  PROVE  /\ Items(d, T) = Items(c, T) \cup {e}
         /\ \A r : Leftmost(c, r, T) => Leftmost(d, r, T)
<1>1. /\ c[p].ents \in Seq(Entry) /\ m.ents \in Seq(Entry)
      /\ Len(c[p].ents) \in Nat /\ Len(m.ents) = Len(c[p].ents) + 1
      /\ \A k \in 1..Len(c[p].ents) + 1 :
           m.ents[k] = IF k < i THEN c[p].ents[k]
                       ELSE IF k = i THEN e ELSE c[p].ents[k - 1]
  <2>1. c[p].ents \in Seq(Entry) /\ m.ents \in Seq(Entry) /\ Len(c[p].ents) \in Nat
    BY NodeProps
  <2>2. Len(InsertAt(c[p].ents, i, e)) = Len(c[p].ents) + 1
    BY <2>1, InsertAtProps
  <2>3. \A k \in 1..Len(c[p].ents) + 1 :
          InsertAt(c[p].ents, i, e)[k] = IF k < i THEN c[p].ents[k]
                                         ELSE IF k = i THEN e ELSE c[p].ents[k - 1]
    BY <2>1, InsertAtIs
  <2> QED BY <2>1, <2>2, <2>3
<1>2. ASSUME NEW x
      PROVE  x \in ToSet(m.ents) <=> x \in ToSet(c[p].ents) \/ x = e
  <2>1. ASSUME x \in ToSet(m.ents) PROVE x \in ToSet(c[p].ents) \/ x = e
    <3>1. PICK k \in 1..Len(m.ents) : m.ents[k] = x
      BY <2>1, <1>1, ToSetIs
    <3>2. CASE k < i
      <4>1. k \in 1..Len(c[p].ents) /\ c[p].ents[k] = x
        BY <3>1, <3>2, <1>1
      <4> QED BY <4>1, <1>1, ToSetIs
    <3>3. CASE k = i
      <4>1. ~(k < i) /\ k \in 1..Len(c[p].ents) + 1
        BY <3>3, <1>1
      <4> QED BY <3>1, <3>3, <4>1, <1>1
    <3>4. CASE k > i
      <4>1. k - 1 \in 1..Len(c[p].ents) /\ ~(k < i) /\ k # i /\ k \in 1..Len(c[p].ents) + 1
        BY <3>1, <3>4, <1>1
      <4>2. c[p].ents[k - 1] = x
        BY <3>1, <4>1, <1>1
      <4> QED BY <4>1, <4>2, <1>1, ToSetIs
    <3> QED BY <3>2, <3>3, <3>4, <1>1
  <2>2. ASSUME x \in ToSet(c[p].ents) PROVE x \in ToSet(m.ents)
    <3>1. PICK k \in 1..Len(c[p].ents) : c[p].ents[k] = x
      BY <2>2, <1>1, ToSetIs
    <3>2. CASE k < i
      <4>1. k \in 1..Len(m.ents) /\ m.ents[k] = x
        BY <3>1, <3>2, <1>1
      <4> QED BY <4>1, <1>1, ToSetIs
    <3>3. CASE ~(k < i)
      <4>1. /\ k + 1 \in 1..Len(m.ents) /\ ~(k + 1 < i) /\ k + 1 # i /\ (k + 1) - 1 = k
        BY <3>1, <3>3, <1>1
      <4>2. m.ents[k + 1] = x
        BY <3>1, <4>1, <1>1
      <4> QED BY <4>1, <4>2, <1>1, ToSetIs
    <3> QED BY <3>2, <3>3
  <2>3. e \in ToSet(m.ents)
    <3>1. ~(i < i) /\ i \in 1..Len(m.ents) /\ i \in 1..Len(c[p].ents) + 1
      BY <1>1
    <3>2. m.ents[i] = e
      BY <3>1, <1>1
    <3> QED BY <3>1, <3>2, <1>1, ToSetIs
  <2> QED BY <2>1, <2>2, <2>3
<1>3. d[p] = m /\ \A x \in T : x # p => d[x] = c[x]
  OBVIOUS
<1>4. Items(d, T) = Items(c, T) \cup {e}
  <2>1. ASSUME NEW x \in Items(d, T) PROVE x \in Items(c, T) \cup {e}
    <3>1. PICK z \in T : x \in ToSet(d[z].ents)
      BY DEF Items
    <3>2. CASE z = p
      BY <3>1, <3>2, <1>2, <1>3 DEF Items
    <3>3. CASE z # p
      BY <3>1, <3>3, <1>3 DEF Items
    <3> QED BY <3>2, <3>3
  <2>2. ASSUME NEW x \in Items(c, T) PROVE x \in Items(d, T)
    <3>1. PICK z \in T : x \in ToSet(c[z].ents)
      BY DEF Items
    <3>2. CASE z = p
      BY <3>1, <3>2, <1>2, <1>3 DEF Items
    <3>3. CASE z # p
      BY <3>1, <3>3, <1>3 DEF Items
    <3> QED BY <3>2, <3>3
  <2>3. e \in Items(d, T)
    BY <1>2, <1>3 DEF Items
  <2> QED BY <2>1, <2>2, <2>3
<1>5. \A r : Leftmost(c, r, T) => Leftmost(d, r, T)
  <2> SUFFICES ASSUME NEW r, Leftmost(c, r, T) PROVE Leftmost(d, r, T)
    OBVIOUS
  <2>1. PICK P \in SUBSET T :
          /\ 0 \in P /\ r \in P
          /\ \A x \in P : IF c[x].leaf THEN x = 0 ELSE c[x].kids[1] \in P
    BY DEF Leftmost
  <2>2. \A x \in P : d[x].leaf = c[x].leaf /\ d[x].kids = c[x].kids
    BY <1>3, <2>1
  <2> QED BY <2>1, <2>2 DEF Leftmost
<1> QED BY <1>4, <1>5

\* With no write due readers find the whole store.
QuietFact == writes = <<>> => /\ Overlay = disk
                              /\ Stored = ToSet(AllValues)
                              /\ Cur[0] = disk[0]

\* In every state without due writes readers find the store.
LEMMA QuietIs == IInv => QuietFact
<1> SUFFICES ASSUME IInv, writes = <<>> 
             PROVE  Overlay = disk /\ Stored = ToSet(AllValues) /\ Cur[0] = disk[0]
  BY DEF QuietFact
<1>1. DOMAIN writes = {} /\ disk \in [0..pages - 1 -> Node]
  BY DEF IInv, TypeOK
<1>2. Overlay = disk
  <2>1. DOMAIN disk \cup {writes[i].page : i \in DOMAIN writes} = DOMAIN disk
    BY <1>1
  <2>2. \A p : {i \in DOMAIN writes : writes[i].page = p} = {}
    BY <1>1
  <2>3. Overlay = [p \in DOMAIN disk |-> disk[p]]
    BY <2>1, <2>2 DEF Overlay
  <2> QED BY <2>3, <1>1
<1>3. Stored = ToSet(Values(disk, root_page_id))
  BY <1>2 DEF Stored
<1>4. NoneDue(0)
  BY <1>1 DEF NoneDue
<1> QED BY <1>2, <1>3, <1>4, ZeroIs DEF AllValues, ZeroFact

\* The tree of a state, with page 0 as its leftmost leaf.
Rooted(T) == \E h, R : Tree(1, T, h, R) /\ Leftmost(Cur, root_page_id, T)

\* The state has such a tree.
Home == \E T : Rooted(T)

\* While an insert has its entry still to place, a new process finds what
\* KeyStore says.
Reopenable == todo # {} => Leaves(ToSet(disk[0].ents), Stored, TRUE)

\* No entry of the store has key k.
Fresh(k) == \A x \in Stored : x.key # k

\* The key of the running insert is a new one.
NewOnly == \A e \in todo : Fresh(e.key)

\* Between the placing of an entry and its page write, readers find all but
\* that entry.
PlacedLast ==
  todo = {} /\ writes # <<>> =>
    /\ Len(writes) = 1
    /\ \E e \in Entry : /\ \A x \in ToSet(AllValues) : x.key # e.key
                        /\ Stored = ToSet(AllValues) \cup {e}
    /\ Leaves(ToSet(disk[0].ents), ToSet(AllValues), TRUE)

\* The invariant of the refinement.
RInv ==
  /\ Home
  /\ Agreed
  /\ Grown
  /\ Reopenable
  /\ NewOnly
  /\ PlacedLast

\* What page 0 is for the store.
PageZeroFact ==
  Home =>
    /\ IsFiniteSet(Stored) /\ Cardinality(Stored) \in Nat /\ Stored \subseteq Entry
    /\ Len(Cur[0].ents) \in Nat /\ Len(Cur[0].ents) <= MaxKeys
    /\ Cardinality(ToSet(Cur[0].ents)) = Len(Cur[0].ents)
    /\ root_page_id = 0 => Stored = ToSet(Cur[0].ents)
    /\ Grown => Leaves(ToSet(Cur[0].ents), Stored, todo # {})

\* In every state of the tree page 0 has its least entries.
LEMMA PageZeroIs == IInv => PageZeroFact
<1> SUFFICES ASSUME IInv, Home PROVE PageZeroFact
  BY DEF PageZeroFact
<1>1. PICK T, h, R : Tree(1, T, h, R) /\ Leftmost(Cur, root_page_id, T)
  BY DEF Home, Rooted
<1>2. /\ IsFiniteSet(Stored) /\ Cardinality(Stored) \in Nat /\ Stored \subseteq Entry
      /\ Len(Cur[0].ents) \in Nat /\ Len(Cur[0].ents) <= MaxKeys
      /\ Cardinality(ToSet(Cur[0].ents)) = Len(Cur[0].ents)
      /\ root_page_id = 0 => Stored = ToSet(Cur[0].ents)
  BY <1>1, PageZeroFirst
<1>3. ASSUME Grown PROVE Leaves(ToSet(Cur[0].ents), Stored, todo # {})
  BY <1>1, <1>3, PageZeroLeaves
<1> QED BY <1>2, <1>3 DEF PageZeroFact

\* With the root at page 0, which is a leaf, page 0 is the leftmost leaf.
HomeFact == TreeInv(1) /\ root_page_id = 0 => Home

\* In every state with page 0 as root the leftmost leaf is the root.
LEMMA HomeAtZero == IInv => HomeFact
<1> SUFFICES ASSUME IInv, TreeInv(1), root_page_id = 0 PROVE Home
  BY DEF HomeFact
<1>1. PICK T, h, R : Tree(1, T, h, R)
  BY DEF TreeInv
<1>2. 0 \in T
  BY <1>1 DEF Tree, Shape
<1>3. Cur[0].leaf
  BY ZeroIs DEF ZeroFact
<1>4. Leftmost(Cur, 0, T)
  <2>1. {0} \in SUBSET T
    BY <1>2
  <2> QED BY <2>1, <1>3 DEF Leftmost
<1> QED BY <1>1, <1>4 DEF Home, Rooted

\* A new database is empty.
LEMMA InitRefines ==
  ASSUME Init
  PROVE  RInv /\ Contract!Init
<1>1. IInv /\ TreeInv(1)
  BY InitIInv, InitTree
<1>2. root_page_id = 0 /\ todo = {} /\ writes = <<>> /\ disk = NewFile
  BY DEF Init
<1>3. Home
  BY <1>1, <1>2, HomeAtZero DEF HomeFact
<1>4. Agreed /\ Grown /\ Reopenable /\ NewOnly /\ PlacedLast
  BY <1>2 DEF Agreed, Grown, Reopenable, NewOnly, PlacedLast
<1>5. disk[0] = EmptyLeaf
  BY <1>2 DEF NewFile, FormatRoot, WritePage
<1>6. Cur[0] = EmptyLeaf
  BY <1>1, <1>2, <1>5, QuietIs DEF QuietFact
<1>7. ToSet(Cur[0].ents) = {}
  BY <1>6 DEF EmptyLeaf, ToSet
<1>8. Stored = {}
  BY <1>1, <1>2, <1>3, <1>7, PageZeroIs DEF PageZeroFact
<1>9. Adding = {}
  BY <1>2 DEF Adding, Idle
<1> QED BY <1>3, <1>4, <1>8, <1>9 DEF RInv, Contract!Init

\* The store depends on the file, the writes and the root.
LEMMA SameStored ==
  ASSUME UNCHANGED <<disk, writes, root_page_id>>
  PROVE  Stored' = Stored /\ Cur' = Cur /\ AllValues' = AllValues
<1>1. Overlay' = Overlay
  BY DEF Overlay
<1>2. Stored' = Stored /\ AllValues' = AllValues
  BY <1>1 DEF Stored, AllValues
<1> QED BY <1>2, SameCur

\* Two trees with the same entries are the same store.
LEMMA StoredItems ==
  ASSUME IInv, IInv', NEW T, NEW T2, Rooted(T), Rooted(T2)'
  PROVE  Stored = Items(Cur, T) /\ Stored' = Items(Cur', T2)
<1>1. StoredFact /\ StoredFact'
  BY StoredIs, PTL
<1>2. PICK h, R : Tree(1, T, h, R)
  BY DEF Rooted
<1>3. PICK h2, R2 : Tree(1, T2, h2, R2)'
  BY DEF Rooted
<1> QED BY <1>1, <1>2, <1>3 DEF StoredFact

-----------------------------------------------------------------------------
(* Begin: insert has started, at the root.                                   *)

\* No entry of the store has a key that is in no node.
LEMMA NotStored ==
  ASSUME IInv, NEW T, Rooted(T), NEW k, Absent(Cur, T, k)
  PROVE  \A x \in Stored : x.key # k
<1> SUFFICES ASSUME NEW x \in Stored PROVE x.key # k
  OBVIOUS
<1>1. PICK h, R : Tree(1, T, h, R)
  BY DEF Rooted
<1>2. T \in SUBSET Page /\ Cur \in [Page -> Node] /\ Stored = Items(Cur, T)
  BY <1>1, TreeTyped, CurIs, StoredIs DEF CurFacts, StoredFact
<1>3. PICK p \in T : x \in ToSet(Cur[p].ents)
  BY <1>2 DEF Items
<1>4. Cur[p].ents \in Seq(Entry)
  BY <1>2, NodeProps
<1>5. PICK i \in 1..Len(Cur[p].ents) : Cur[p].ents[i] = x
  BY <1>3, <1>4, ToSetIs
<1> QED BY <1>5 DEF Absent

\* A key that no entry of the store has is in no node.
LEMMA FreshAbsent ==
  ASSUME IInv, NEW T, Rooted(T), NEW k, Fresh(k)
  PROVE  Absent(Cur, T, k)
<1>1. PICK h, R : Tree(1, T, h, R)
  BY DEF Rooted
<1>2. T \in SUBSET Page /\ Cur \in [Page -> Node] /\ Stored = Items(Cur, T)
  BY <1>1, TreeTyped, CurIs, StoredIs DEF CurFacts, StoredFact
<1> SUFFICES ASSUME NEW p \in T, NEW i \in 1..Len(Cur[p].ents)
             PROVE  Cur[p].ents[i].key # k
  BY DEF Absent
<1>3. Cur[p].ents \in Seq(Entry)
  BY <1>2, NodeProps
<1>4. Cur[p].ents[i] \in ToSet(Cur[p].ents)
  BY <1>3, ToSetIs
<1>5. Cur[p].ents[i] \in Stored
  BY <1>2, <1>4 DEF Items
<1> QED BY <1>5 DEF Fresh

\* A key that search does not find is that of no entry.
LEMMA UnknownFresh ==
  ASSUME IInv, RInv, writes = <<>>, NEW k, ~Known(k)
  PROVE  Fresh(k)
<1>1. PICK T, h, R : Tree(1, T, h, R) /\ Rooted(T)
  BY DEF RInv, Home, Rooted
<1>2. Absent(Cur, T, k)
  BY <1>1, UnknownAbsent
<1> QED BY <1>1, <1>2, NotStored DEF Fresh

\* What both ways to start an insert come to.
LEMMA Begun ==
  ASSUME IInv, IInv', RInv, NEW T, Rooted(T), NEW e \in Entry, Absent(Cur, T, e.key),
         Idle, todo' = {e}, UNCHANGED disk, Stored' = Stored,
         Home', Agreed', Grown'
  PROVE  RInv' /\ Contract!Begin(e)
<1>1. todo = {} /\ writes = <<>>
  BY DEF Idle
<1>2. Adding = {} /\ Adding' = {e}
  BY <1>1 DEF Adding
<1>3. \A x \in Stored : x.key # e.key
  BY NotStored
<1>4. Leaves(ToSet(disk[0].ents), Stored, FALSE)
  <2>1. Cur[0] = disk[0]
    BY <1>1, QuietIs DEF QuietFact
  <2>2. Leaves(ToSet(Cur[0].ents), Stored, todo # {})
    BY PageZeroIs DEF RInv, PageZeroFact
  <2> QED BY <2>1, <2>2, <1>1 DEF Leaves
<1>5. Reopenable' /\ NewOnly' /\ PlacedLast'
  <2>1. NewOnly'
    BY <1>3 DEF NewOnly, Fresh
  <2> QED BY <2>1, <1>4 DEF Reopenable, PlacedLast, Leaves
<1>6. Contract!Begin(e)
  BY <1>2, <1>3 DEF Contract!Begin, Contract!KeysOf
<1> QED BY <1>5, <1>6 DEF RInv

\* insert on a root with room begins KeyStore's insert.
LEMMA EnterRootRefines ==
  ASSUME IInv, IInv', RInv, NEW e \in Entry, Fresh(e.key), EnterRoot(e)
  PROVE  RInv' /\ Contract!Begin(e)
<1>1. PICK T, h, R : Tree(1, T, h, R) /\ Leftmost(Cur, root_page_id, T)
  BY DEF RInv, Home, Rooted
<1>2. /\ Idle /\ writes = <<>> /\ todo' = {e} /\ todo = {}
      /\ UNCHANGED <<disk, writes, root_page_id>>
  BY DEF EnterRoot, Idle, fileVars
<1>3. Absent(Cur, T, e.key)
  BY <1>1, FreshAbsent DEF Rooted
<1>4. Stored' = Stored /\ Cur' = Cur
  BY <1>2, SameStored
<1>5. Tree(1, T, h, R)'
  <2>1. Spared(Cur, T \ {root_page_id}, e.key)
    BY <1>3 DEF Absent, Spared, Lacks
  <2> QED BY <1>1, <2>1, EnterRootTree
<1>6. Home'
  <2>1. Leftmost(Cur', root_page_id', T)
    BY <1>1, <1>2, <1>4
  <2> QED BY <2>1, <1>5 DEF Home, Rooted
<1>7. Agreed'
  BY <1>2, <1>4 DEF RInv, Agreed
<1>8. Grown'
  BY <1>2, <1>4 DEF RInv, Grown
<1>9. Rooted(T)
  BY <1>1 DEF Rooted
<1> QED BY <1>2, <1>3, <1>4, <1>6, <1>7, <1>8, <1>9, Begun

\* insert on a full root begins KeyStore's insert: the split of the root moves
\* entries and adds none.
LEMMA GrowRootRefines ==
  ASSUME IInv, IInv', RInv, NEW e \in Entry, Fresh(e.key), GrowRoot(e)
  PROVE  RInv' /\ Contract!Begin(e)
<1>1. PICK T, h, R : Tree(1, T, h, R) /\ Leftmost(Cur, root_page_id, T)
  BY DEF RInv, Home, Rooted
<1>2. /\ Idle /\ writes = <<>> /\ todo' = {e} /\ todo = {} /\ UNCHANGED disk
      /\ root_page_id' = next_page_id /\ Full(ReadPage(disk, root_page_id))
  BY DEF GrowRoot, Idle, fileVars
<1>3. Absent(Cur, T, e.key)
  BY <1>1, FreshAbsent DEF Rooted
<1>4. /\ T \in SUBSET (0..next_page_id - 1) /\ T \in SUBSET Page /\ next_page_id \in Nat
      /\ root_page_id \in T
  BY <1>1, TreeTyped DEF Shape
<1>5. Cur \in [Page -> Node] /\ CurFacts
  BY CurIs DEF CurFacts
<1>6. PICK n : n = next_page_id
  OBVIOUS
<1>7. PICK old : old = root_page_id
  OBVIOUS
<1>8. n \in Page \ T /\ n + 1 \in Page /\ n # 0 /\ old \in T /\ old # n
  BY <1>4, <1>6, <1>7 DEF Page
<1> DEFINE c == [Cur EXCEPT ![n] = NewRoot(old)]
<1>9. /\ \E T2, h2, R2 : T2 = T \cup {next_page_id, next_page_id + 1} /\ Tree(1, T2, h2, R2)'
      /\ Divided([Cur EXCEPT ![next_page_id] = NewRoot(root_page_id)],
                 T \cup {next_page_id}, next_page_id, 1, next_page_id + 1,
                 root_page_id, Cur')
      /\ Agreed'
  <2>1. Spared(Cur, T \ {root_page_id}, e.key)
    BY <1>3 DEF Absent, Spared, Lacks
  <2> QED BY <1>1, <2>1, GrowRootTree
<1>10. Divided(c, T \cup {n}, n, 1, n + 1, old, Cur')
  BY <1>6, <1>7, <1>9
<1>11. PICK T2, h2, R2 : T2 = T \cup {n, n + 1} /\ Tree(1, T2, h2, R2)'
  BY <1>6, <1>9
<1>12. /\ c \in [Page -> Node] /\ Items(c, T \cup {n}) = Items(Cur, T)
       /\ Leftmost(c, n, T \cup {n}) /\ c[old] = Cur[old]
  <2>1. Leftmost(Cur, old, T)
    BY <1>1, <1>7
  <2> HIDE DEF c
  <2>2. /\ [Cur EXCEPT ![n] = NewRoot(old)] \in [Page -> Node]
        /\ [Cur EXCEPT ![n] = NewRoot(old)][old] = Cur[old]
        /\ Items([Cur EXCEPT ![n] = NewRoot(old)], T \cup {n}) = Items(Cur, T)
        /\ Leftmost([Cur EXCEPT ![n] = NewRoot(old)], n, T \cup {n})
    <3>1. PICK b : b = Cur
      OBVIOUS
    <3>2. /\ b \in [Page -> Node] /\ T \in SUBSET Page /\ old \in T /\ n \in Page \ T
          /\ Leftmost(b, old, T)
      BY <2>1, <3>1, <1>4, <1>5, <1>8
    <3>3. /\ [b EXCEPT ![n] = NewRoot(old)] \in [Page -> Node]
          /\ [b EXCEPT ![n] = NewRoot(old)][old] = b[old]
          /\ Items([b EXCEPT ![n] = NewRoot(old)], T \cup {n}) = Items(b, T)
          /\ Leftmost([b EXCEPT ![n] = NewRoot(old)], n, T \cup {n})
      BY <3>2, GrowItems
    <3> QED BY <3>1, <3>3
  <2> QED BY <2>2 DEF c
<1> HIDE DEF c
<1>13. T \cup {n} \in SUBSET Page /\ (T \cup {n}) \cup {n + 1} = T2
  BY <1>4, <1>8, <1>11
<1>14. Items(Cur', T2) = Items(Cur, T) /\ Leftmost(Cur', n, T2)
  BY <1>8, <1>10, <1>12, <1>13, SplitItems, SplitLeftmost
<1>15. Rooted(T) /\ Rooted(T2)'
  <2>1. Leftmost(Cur', root_page_id', T2)
    BY <1>2, <1>6, <1>14
  <2> QED BY <2>1, <1>1, <1>11 DEF Rooted
<1>16. Stored' = Stored
  BY <1>14, <1>15, StoredItems
<1>17. Home'
  BY <1>15 DEF Home
<1>18. Grown'
  <2>1. CASE root_page_id = 0
    <3>1. Cur[old] = ReadPage(disk, old)
      <4>1. NoneDue(old)
        BY <1>2 DEF NoneDue
      <4> QED BY <4>1, <1>4, <1>5, <1>8 DEF CurFacts
    <3>2. Len(Cur[0].ents) = MaxKeys
      BY <2>1, <3>1, <1>2, <1>7 DEF Full
    <3>3. Cardinality(Stored) = MaxKeys
      BY <2>1, <3>2, PageZeroIs DEF RInv, PageZeroFact
    <3>4. Len(Cur'[0].ents) = Degree - 1
      BY <2>1, <1>7, <1>10 DEF Divided, IsSplit
    <3> QED BY <3>3, <3>4, <1>2, <1>16 DEF Grown
  <2>2. CASE root_page_id # 0
    <3>1. Cardinality(Stored) > MaxKeys
      BY <2>2, <1>2 DEF RInv, Grown
    <3> QED BY <3>1, <1>16 DEF Grown
  <2> QED BY <2>1, <2>2
<1> QED BY <1>2, <1>3, <1>9, <1>15, <1>16, <1>17, <1>18, Begun

-----------------------------------------------------------------------------
(* The way down to a leaf changes nothing.                                   *)

\* The step is none of KeyStore.
Unseen == UNCHANGED <<Stored, Adding>>

\* Going down to a child is no step of KeyStore.
LEMMA DescendRefines ==
  ASSUME IInv, IInv', RInv, writes = <<>>, NEW e \in todo, Descend(e, ReadPage(disk, at))
  PROVE  RInv' /\ Unseen
<1>1. PICK T, h, R : Tree(1, T, h, R) /\ Leftmost(Cur, root_page_id, T)
  BY DEF RInv, Home, Rooted
<1>2. UNCHANGED <<disk, writes, root_page_id, todo>>
  BY DEF Descend, fileVars
<1>3. Stored' = Stored /\ Cur' = Cur /\ AllValues' = AllValues
  BY <1>2, SameStored
<1>4. Home'
  <2>1. Tree(1, T, h, R)'
    BY <1>1, DescendTree
  <2>2. Leftmost(Cur', root_page_id', T)
    BY <1>1, <1>2, <1>3
  <2> QED BY <2>1, <2>2 DEF Home, Rooted
<1>5. Agreed' /\ Grown' /\ Reopenable' /\ NewOnly' /\ PlacedLast'
  BY <1>2, <1>3 DEF RInv, Agreed, Grown, Reopenable, NewOnly, Fresh, PlacedLast
<1>6. Unseen
  BY <1>2, <1>3 DEF Unseen, Adding, Idle
<1> QED BY <1>4, <1>5, <1>6 DEF RInv

\* Splitting a child on the way down is no step of KeyStore.
LEMMA SplitFullChildRefines ==
  ASSUME IInv, IInv', RInv, writes = <<>>, NEW e \in todo,
         SplitFullChild(e, ReadPage(disk, at))
  PROVE  RInv' /\ Unseen
<1>1. PICK T, h, R : Tree(1, T, h, R) /\ Leftmost(Cur, root_page_id, T)
  BY DEF RInv, Home, Rooted
<1>2. UNCHANGED <<disk, root_page_id, todo>> /\ todo # {}
  BY DEF SplitFullChild, fileVars
<1>3. /\ T \in SUBSET (0..next_page_id - 1) /\ T \in SUBSET Page /\ next_page_id \in Nat
      /\ h \in [Page -> Nat] /\ Shape(Cur, root_page_id, T, h) /\ at \in T
      /\ Cur \in [Page -> Node]
  BY <1>1, TreeTyped, CurIs DEF CurFacts
<1>4. PICK n : n = next_page_id
  OBVIOUS
<1>5. /\ \E T2, h2, R2 : T2 = T \cup {next_page_id} /\ Tree(1, T2, h2, R2)'
      /\ \E i, kid : Divided(Cur, T, at, i, next_page_id, kid, Cur')
      /\ Agreed'
  BY <1>1, SplitFullChildTree
<1>6. PICK T2, h2, R2 : T2 = T \cup {n} /\ Tree(1, T2, h2, R2)'
  BY <1>4, <1>5
<1>7. PICK i, kid : Divided(Cur, T, at, i, n, kid, Cur')
  BY <1>4, <1>5
<1>8. kid # at
  <2>1. Kid(Cur, at, i, kid)
    BY <1>7 DEF Divided
  <2> QED BY <2>1, <1>3, KidOf
<1>9. Items(Cur', T2) = Items(Cur, T) /\ Leftmost(Cur', root_page_id, T2)
  BY <1>1, <1>3, <1>6, <1>7, <1>8, SplitItems, SplitLeftmost
<1>10. Rooted(T) /\ Rooted(T2)'
  <2>1. Leftmost(Cur', root_page_id', T2)
    BY <1>2, <1>9
  <2> QED BY <2>1, <1>1, <1>6 DEF Rooted
<1>11. Stored' = Stored
  BY <1>9, <1>10, StoredItems
<1>12. Home'
  BY <1>10 DEF Home
<1>13. Grown'
  <2>1. CASE root_page_id # 0 /\ ~(Cardinality(Stored) > MaxKeys)
    <3>1. Cardinality(Stored) = MaxKeys /\ Len(Cur[0].ents) = Degree - 1
      BY <2>1 DEF RInv, Grown
    <3>2. 0 \in T /\ Cur[0].leaf
      BY <1>1, ZeroIs DEF Leftmost, ZeroFact
    <3>3. 0 # at /\ 0 # n /\ 0 # kid /\ 0 \in Page
      <4>1. 0 # at /\ 0 # n /\ 0 \in Page
        BY <3>2, <1>3, <1>7 DEF Divided, HasRoom
      <4>2. Len(Cur[kid].ents) = MaxKeys
        BY <1>7 DEF Divided, Full
      <4>3. Degree - 1 # MaxKeys
        BY MaxKeysProps
      <4> QED BY <4>1, <4>2, <4>3, <3>1
    <3>4. Cur'[0] = Cur[0]
      BY <3>3, <1>7 DEF Divided, IsSplit
    <3> QED BY <3>1, <3>4, <1>2, <1>11 DEF Grown
  <2>2. CASE root_page_id = 0 \/ Cardinality(Stored) > MaxKeys
    BY <2>2, <1>2, <1>11 DEF Grown
  <2> QED BY <2>1, <2>2
<1>14. Reopenable' /\ NewOnly' /\ PlacedLast'
  BY <1>2, <1>11 DEF RInv, Reopenable, NewOnly, Fresh, PlacedLast
<1>15. Unseen
  BY <1>2, <1>11 DEF Unseen, Adding
<1> QED BY <1>5, <1>12, <1>13, <1>14, <1>15 DEF RInv

-----------------------------------------------------------------------------
(* Put: the entry is in a leaf, and on its way to the file.                  *)

\* Placing the entry in its leaf puts it into KeyStore's set.
LEMMA AddToLeafRefines ==
  ASSUME IInv, IInv', RInv, writes = <<>>, NEW e \in todo,
         AddToLeaf(e, ReadPage(disk, at))
  PROVE  RInv' /\ Contract!Put
<1>1. PICK T, h, R : Tree(1, T, h, R) /\ Leftmost(Cur, root_page_id, T)
  BY DEF RInv, Home, Rooted
<1>2. /\ e \in Entry /\ todo = {e} /\ at \in T /\ at \in Page /\ T \in SUBSET Page
      /\ Absent(Cur, T, e.key)
  <2>1. Fresh(e.key) /\ Rooted(T)
    BY <1>1 DEF RInv, NewOnly, Rooted
  <2> QED BY <1>1, <2>1, FreshAbsent, TreeTyped
<1>3. CurFacts /\ Cur \in [Page -> Node]
  BY CurIs DEF CurFacts
<1>4. PICK p : p = at
  OBVIOUS
<1>5. Cur[p] = ReadPage(disk, at) /\ Cur[p] \in Node /\ Sound(Cur[p])
  <2>1. NoneDue(at)
    BY DEF NoneDue
  <2> QED BY <2>1, <1>2, <1>3, <1>4 DEF CurFacts
<1>6. PICK i \in 1..Len(Cur[p].ents) + 1 : Place([Cur[p] EXCEPT !.ents = InsertAt(@, i, e)])
  BY <1>5 DEF AddToLeaf
<1>7. PICK m : m = [Cur[p] EXCEPT !.ents = InsertAt(@, i, e)]
  OBVIOUS
<1>8. Cur[p].leaf /\ ~Full(Cur[p])
  BY <1>2, <1>5, RoomAtNode DEF AddToLeaf
<1>9. /\ m \in Node /\ m.leaf = Cur[p].leaf /\ m.kids = Cur[p].kids
      /\ m.ents = InsertAt(Cur[p].ents, i, e)
  <2>1. [Cur[p] EXCEPT !.ents = InsertAt(@, i, e)] \in Node
    BY <1>2, <1>5, <1>6, <1>8, PlacedProps
  <2> QED BY <2>1, <1>5, <1>7 DEF Node
<1>10. /\ Cur' \in [Page -> Node] /\ Cur'[at] = m /\ \A x \in Page : x # at => Cur'[x] = Cur[x]
       /\ Len(writes') = 1 /\ Agreed' /\ todo' = {} /\ UNCHANGED <<disk, root_page_id>>
  BY <1>6, <1>7, PlaceCur
<1>11. Items(Cur', T) = Items(Cur, T) \cup {e} /\ Leftmost(Cur', root_page_id, T)
  <2>1. Cur'[p] = m /\ \A x \in T : x # p => Cur'[x] = Cur[x]
    BY <1>2, <1>4, <1>10
  <2>2. /\ Items(Cur', T) = Items(Cur, T) \cup {e}
        /\ \A r : Leftmost(Cur, r, T) => Leftmost(Cur', r, T)
    BY <2>1, <1>2, <1>3, <1>4, <1>6, <1>9, AddItems
  <2> QED BY <2>2, <1>1
<1>12. Rooted(T) /\ Rooted(T)'
  <2>1. Tree(1, T, h, R)'
    BY <1>1, AddToLeafTree
  <2>2. Leftmost(Cur', root_page_id', T)
    BY <1>10, <1>11
  <2> QED BY <2>1, <2>2, <1>1 DEF Rooted
<1>13. Stored' = Stored \cup {e}
  BY <1>11, <1>12, StoredItems
<1>14. Stored = ToSet(AllValues) /\ AllValues' = AllValues
  BY <1>10, QuietIs DEF QuietFact, AllValues
<1>15. \A x \in Stored : x.key # e.key
  BY <1>2, <1>12, NotStored
<1>16. writes' # <<>>
  BY <1>10
<1>17. Home'
  BY <1>12 DEF Home
<1>18. Grown'
  <2>1. IsFiniteSet(Stored) /\ Cardinality(Stored) \in Nat
    BY PageZeroIs DEF RInv, PageZeroFact
  <2>2. e \notin Stored
    BY <1>15
  <2>3. Cardinality(Stored \cup {e}) = Cardinality(Stored) + 1
    BY <2>1, <2>2, FS_AddElement
  <2>4. root_page_id # 0 => Cardinality(Stored) >= MaxKeys
    BY <2>1, MaxKeysProps DEF RInv, Grown
  <2>5. root_page_id # 0 => Cardinality(Stored') > MaxKeys
    BY <2>1, <2>3, <2>4, <1>13, MaxKeysProps
  <2> QED BY <2>5, <1>10 DEF Grown
<1>19. Reopenable' /\ NewOnly'
  BY <1>10 DEF Reopenable, NewOnly
<1>20. PlacedLast'
  <2>1. Leaves(ToSet(disk[0].ents), Stored, TRUE)
    BY <1>2 DEF RInv, Reopenable
  <2> QED BY <2>1, <1>2, <1>10, <1>13, <1>14, <1>15 DEF PlacedLast
<1>21. Adding = {e} /\ Adding' = {e}
  <2>1. Adding = {e}
    BY <1>2 DEF Adding
  <2>2. Adding' = Stored' \ ToSet(AllValues')
    BY <1>10, <1>16 DEF Adding, Idle
  <2>3. e \notin Stored
    BY <1>15
  <2> QED BY <2>1, <2>2, <2>3, <1>13, <1>14
<1>22. Contract!Put
  BY <1>13, <1>21 DEF Contract!Put
<1> QED BY <1>10, <1>17, <1>18, <1>19, <1>20, <1>22 DEF RInv

\* Callers that insert new keys only never overwrite an entry.
LEMMA UpdateEntryNever ==
  ASSUME IInv, RInv, writes = <<>>, NEW e \in todo, UpdateEntry(e, ReadPage(disk, at))
  PROVE  FALSE
<1>1. PICK T, h, R : Tree(1, T, h, R) /\ Leftmost(Cur, root_page_id, T)
  BY DEF RInv, Home, Rooted
<1>2. at \in T /\ at \in Page /\ Absent(Cur, T, e.key)
  <2>2. Fresh(e.key) /\ Rooted(T)
    BY <1>1 DEF RInv, NewOnly, Rooted
  <2> QED BY <1>1, <2>2, FreshAbsent, TreeTyped
<1>3. Cur[at] = ReadPage(disk, at)
  <2>1. NoneDue(at)
    BY DEF NoneDue
  <2> QED BY <2>1, <1>2, CurIs DEF CurFacts
<1>4. PICK j \in Matches(Cur[at], e.key) : TRUE
  BY <1>3 DEF UpdateEntry
<1> QED BY <1>2, <1>4 DEF Matches, Absent

-----------------------------------------------------------------------------
(* Return: the write of the entry's leaf is the last one.                    *)

\* A page write is no step of KeyStore, except the last one of an insert, which
\* ends it.
LEMMA FlushRefines ==
  ASSUME IInv, IInv', RInv, FlushPage
  PROVE  RInv' /\ (Unseen \/ Contract!Return)
<1>1. PICK T, h, R : Tree(1, T, h, R) /\ Leftmost(Cur, root_page_id, T)
  BY DEF RInv, Home, Rooted
<1>2. PICK w : w = Head(writes)
  OBVIOUS
<1>3. /\ w = writes[1] /\ Len(writes) \in Nat /\ Len(writes) >= 1
      /\ DOMAIN writes = 1..Len(writes) /\ DOMAIN writes' = 1..Len(writes) - 1
      /\ writes' \in Seq(WriteRec) /\ Len(writes') = Len(writes) - 1
      /\ \A i \in 1..Len(writes) - 1 : i + 1 \in DOMAIN writes /\ writes'[i] = writes[i + 1]
      /\ disk'[w.page] = w.node
      /\ \A p \in DOMAIN disk' : p # w.page =>
           disk'[p] = IF p \in DOMAIN disk THEN disk[p] ELSE ZeroPage
      /\ DOMAIN disk \subseteq DOMAIN disk'
      /\ UNCHANGED <<root_page_id, todo, at>>
  BY <1>2, FlushIs
<1>4. Cur' = Cur
  BY FlushCur
<1>5. Rooted(T) /\ Rooted(T)'
  <2>1. Tree(1, T, h, R)'
    BY <1>1, FlushTree
  <2>2. Leftmost(Cur', root_page_id', T)
    BY <1>1, <1>3, <1>4
  <2> QED BY <2>1, <2>2, <1>1 DEF Rooted
<1>6. Stored' = Stored
  BY <1>4, <1>5, StoredItems
<1>7. Home'
  BY <1>5 DEF Home
<1>8. Agreed'
  <2> SUFFICES ASSUME NEW i \in DOMAIN writes'
               PROVE  Cur'[writes'[i].page] = writes'[i].node
    BY DEF Agreed
  <2>1. i + 1 \in DOMAIN writes /\ writes'[i] = writes[i + 1]
    BY <1>3
  <2> QED BY <2>1, <1>4 DEF RInv, Agreed
<1>9. Grown'
  BY <1>3, <1>4, <1>6 DEF RInv, Grown
<1>10. CASE todo # {}
  <2>1. Leaves(ToSet(disk'[0].ents), Stored, TRUE)
    <3>1. CASE w.page = 0
      <4>1. disk'[0] = Cur[0]
        BY <3>1, <1>3 DEF RInv, Agreed
      <4>2. Leaves(ToSet(Cur[0].ents), Stored, todo # {})
        BY PageZeroIs DEF RInv, PageZeroFact
      <4> QED BY <4>1, <4>2, <1>10 DEF Leaves
    <3>2. CASE w.page # 0
      <4>1. 0 \in DOMAIN disk
        BY DEF IInv, PageZeroDue, Written
      <4>2. disk'[0] = disk[0]
        BY <3>2, <4>1, <1>3
      <4> QED BY <4>2, <1>10 DEF RInv, Reopenable
    <3> QED BY <3>1, <3>2
  <2>2. Reopenable' /\ NewOnly' /\ PlacedLast'
    <3>1. NewOnly'
      BY <1>3, <1>6 DEF RInv, NewOnly, Fresh
    <3> QED BY <2>1, <3>1, <1>3, <1>6, <1>10 DEF Reopenable, PlacedLast
  <2>3. Unseen
    BY <1>3, <1>6, <1>10 DEF Unseen, Adding
  <2> QED BY <2>2, <2>3, <1>7, <1>8, <1>9 DEF RInv
<1>11. CASE todo = {}
  <2>1. writes # <<>>
    BY DEF FlushPage
  <2>2. Len(writes) = 1
    BY <2>1, <1>11 DEF RInv, PlacedLast
  <2>3. writes' = <<>>
    BY <2>2, <1>3, EmptySequence
  <2>4. Reopenable' /\ NewOnly' /\ PlacedLast'
    BY <2>3, <1>3, <1>11 DEF Reopenable, NewOnly, PlacedLast
  <2>5. Adding \subseteq Stored /\ Adding' = {}
    BY <2>3, <1>3, <1>11 DEF Adding, Idle
  <2>6. Contract!Return
    BY <2>5, <1>6 DEF Contract!Return
  <2> QED BY <2>4, <2>6, <1>7, <1>8, <1>9 DEF RInv
<1> QED BY <1>10, <1>11

-----------------------------------------------------------------------------
(* Reopen: a new process has page 0 alone.                                   *)

\* What a process that ends now leaves in page 0.
LEMMA PageZeroKept ==
  ASSUME IInv, RInv
  PROVE  Leaves(ToSet(disk[0].ents), Stored \ Adding, Adding # {})
<1>1. CASE todo # {}
  <2>1. PICK T, h, R : Tree(1, T, h, R) /\ Leftmost(Cur, root_page_id, T)
    BY DEF RInv, Home, Rooted
  <2>2. PICK e \in todo : TRUE
    BY <1>1
  <2>3. todo = {e}
    BY <2>1, <2>2, TreeTyped
  <2>4. \A x \in Stored : x.key # e.key
    BY <2>2 DEF RInv, NewOnly, Fresh
  <2>5. Adding = {e} /\ e \notin Stored
    BY <1>1, <2>3, <2>4 DEF Adding
  <2>6. Stored \ Adding = Stored /\ Adding # {}
    BY <2>5
  <2>7. Leaves(ToSet(disk[0].ents), Stored, TRUE)
    BY <1>1 DEF RInv, Reopenable
  <2> QED BY <2>6, <2>7 DEF Leaves
<1>2. CASE todo = {} /\ writes # <<>>
  <2>1. PICK e \in Entry : /\ \A x \in ToSet(AllValues) : x.key # e.key
                           /\ Stored = ToSet(AllValues) \cup {e}
    BY <1>2 DEF RInv, PlacedLast
  <2>2. Adding = Stored \ ToSet(AllValues)
    BY <1>2 DEF Adding, Idle
  <2>3. e \notin ToSet(AllValues)
    BY <2>1
  <2>4. Stored \ Adding = ToSet(AllValues) /\ Adding # {}
    BY <2>1, <2>2, <2>3
  <2>5. Leaves(ToSet(disk[0].ents), ToSet(AllValues), TRUE)
    BY <1>2 DEF RInv, PlacedLast
  <2> QED BY <2>4, <2>5 DEF Leaves
<1>3. CASE todo = {} /\ writes = <<>>
  <2>1. Adding = {}
    BY <1>3 DEF Adding, Idle
  <2>2. Cur[0] = disk[0]
    BY <1>3, QuietIs DEF QuietFact
  <2>3. Leaves(ToSet(Cur[0].ents), Stored, todo # {})
    BY PageZeroIs DEF RInv, PageZeroFact
  <2>4. Stored \ Adding = Stored
    BY <2>1
  <2> QED BY <1>3, <2>1, <2>2, <2>3, <2>4 DEF Leaves
<1> QED BY <1>1, <1>2, <1>3

\* A new process, which has page 0 as its root, is KeyStore's reopening.
LEMMA RestartRefines ==
  ASSUME IInv, IInv', RInv, Restart
  PROVE  RInv' /\ Contract!Reopen
<1>1. /\ root_page_id' = 0 /\ todo' = {} /\ writes' = <<>>
      /\ 0 \in DOMAIN disk /\ disk[0] # ZeroPage
  BY DEF IInv, PageZeroDue, Written, Restart
<1>2. disk' = disk
  BY <1>1 DEF Restart, FormatRoot
<1>3. Home'
  <2>1. TreeInv(1)'
    <3>1. PICK T, h, R : Tree(1, T, h, R)
      BY DEF RInv, Home, Rooted
    <3> QED BY <3>1, RestartTree
  <2>2. HomeFact'
    BY HomeAtZero, PTL
  <2> QED BY <1>1, <2>1, <2>2 DEF HomeFact
<1>4. Agreed' /\ Grown' /\ Reopenable' /\ NewOnly' /\ PlacedLast'
  BY <1>1 DEF Agreed, Grown, Reopenable, NewOnly, PlacedLast
<1>5. Stored' = ToSet(disk[0].ents)
  <2>1. QuietFact' /\ PageZeroFact'
    BY QuietIs, PageZeroIs, PTL
  <2>2. Cur'[0] = disk[0]
    BY <1>1, <1>2, <2>1 DEF QuietFact
  <2> QED BY <1>1, <1>3, <2>1, <2>2 DEF PageZeroFact
<1>6. Adding' = {}
  BY <1>1 DEF Adding, Idle
<1>7. Leaves(ToSet(disk[0].ents), Stored \ Adding, Adding # {})
  BY PageZeroKept
<1>8. Contract!Capacity = MaxKeys
  BY DEF Contract!Capacity, MaxKeys
<1>9. Contract!Reopen
  <2>1. CASE Stored' \in Contract!Kept(Stored \ Adding)
    BY <2>1, <1>6 DEF Contract!Reopen
  <2>2. CASE /\ Adding # {}
             /\ Cardinality(Stored \ Adding) = MaxKeys
             /\ Stored' \in Contract!Least(Stored \ Adding, Degree - 1)
    <3>1. Contract!Cardinality(Stored \ Adding) = Contract!Capacity
      BY <2>2, <1>8, SameCardinality
    <3> QED BY <2>2, <3>1, <1>6 DEF Contract!Reopen
  <2> QED BY <1>5, <1>7, <2>1, <2>2 DEF Leaves
<1> QED BY <1>3, <1>4, <1>9 DEF RInv

-----------------------------------------------------------------------------
\* insert of a new key begins KeyStore's insert.
LEMMA InsertRefines ==
  ASSUME IInv, IInv', RInv, NEW e \in Entry, Fresh(e.key), Insert(e)
  PROVE  RInv' /\ Contract!Begin(e)
BY EnterRootRefines, GrowRootRefines DEF Insert

\* Every step keeps the invariant and is a step of KeyStore, or none.
LEMMA StepRefines ==
  ASSUME IInv, RInv, [NextNew]_vars
  PROVE  RInv' /\ (Contract!Next \/ Unseen)
<1>1. IInv'
  BY StepIInv DEF Next, NextNew, InsertNew
<1>2. ASSUME NEW e \in Entry, InsertNew(e) PROVE RInv' /\ Contract!Next
  <2>1. ~Known(e.key) /\ Insert(e) /\ writes = <<>>
    BY <1>2 DEF InsertNew, Insert, EnterRoot, GrowRoot, Idle
  <2>2. RInv' /\ Contract!Begin(e)
    BY <1>1, <2>1, UnknownFresh, InsertRefines
  <2>3. e \in Contract!Entry
    BY DEF Contract!Entry, Entry
  <2> QED BY <2>2, <2>3 DEF Contract!Next
<1>3. CASE FlushPage
  BY <1>1, <1>3, FlushRefines DEF Contract!Next
<1>4. CASE Visit
  <2>1. PICK e \in todo : \/ UpdateEntry(e, ReadPage(disk, at))
                          \/ AddToLeaf(e, ReadPage(disk, at))
                          \/ Descend(e, ReadPage(disk, at))
                          \/ SplitFullChild(e, ReadPage(disk, at))
    BY <1>4 DEF Visit
  <2>2. writes = <<>>
    BY <1>4 DEF Visit
  <2>3. CASE UpdateEntry(e, ReadPage(disk, at))
    BY <2>2, <2>3, UpdateEntryNever
  <2>4. CASE AddToLeaf(e, ReadPage(disk, at))
    BY <1>1, <2>2, <2>4, AddToLeafRefines DEF Contract!Next
  <2>5. CASE Descend(e, ReadPage(disk, at))
    BY <1>1, <2>2, <2>5, DescendRefines
  <2>6. CASE SplitFullChild(e, ReadPage(disk, at))
    BY <1>1, <2>2, <2>6, SplitFullChildRefines
  <2> QED BY <2>1, <2>3, <2>4, <2>5, <2>6
<1>5. CASE Restart
  BY <1>1, <1>5, RestartRefines DEF Contract!Next
<1>6. CASE UNCHANGED vars
  <2>1. UNCHANGED <<disk, writes, root_page_id, todo>>
    BY <1>6 DEF vars
  <2>2. Stored' = Stored /\ Cur' = Cur /\ AllValues' = AllValues
    BY <2>1, SameStored
  <2>3. Home'
    <3>1. PICK T, h, R : Tree(1, T, h, R) /\ Leftmost(Cur, root_page_id, T)
      BY DEF RInv, Home, Rooted
    <3>2. Tree(1, T, h, R)'
      BY <1>6, <3>1, StutterTree
    <3>3. Leftmost(Cur', root_page_id', T)
      BY <2>1, <2>2, <3>1
    <3> QED BY <3>2, <3>3 DEF Home, Rooted
  <2>4. Agreed' /\ Grown' /\ Reopenable' /\ NewOnly' /\ PlacedLast'
    BY <2>1, <2>2 DEF RInv, Agreed, Grown, Reopenable, NewOnly, Fresh, PlacedLast
  <2>5. Unseen
    BY <2>1, <2>2 DEF Unseen, Adding, Idle
  <2> QED BY <2>3, <2>4, <2>5 DEF RInv
<1> QED BY <1>2, <1>3, <1>4, <1>5, <1>6 DEF NextNew, Step

\* The tree with its page writes, splits, new roots and restarts is the store of
\* KeyStore: callers that insert new keys only can reason about a set of entries.
THEOREM TreeImplementsKeyStore == NewSpec => ImplementsKeyStore
<1>1. Init => IInv /\ RInv /\ Contract!Init
  BY InitIInv, InitRefines
<1>2. NewSpec => []IInv
  BY Invariant, NewKeysImplement, PTL
<1>3. IInv /\ RInv /\ [NextNew]_vars => RInv' /\ [Contract!Next]_(Contract!vars)
  <2>1. Unseen => UNCHANGED Contract!vars
    BY DEF Unseen, Contract!vars
  <2> QED BY <2>1, StepRefines
<1> QED BY <1>1, <1>2, <1>3, PTL DEF NewSpec, ImplementsKeyStore, Contract!Spec

-----------------------------------------------------------------------------
(* What the databases over the tree use of it.                               *)

\* With no write due get_all_values returns the store, its keys ascending.
LEMMA ReadersGet ==
  ASSUME IInv, RInv, writes = <<>>
  PROVE  /\ AllValues \in Seq(Entry) /\ Ascending(1, AllValues)
         /\ ToSet(AllValues) = Stored
<1>1. PICK T, h, R : Tree(1, T, h, R)
  BY DEF RInv, Home, Rooted
<1>2. 1 \in Nat
  OBVIOUS
<1>3. /\ Values(Overlay, root_page_id) \in Seq(Entry)
      /\ Ascending(1, Values(Overlay, root_page_id))
  BY <1>1, <1>2, ValuesAscend
<1>4. Overlay = disk /\ ToSet(AllValues) = Stored
  BY QuietIs DEF QuietFact
<1> QED BY <1>3, <1>4 DEF AllValues

\* An insert that begins puts its entry beside the store.
LEMMA InsertBegins ==
  ASSUME IInv, RInv, NEW e \in Entry, Fresh(e.key), Insert(e)
  PROVE  /\ IInv' /\ RInv'
         /\ Stored' = Stored /\ todo = {} /\ todo' = {e}
<1>1. IInv'
  BY StepIInv DEF Next
<1>2. RInv' /\ Contract!Begin(e)
  BY <1>1, InsertRefines
<1> QED BY <1>1, <1>2 DEF Contract!Begin, Insert, EnterRoot, GrowRoot, Idle

\* While an insert goes on, no entry goes away and none but its own comes.
LEMMA StepKeeps ==
  ASSUME IInv, RInv, Step
  PROVE  IInv' /\ RInv' /\ Stored' \cup todo' = Stored \cup todo
<1>1. IInv'
  BY StepIInv DEF Next
<1>2. CASE FlushPage
  <2>1. RInv' /\ (Unseen \/ Contract!Return)
    BY <1>1, <1>2, FlushRefines
  <2>2. Stored' = Stored
    BY <2>1 DEF Unseen, Contract!Return
  <2> QED BY <1>1, <1>2, <2>1, <2>2 DEF FlushPage
<1>3. CASE Visit
  <2>1. PICK e \in todo : \/ UpdateEntry(e, ReadPage(disk, at))
                          \/ AddToLeaf(e, ReadPage(disk, at))
                          \/ Descend(e, ReadPage(disk, at))
                          \/ SplitFullChild(e, ReadPage(disk, at))
    BY <1>3 DEF Visit
  <2>2. writes = <<>>
    BY <1>3 DEF Visit
  <2>3. CASE UpdateEntry(e, ReadPage(disk, at))
    BY <2>2, <2>3, UpdateEntryNever
  <2>4. CASE AddToLeaf(e, ReadPage(disk, at))
    <3>1. RInv' /\ Contract!Put
      BY <1>1, <2>2, <2>4, AddToLeafRefines
    <3>2. todo' = {}
      BY <2>4 DEF AddToLeaf, Place
    <3>3. Adding = todo
      BY <2>1 DEF Adding
    <3>4. Stored' = Stored \cup todo
      BY <3>1, <3>3 DEF Contract!Put
    <3> QED BY <1>1, <3>1, <3>2, <3>4
  <2>5. CASE Descend(e, ReadPage(disk, at))
    <3>1. RInv' /\ Unseen
      BY <1>1, <2>2, <2>5, DescendRefines
    <3>2. todo' = todo
      BY <2>5 DEF Descend
    <3> QED BY <1>1, <3>1, <3>2 DEF Unseen
  <2>6. CASE SplitFullChild(e, ReadPage(disk, at))
    <3>1. RInv' /\ Unseen
      BY <1>1, <2>2, <2>6, SplitFullChildRefines
    <3>2. todo' = todo
      BY <2>6 DEF SplitFullChild
    <3> QED BY <1>1, <3>1, <3>2 DEF Unseen
  <2> QED BY <2>1, <2>3, <2>4, <2>5, <2>6
<1> QED BY <1>2, <1>3 DEF Step

\* A new process finds entries of the store or of the insert that was cut short,
\* and no others.
LEMMA RestartLeaves ==
  ASSUME IInv, RInv, Restart
  PROVE  /\ IInv' /\ RInv'
         /\ todo' = {} /\ writes' = <<>> /\ at' = 0
         /\ Stored' \subseteq Stored \cup todo
<1>1. IInv'
  BY StepIInv DEF Next
<1>2. RInv' /\ Contract!Reopen
  BY <1>1, RestartRefines
<1>3. Adding \subseteq Stored \cup todo
  BY DEF Adding
<1>4. \A S, P : P \in Contract!Kept(S) => P \subseteq S
  BY DEF Contract!Kept, Contract!Least
<1>5. \A S, n, P : P \in Contract!Least(S, n) => P \subseteq S
  BY DEF Contract!Least
<1>6. Stored' \subseteq (Stored \ Adding) \/ Stored' \subseteq (Stored \cup Adding)
  BY <1>2, <1>4, <1>5 DEF Contract!Reopen
<1> QED BY <1>1, <1>2, <1>3, <1>6 DEF Restart

\* A new file holds nothing.
NewFact == Init => IInv /\ RInv /\ Stored = {}

\* In every state a new file is one of an empty store.
LEMMA NewIs == NewFact
BY InitIInv, InitRefines DEF NewFact, Contract!Init

-----------------------------------------------------------------------------
(* Inserts of any key, old ones included: the keys ascend, equal ones side by *)
(* side, and an entry goes away only where one with its key takes its place.  *)

\* The pages of a tree that may have a key twice, with page 0 leftmost.
Planted(T) == \E h, R : Tree(0, T, h, R) /\ Leftmost(Cur, root_page_id, T)

\* The invariant of a tree that takes inserts of any key.
AnyInv == IInv /\ Agreed /\ \E T : Planted(T)

\* What page 0 and the store are in such a state.
AnyFact ==
  AnyInv => /\ Stored \subseteq Entry /\ todo \subseteq Entry
            /\ Cur[0] \in Node /\ ToSet(Cur[0].ents) \subseteq Stored
            /\ root_page_id = 0 => Stored = ToSet(Cur[0].ents)

\* In every state the store has page 0's entries, those alone when it is the root.
LEMMA AnyIs == AnyFact
<1> SUFFICES ASSUME AnyInv
             PROVE  /\ Stored \subseteq Entry /\ todo \subseteq Entry
                    /\ Cur[0] \in Node /\ ToSet(Cur[0].ents) \subseteq Stored
                    /\ root_page_id = 0 => Stored = ToSet(Cur[0].ents)
  BY DEF AnyFact
<1>0. IInv /\ todo \subseteq Entry
  BY DEF AnyInv, IInv, TypeOK
<1>1. PICK T, h, R : Tree(0, T, h, R) /\ Leftmost(Cur, root_page_id, T)
  BY DEF AnyInv, Planted
<1>2. /\ T \in SUBSET Page /\ h \in [Page -> Nat] /\ Shape(Cur, root_page_id, T, h)
      /\ root_page_id \in Page
  BY <1>0, <1>1, TreeTyped DEF Shape
<1>3. Above(h) /\ CurFacts /\ Cur \in [Page -> Node]
  BY <1>0, <1>1, TreeAbove, CurIs DEF CurFacts
<1>4. Stored = Items(Cur, T) /\ Stored = ToSet(Values(Overlay, root_page_id))
  BY <1>0, <1>1, StoredIs DEF StoredFact
<1>5. 0 \in T /\ 0 \in Page
  BY <1>1, <1>2 DEF Leftmost
<1>6. Cur[0] \in Node /\ Sound(Cur[0]) /\ Cur[0].leaf
  BY <1>0, <1>3, <1>5, ZeroIs DEF CurFacts, ZeroFact
<1>7. ToSet(Cur[0].ents) \subseteq Stored
  BY <1>4, <1>5 DEF Items
<1>8. PICK f : Traversal(f) /\ Values(Overlay, root_page_id) = f[root_page_id]
  BY <1>2, <1>3, ValuesIs
<1>9. f \in [Page -> Seq(Entry)] /\ \A p \in Page : f[p] = InOrder(Cur[p], f)
  BY <1>8 DEF Traversal
<1>10. Stored \subseteq Entry
  <2>1. f[root_page_id] \in Seq(Entry)
    BY <1>2, <1>9
  <2>2. ToSet(f[root_page_id]) \subseteq Entry
    BY <2>1, ToSetIs
  <2> QED BY <2>2, <1>4, <1>8
<1>11. ASSUME root_page_id = 0 PROVE Stored = ToSet(Cur[0].ents)
  <2>1. f[0] = InOrder(Cur[0], f) /\ \A i \in 1..Len(Cur[0].kids) : f[Cur[0].kids[i]] \in Seq(Entry)
    BY <1>3, <1>5, <1>9 DEF Above
  <2>2. InOrder(Cur[0], f) = Cur[0].ents
    BY <2>1, <1>6, InOrderIs
  <2> QED BY <2>1, <2>2, <1>4, <1>8, <1>11
<1> QED BY <1>0, <1>6, <1>7, <1>10, <1>11

\* With page 0 as root it is the leftmost leaf.
RootZeroFact == IInv /\ TreeInv(0) /\ root_page_id = 0 => \E T : Planted(T)

\* In every state with page 0 as root there is such a tree.
LEMMA RootZero == RootZeroFact
<1> SUFFICES ASSUME IInv, TreeInv(0), root_page_id = 0 PROVE \E T : Planted(T)
  BY DEF RootZeroFact
<1>1. PICK T, h, R : Tree(0, T, h, R)
  BY DEF TreeInv
<1>2. 0 \in T
  BY <1>1 DEF Tree, Shape
<1>3. Cur[0].leaf
  BY ZeroIs DEF ZeroFact
<1>4. Leftmost(Cur, 0, T)
  <2>1. {0} \in SUBSET T
    BY <1>2
  <2> QED BY <2>1, <1>3 DEF Leftmost
<1> QED BY <1>1, <1>4 DEF Planted

\* A new file holds nothing.
AnyNewFact == Init => AnyInv /\ Stored = {}

\* In every state a new file is one of an empty store.
LEMMA AnyNew == AnyNewFact
<1> SUFFICES ASSUME Init PROVE AnyInv /\ Stored = {}
  BY DEF AnyNewFact
<1>1. IInv /\ TreeInv(0)
  BY InitIInv, InitTree
<1>2. root_page_id = 0 /\ todo = {} /\ writes = <<>> /\ disk = NewFile
  BY DEF Init
<1>3. AnyInv
  BY <1>1, <1>2, RootZero DEF RootZeroFact, AnyInv, Agreed
<1>4. disk[0] = EmptyLeaf
  BY <1>2 DEF NewFile, FormatRoot, WritePage
<1>5. Cur[0] = EmptyLeaf
  BY <1>1, <1>2, <1>4, QuietIs DEF QuietFact
<1>6. ToSet(Cur[0].ents) = {}
  BY <1>5 DEF EmptyLeaf, ToSet
<1> QED BY <1>2, <1>3, <1>6, AnyIs DEF AnyFact

\* Two trees with the same entries are the same store.
LEMMA PlantedItems ==
  ASSUME IInv, IInv', NEW T, NEW T2, Planted(T), Planted(T2)'
  PROVE  Stored = Items(Cur, T) /\ Stored' = Items(Cur', T2)
<1>1. StoredFact /\ StoredFact'
  BY StoredIs, PTL
<1>2. PICK h, R : Tree(0, T, h, R)
  BY DEF Planted
<1>3. PICK h2, R2 : Tree(0, T2, h2, R2)'
  BY DEF Planted
<1> QED BY <1>1, <1>2, <1>3 DEF StoredFact

\* insert on a root with room: its entry is on its way.
LEMMA AnyEnterRoot ==
  ASSUME AnyInv, IInv', NEW e \in Entry, EnterRoot(e)
  PROVE  AnyInv' /\ Stored' = Stored
<1>1. PICK T, h, R : Tree(0, T, h, R) /\ Leftmost(Cur, root_page_id, T)
  BY DEF AnyInv, Planted
<1>2. UNCHANGED <<disk, writes, root_page_id>>
  BY DEF EnterRoot, Idle, fileVars
<1>3. Stored' = Stored /\ Cur' = Cur
  BY <1>2, SameStored
<1>4. Tree(0, T, h, R)'
  <2>1. ~(0 > 0)
    OBVIOUS
  <2> QED BY <1>1, <2>1, EnterRootTree DEF AnyInv
<1>5. Planted(T)'
  <2>1. Leftmost(Cur', root_page_id', T)
    BY <1>1, <1>2, <1>3
  <2> QED BY <2>1, <1>4 DEF Planted
<1>6. Agreed'
  BY <1>2, <1>3 DEF AnyInv, Agreed
<1> QED BY <1>3, <1>5, <1>6 DEF AnyInv

\* insert on a full root: its split moves entries, and adds and loses none.
LEMMA AnyGrowRoot ==
  ASSUME AnyInv, IInv', NEW e \in Entry, GrowRoot(e)
  PROVE  AnyInv' /\ Stored' = Stored
<1>1. PICK T, h, R : Tree(0, T, h, R) /\ Leftmost(Cur, root_page_id, T)
  BY DEF AnyInv, Planted
<1>2. IInv /\ root_page_id' = next_page_id
  BY DEF AnyInv, GrowRoot
<1>3. ~(0 > 0)
  OBVIOUS
<1>4. /\ T \in SUBSET (0..next_page_id - 1) /\ T \in SUBSET Page /\ next_page_id \in Nat
      /\ root_page_id \in T
  BY <1>1, <1>2, TreeTyped DEF Shape
<1>5. Cur \in [Page -> Node]
  BY <1>2, CurIs DEF CurFacts
<1>6. PICK n : n = next_page_id
  OBVIOUS
<1>7. PICK old : old = root_page_id
  OBVIOUS
<1>8. n \in Page \ T /\ n + 1 \in Page /\ old \in T /\ old # n
  BY <1>4, <1>6, <1>7 DEF Page
<1> DEFINE c == [Cur EXCEPT ![n] = NewRoot(old)]
<1>9. /\ \E T2, h2, R2 : T2 = T \cup {next_page_id, next_page_id + 1} /\ Tree(0, T2, h2, R2)'
      /\ Divided([Cur EXCEPT ![next_page_id] = NewRoot(root_page_id)],
                 T \cup {next_page_id}, next_page_id, 1, next_page_id + 1,
                 root_page_id, Cur')
      /\ Agreed'
  BY <1>1, <1>2, <1>3, GrowRootTree
<1>10. Divided(c, T \cup {n}, n, 1, n + 1, old, Cur')
  BY <1>6, <1>7, <1>9
<1>11. PICK T2, h2, R2 : T2 = T \cup {n, n + 1} /\ Tree(0, T2, h2, R2)'
  BY <1>6, <1>9
<1>12. /\ c \in [Page -> Node] /\ Items(c, T \cup {n}) = Items(Cur, T)
       /\ Leftmost(c, n, T \cup {n})
  <2>1. Leftmost(Cur, old, T)
    BY <1>1, <1>7
  <2> HIDE DEF c
  <2>2. PICK b : b = Cur
    OBVIOUS
  <2>3. /\ b \in [Page -> Node] /\ T \in SUBSET Page /\ old \in T /\ n \in Page \ T
        /\ Leftmost(b, old, T)
    BY <2>1, <2>2, <1>4, <1>5, <1>8
  <2>4. /\ [b EXCEPT ![n] = NewRoot(old)] \in [Page -> Node]
        /\ Items([b EXCEPT ![n] = NewRoot(old)], T \cup {n}) = Items(b, T)
        /\ Leftmost([b EXCEPT ![n] = NewRoot(old)], n, T \cup {n})
    BY <2>3, GrowItems
  <2> QED BY <2>2, <2>4 DEF c
<1> HIDE DEF c
<1>13. T \cup {n} \in SUBSET Page /\ (T \cup {n}) \cup {n + 1} = T2
  BY <1>4, <1>8, <1>11
<1>14. Items(Cur', T2) = Items(Cur, T) /\ Leftmost(Cur', n, T2)
  BY <1>8, <1>10, <1>12, <1>13, SplitItems, SplitLeftmost
<1>15. Planted(T) /\ Planted(T2)'
  <2>1. Leftmost(Cur', root_page_id', T2)
    BY <1>2, <1>6, <1>14
  <2> QED BY <2>1, <1>1, <1>11 DEF Planted
<1>16. Stored' = Stored
  BY <1>2, <1>14, <1>15, PlantedItems
<1> QED BY <1>9, <1>15, <1>16 DEF AnyInv

\* An insert that begins leaves the store as it is.
LEMMA AnyInsert ==
  ASSUME AnyInv, NEW e \in Entry, Insert(e)
  PROVE  /\ AnyInv' /\ Stored' = Stored
         /\ writes = <<>> /\ todo = {} /\ todo' = {e} /\ disk' = disk
<1>1. IInv'
  BY StepIInv DEF AnyInv, Next
<1>2. AnyInv' /\ Stored' = Stored
  BY <1>1, AnyEnterRoot, AnyGrowRoot DEF Insert
<1> QED BY <1>2 DEF Insert, EnterRoot, GrowRoot, Idle, fileVars

-----------------------------------------------------------------------------
(* The steps of such an insert.                                              *)

\* Each entry of S has one of U with its key.
KeysKept(S, U) == \A x \in S : \E y \in U : y.key = x.key

\* What a step of an insert does: no other entry comes, no key goes, page 0 of the
\* file gets entries of the store only, and the entry is there when it is placed.
StepKept ==
  /\ AnyInv'
  /\ Stored' \cup todo' \subseteq Stored \cup todo
  /\ KeysKept(Stored \cup todo, Stored' \cup todo')
  /\ ToSet(disk'[0].ents) \subseteq ToSet(disk[0].ents) \cup Stored
  /\ \/ todo' = todo /\ Stored' = Stored
     \/ todo' = {} /\ todo \subseteq Stored'

\* A step that moves entries at most, and leaves the file as it is.
LEMMA SameEntries ==
  ASSUME AnyInv', Stored' = Stored, todo' = todo, disk' = disk
  PROVE  StepKept
BY DEF StepKept, KeysKept

\* A page write.
LEMMA AnyFlush ==
  ASSUME AnyInv, IInv', FlushPage
  PROVE  StepKept
<1>1. PICK T, h, R : Tree(0, T, h, R) /\ Leftmost(Cur, root_page_id, T)
  BY DEF AnyInv, Planted
<1>2. PICK w : w = Head(writes)
  OBVIOUS
<1>3. /\ w = writes[1] /\ Len(writes) \in Nat /\ Len(writes) >= 1
      /\ DOMAIN writes = 1..Len(writes) /\ DOMAIN writes' = 1..Len(writes) - 1
      /\ \A i \in 1..Len(writes) - 1 : i + 1 \in DOMAIN writes /\ writes'[i] = writes[i + 1]
      /\ disk'[w.page] = w.node
      /\ \A p \in DOMAIN disk' : p # w.page =>
           disk'[p] = IF p \in DOMAIN disk THEN disk[p] ELSE ZeroPage
      /\ DOMAIN disk \subseteq DOMAIN disk'
      /\ UNCHANGED <<root_page_id, todo, at>>
  BY <1>2, FlushIs DEF AnyInv
<1>4. Cur' = Cur
  BY FlushCur DEF AnyInv
<1>5. Planted(T) /\ Planted(T)'
  <2>1. Tree(0, T, h, R)'
    BY <1>1, FlushTree DEF AnyInv
  <2>2. Leftmost(Cur', root_page_id', T)
    BY <1>1, <1>3, <1>4
  <2> QED BY <2>1, <2>2, <1>1 DEF Planted
<1>6. Stored' = Stored
  BY <1>4, <1>5, PlantedItems DEF AnyInv
<1>7. Agreed'
  <2> SUFFICES ASSUME NEW i \in DOMAIN writes'
               PROVE  Cur'[writes'[i].page] = writes'[i].node
    BY DEF Agreed
  <2>1. i + 1 \in DOMAIN writes /\ writes'[i] = writes[i + 1]
    BY <1>3
  <2> QED BY <2>1, <1>4 DEF AnyInv, Agreed
<1>8. ToSet(disk'[0].ents) \subseteq ToSet(disk[0].ents) \cup Stored
  <2>1. CASE w.page = 0
    <3>1. disk'[0] = Cur[0]
      BY <2>1, <1>3 DEF AnyInv, Agreed
    <3> QED BY <3>1, AnyIs DEF AnyFact
  <2>2. CASE w.page # 0
    <3>1. 0 \in DOMAIN disk
      BY DEF AnyInv, IInv, PageZeroDue, Written
    <3>2. disk'[0] = disk[0]
      BY <2>2, <3>1, <1>3
    <3> QED BY <3>2
  <2> QED BY <2>1, <2>2
<1>9. AnyInv'
  BY <1>5, <1>7 DEF AnyInv
<1> QED BY <1>3, <1>6, <1>8, <1>9 DEF StepKept, KeysKept

\* Going down to a child.
LEMMA AnyDescend ==
  ASSUME AnyInv, IInv', writes = <<>>, NEW e \in todo, Descend(e, ReadPage(disk, at))
  PROVE  StepKept
<1>1. PICK T, h, R : Tree(0, T, h, R) /\ Leftmost(Cur, root_page_id, T)
  BY DEF AnyInv, Planted
<1>2. UNCHANGED <<disk, writes, root_page_id, todo>>
  BY DEF Descend, fileVars
<1>3. Stored' = Stored /\ Cur' = Cur
  BY <1>2, SameStored
<1>4. Planted(T)'
  <2>1. Tree(0, T, h, R)'
    BY <1>1, DescendTree DEF AnyInv
  <2>2. Leftmost(Cur', root_page_id', T)
    BY <1>1, <1>2, <1>3
  <2> QED BY <2>1, <2>2 DEF Planted
<1>5. Agreed'
  BY <1>2, <1>3 DEF AnyInv, Agreed
<1> QED BY <1>2, <1>3, <1>4, <1>5, SameEntries DEF AnyInv

\* Splitting a child on the way down.
LEMMA AnySplit ==
  ASSUME AnyInv, IInv', writes = <<>>, NEW e \in todo, SplitFullChild(e, ReadPage(disk, at))
  PROVE  StepKept
<1>1. PICK T, h, R : Tree(0, T, h, R) /\ Leftmost(Cur, root_page_id, T)
  BY DEF AnyInv, Planted
<1>2. UNCHANGED <<disk, root_page_id, todo>>
  BY DEF SplitFullChild, fileVars
<1>3. /\ IInv /\ T \in SUBSET Page /\ h \in [Page -> Nat] /\ Shape(Cur, root_page_id, T, h)
      /\ at \in T /\ Cur \in [Page -> Node]
  BY <1>1, TreeTyped, CurIs DEF AnyInv, CurFacts
<1>4. PICK n : n = next_page_id
  OBVIOUS
<1>5. /\ \E T2, h2, R2 : T2 = T \cup {next_page_id} /\ Tree(0, T2, h2, R2)'
      /\ \E i, kid : Divided(Cur, T, at, i, next_page_id, kid, Cur')
      /\ Agreed'
  BY <1>1, <1>3, SplitFullChildTree
<1>6. PICK T2, h2, R2 : T2 = T \cup {n} /\ Tree(0, T2, h2, R2)'
  BY <1>4, <1>5
<1>7. PICK i, kid : Divided(Cur, T, at, i, n, kid, Cur')
  BY <1>4, <1>5
<1>8. kid # at
  <2>1. Kid(Cur, at, i, kid)
    BY <1>7 DEF Divided
  <2> QED BY <2>1, <1>3, KidOf
<1>9. Items(Cur', T2) = Items(Cur, T) /\ Leftmost(Cur', root_page_id, T2)
  BY <1>1, <1>3, <1>6, <1>7, <1>8, SplitItems, SplitLeftmost
<1>10. Planted(T) /\ Planted(T2)'
  <2>1. Leftmost(Cur', root_page_id', T2)
    BY <1>2, <1>9
  <2> QED BY <2>1, <1>1, <1>6 DEF Planted
<1>11. Stored' = Stored
  BY <1>3, <1>9, <1>10, PlantedItems
<1> QED BY <1>2, <1>5, <1>10, <1>11, SameEntries DEF AnyInv

\* The node that a step at it is about is the one insert_non_full read.
LEMMA AtNode ==
  ASSUME AnyInv, writes = <<>>, NEW T, NEW h, NEW R, Tree(0, T, h, R), NEW e \in todo
  PROVE  /\ e \in Entry /\ todo = {e} /\ at \in T /\ at \in Page /\ T \in SUBSET Page
         /\ Cur \in [Page -> Node]
         /\ Cur[at] = ReadPage(disk, at) /\ Cur[at] \in Node /\ Sound(Cur[at])
<1>1. e \in Entry /\ todo = {e} /\ at \in T /\ at \in Page /\ T \in SUBSET Page
  BY TreeTyped DEF AnyInv
<1>2. CurFacts
  BY CurIs DEF AnyInv
<1>3. NoneDue(at)
  BY DEF NoneDue
<1> QED BY <1>1, <1>2, <1>3 DEF CurFacts

\* Placing a new key in its leaf.
LEMMA AnyAddToLeaf ==
  ASSUME AnyInv, IInv', writes = <<>>, NEW e \in todo, AddToLeaf(e, ReadPage(disk, at))
  PROVE  StepKept
<1>1. PICK T, h, R : Tree(0, T, h, R) /\ Leftmost(Cur, root_page_id, T)
  BY DEF AnyInv, Planted
<1>2. PICK p : p = at
  OBVIOUS
<1>3. /\ IInv /\ e \in Entry /\ todo = {e} /\ p \in T /\ p \in Page /\ T \in SUBSET Page
      /\ Cur \in [Page -> Node]
      /\ Cur[p] = ReadPage(disk, at) /\ Cur[p] \in Node /\ Sound(Cur[p])
  BY <1>1, <1>2, AtNode DEF AnyInv
<1>4. PICK i \in 1..Len(Cur[p].ents) + 1 : Place([Cur[p] EXCEPT !.ents = InsertAt(@, i, e)])
  BY <1>3 DEF AddToLeaf
<1>5. PICK m : m = [Cur[p] EXCEPT !.ents = InsertAt(@, i, e)]
  OBVIOUS
<1>6. Cur[p].leaf /\ ~Full(Cur[p])
  BY <1>2, <1>3, RoomAtNode DEF AddToLeaf
<1>7. /\ m \in Node /\ m.leaf = Cur[p].leaf /\ m.kids = Cur[p].kids
      /\ m.ents = InsertAt(Cur[p].ents, i, e)
  <2>1. [Cur[p] EXCEPT !.ents = InsertAt(@, i, e)] \in Node
    BY <1>3, <1>4, <1>6, PlacedProps
  <2> QED BY <2>1, <1>3, <1>5 DEF Node
<1>8. /\ Cur' \in [Page -> Node] /\ Cur'[at] = m /\ \A x \in Page : x # at => Cur'[x] = Cur[x]
      /\ Agreed' /\ todo' = {} /\ UNCHANGED <<disk, root_page_id>>
  BY <1>3, <1>4, <1>5, PlaceCur
<1>9. Items(Cur', T) = Items(Cur, T) \cup {e} /\ Leftmost(Cur', root_page_id, T)
  <2>1. Cur'[p] = m /\ \A x \in T : x # p => Cur'[x] = Cur[x]
    BY <1>2, <1>3, <1>8
  <2>2. /\ Items(Cur', T) = Items(Cur, T) \cup {e}
        /\ \A r : Leftmost(Cur, r, T) => Leftmost(Cur', r, T)
    BY <2>1, <1>3, <1>4, <1>7, AddItems
  <2> QED BY <2>2, <1>1
<1>10. Planted(T) /\ Planted(T)'
  <2>1. Tree(0, T, h, R)'
    BY <1>1, <1>3, AddToLeafTree
  <2>2. Leftmost(Cur', root_page_id', T)
    BY <1>8, <1>9
  <2> QED BY <2>1, <2>2, <1>1 DEF Planted
<1>11. Stored' = Stored \cup {e}
  BY <1>3, <1>9, <1>10, PlantedItems
<1>12. AnyInv'
  BY <1>8, <1>10 DEF AnyInv
<1> QED BY <1>3, <1>8, <1>11, <1>12 DEF StepKept, KeysKept

\* One entry of one node of a tree is replaced by another with its key.
LEMMA ReplaceItems ==
  ASSUME NEW c \in [Page -> Node], NEW T \in SUBSET Page, NEW p \in T, NEW e \in Entry,
         NEW j \in 1..Len(c[p].ents), c[p].ents[j].key = e.key, NEW m \in Node,
         m.leaf = c[p].leaf, m.kids = c[p].kids, Len(m.ents) = Len(c[p].ents),
         \A k \in 1..Len(m.ents) : m.ents[k] = IF k = j THEN e ELSE c[p].ents[k],
         NEW d, d[p] = m, \A x \in T : x # p => d[x] = c[x]
  PROVE  /\ Items(d, T) \subseteq Items(c, T) \cup {e}
         /\ KeysKept(Items(c, T), Items(d, T)) /\ e \in Items(d, T)
         /\ \A r : Leftmost(c, r, T) => Leftmost(d, r, T)
<1>1. /\ c[p].ents \in Seq(Entry) /\ m.ents \in Seq(Entry)
      /\ Len(m.ents) = Len(c[p].ents)
      /\ \A k \in 1..Len(m.ents) : m.ents[k] = IF k = j THEN e ELSE c[p].ents[k]
  BY NodeProps
<1>2. d[p] = m /\ \A x \in T : x # p => d[x] = c[x]
  OBVIOUS
<1>3. e \in ToSet(m.ents)
  <2>1. m.ents[j] = e
    BY <1>1
  <2> QED BY <2>1, <1>1, ToSetIs
<1>4. ASSUME NEW x \in ToSet(m.ents) PROVE x \in ToSet(c[p].ents) \/ x = e
  <2>1. PICK k \in 1..Len(m.ents) : m.ents[k] = x
    BY <1>1, <1>4, ToSetIs
  <2>2. CASE k = j
    BY <1>1, <2>1, <2>2
  <2>3. CASE k # j
    <3>1. c[p].ents[k] = x
      BY <1>1, <2>1, <2>3
    <3> QED BY <1>1, <2>1, <3>1, ToSetIs
  <2> QED BY <2>2, <2>3
<1>5. ASSUME NEW x \in ToSet(c[p].ents) PROVE \E y \in ToSet(m.ents) : y.key = x.key
  <2>1. PICK k \in 1..Len(m.ents) : c[p].ents[k] = x
    BY <1>1, <1>5, ToSetIs
  <2>2. m.ents[k] \in ToSet(m.ents)
    BY <1>1, <2>1, ToSetIs
  <2>3. CASE k = j
    BY <1>1, <2>1, <2>2, <2>3
  <2>4. CASE k # j
    BY <1>1, <2>1, <2>2, <2>4
  <2> QED BY <2>3, <2>4
<1>6. Items(d, T) \subseteq Items(c, T) \cup {e}
  <2> SUFFICES ASSUME NEW x \in Items(d, T) PROVE x \in Items(c, T) \cup {e}
    OBVIOUS
  <2>1. PICK z \in T : x \in ToSet(d[z].ents)
    BY DEF Items
  <2>2. CASE z = p
    BY <2>1, <2>2, <1>2, <1>4 DEF Items
  <2>3. CASE z # p
    BY <2>1, <2>3, <1>2 DEF Items
  <2> QED BY <2>2, <2>3
<1>7. KeysKept(Items(c, T), Items(d, T))
  <2> SUFFICES ASSUME NEW x \in Items(c, T) PROVE \E y \in Items(d, T) : y.key = x.key
    BY DEF KeysKept
  <2>1. PICK z \in T : x \in ToSet(c[z].ents)
    BY DEF Items
  <2>2. CASE z = p
    <3>1. PICK y \in ToSet(m.ents) : y.key = x.key
      BY <2>1, <2>2, <1>5
    <3>2. y \in Items(d, T)
      BY <3>1, <1>2 DEF Items
    <3> QED BY <3>1, <3>2
  <2>3. CASE z # p
    BY <2>1, <2>3, <1>2 DEF Items
  <2> QED BY <2>2, <2>3
<1>8. e \in Items(d, T)
  BY <1>2, <1>3 DEF Items
<1>9. ASSUME NEW r, Leftmost(c, r, T) PROVE Leftmost(d, r, T)
  <2>1. PICK P \in SUBSET T :
          /\ 0 \in P /\ r \in P
          /\ \A x \in P : IF c[x].leaf THEN x = 0 ELSE c[x].kids[1] \in P
    BY <1>9 DEF Leftmost
  <2>2. \A x \in P : d[x].leaf = c[x].leaf /\ d[x].kids = c[x].kids
    BY <1>2, <2>1
  <2> QED BY <2>1, <2>2 DEF Leftmost
<1> QED BY <1>6, <1>7, <1>8, <1>9

\* Overwriting an entry with the same key.
LEMMA AnyUpdate ==
  ASSUME AnyInv, IInv', writes = <<>>, NEW e \in todo, UpdateEntry(e, ReadPage(disk, at))
  PROVE  StepKept
<1>1. PICK T, h, R : Tree(0, T, h, R) /\ Leftmost(Cur, root_page_id, T)
  BY DEF AnyInv, Planted
<1>2. PICK p : p = at
  OBVIOUS
<1>3. /\ IInv /\ e \in Entry /\ todo = {e} /\ p \in T /\ p \in Page /\ T \in SUBSET Page
      /\ Cur \in [Page -> Node]
      /\ Cur[p] = ReadPage(disk, at) /\ Cur[p] \in Node /\ Sound(Cur[p])
  BY <1>1, <1>2, AtNode DEF AnyInv
<1>4. PICK n : n = Cur[p]
  OBVIOUS
<1>5. PICK j \in Matches(n, e.key) : Place([n EXCEPT !.ents = ReplaceAt(@, j, e)])
  BY <1>3, <1>4 DEF UpdateEntry
<1>6. PICK m : m = [n EXCEPT !.ents = ReplaceAt(@, j, e)]
  OBVIOUS
<1>7. /\ j \in 1..Len(n.ents) /\ n.ents[j].key = e.key
      /\ n \in Node /\ Sound(n) /\ n.ents \in Seq(Entry) /\ Len(n.ents) \in Nat
      /\ j \in 1..Len(n.ents) + 1 /\ j <= Len(n.ents)
  <2>1. j \in 1..Len(n.ents) /\ n.ents[j].key = e.key
    BY <1>5 DEF Matches
  <2>2. n.ents \in Seq(Entry) /\ Len(n.ents) \in Nat /\ n \in Node /\ Sound(n)
    BY <1>3, <1>4, NodeProps
  <2> QED BY <2>1, <2>2
<1>8. m \in Node /\ Sound(m) /\ m.leaf = n.leaf
  <2>1. LET k == [n EXCEPT !.ents = ReplaceAt(@, j, e)]
        IN k \in Node /\ Sound(k) /\ k.leaf = n.leaf
    BY <1>3, <1>7, PlacedProps
  <2> QED BY <2>1, <1>6
<1>9. /\ m.kids = n.kids /\ Len(m.ents) = Len(n.ents)
      /\ \A k \in 1..Len(m.ents) : m.ents[k] = IF k = j THEN e ELSE n.ents[k]
  <2>1. m.ents = ReplaceAt(n.ents, j, e) /\ m.kids = n.kids
    BY <1>6, <1>7 DEF Node
  <2>2. PICK s : s = n.ents
    OBVIOUS
  <2>3. ReplaceAt(s, j, e) = [s EXCEPT ![j] = e]
    BY DEF ReplaceAt
  <2>4. s \in Seq(Entry) /\ j \in 1..Len(s) /\ Len(s) \in Nat
    BY <1>7, <2>2
  <2>5. PICK t : t = [s EXCEPT ![j] = e]
    OBVIOUS
  <2>6. Len(t) = Len(s) /\ \A k \in 1..Len(s) : t[k] = IF k = j THEN e ELSE s[k]
    BY <1>3, <2>4, <2>5
  <2> QED BY <2>1, <2>2, <2>3, <2>5, <2>6
<1>10. /\ Cur' \in [Page -> Node] /\ Cur'[at] = m /\ \A x \in Page : x # at => Cur'[x] = Cur[x]
       /\ Agreed' /\ todo' = {} /\ UNCHANGED <<disk, root_page_id>>
  BY <1>3, <1>5, <1>6, PlaceCur
<1>11. /\ Items(Cur', T) \subseteq Items(Cur, T) \cup {e}
       /\ KeysKept(Items(Cur, T), Items(Cur', T)) /\ e \in Items(Cur', T)
       /\ Leftmost(Cur', root_page_id, T)
  <2>1. Cur'[p] = m /\ \A x \in T : x # p => Cur'[x] = Cur[x]
    BY <1>2, <1>3, <1>10
  <2>2. PICK b : b = Cur
    OBVIOUS
  <2>3. /\ b \in [Page -> Node] /\ j \in 1..Len(b[p].ents) /\ b[p].ents[j].key = e.key
        /\ m.leaf = b[p].leaf /\ m.kids = b[p].kids /\ Len(m.ents) = Len(b[p].ents)
        /\ \A k \in 1..Len(m.ents) : m.ents[k] = IF k = j THEN e ELSE b[p].ents[k]
        /\ e \in Entry /\ p \in T /\ T \in SUBSET Page /\ m \in Node
    BY <2>2, <1>3, <1>4, <1>7, <1>8, <1>9
  <2>4. \A x \in T : x # p => Cur'[x] = b[x]
    BY <2>1, <2>2
  <2>5. PICK d : d = Cur'
    OBVIOUS
  <2>6. d[p] = m /\ \A x \in T : x # p => d[x] = b[x]
    BY <2>1, <2>4, <2>5
  <2>7. /\ Items(d, T) \subseteq Items(b, T) \cup {e}
        /\ KeysKept(Items(b, T), Items(d, T)) /\ e \in Items(d, T)
        /\ \A r : Leftmost(b, r, T) => Leftmost(d, r, T)
    BY <2>3, <2>6, ReplaceItems
  <2> QED BY <2>2, <2>5, <2>7, <1>1
<1>12. Planted(T) /\ Planted(T)'
  <2>1. Tree(0, T, h, R)'
    BY <1>1, <1>3, UpdateEntryTree
  <2>2. Leftmost(Cur', root_page_id', T)
    BY <1>10, <1>11
  <2> QED BY <2>1, <2>2, <1>1 DEF Planted
<1>13. Stored = Items(Cur, T) /\ Stored' = Items(Cur', T)
  BY <1>3, <1>12, PlantedItems
<1>14. AnyInv'
  BY <1>10, <1>12 DEF AnyInv
<1>15. KeysKept(Stored \cup todo, Stored' \cup todo')
  BY <1>3, <1>11, <1>13 DEF KeysKept
<1> QED BY <1>3, <1>10, <1>11, <1>13, <1>14, <1>15 DEF StepKept

\* Every step of an insert keeps the invariant and the keys.
LEMMA AnyStep ==
  ASSUME AnyInv, Step
  PROVE  StepKept
<1>1. IInv'
  BY StepIInv DEF AnyInv, Next
<1>2. CASE FlushPage
  BY <1>1, <1>2, AnyFlush
<1>3. CASE Visit
  <2>1. PICK e \in todo : \/ UpdateEntry(e, ReadPage(disk, at))
                          \/ AddToLeaf(e, ReadPage(disk, at))
                          \/ Descend(e, ReadPage(disk, at))
                          \/ SplitFullChild(e, ReadPage(disk, at))
    BY <1>3 DEF Visit
  <2>2. writes = <<>>
    BY <1>3 DEF Visit
  <2> QED BY <1>1, <2>1, <2>2, AnyUpdate, AnyAddToLeaf, AnyDescend, AnySplit
<1> QED BY <1>2, <1>3 DEF Step

\* A new process finds what page 0 of the file has.
LEMMA AnyRestart ==
  ASSUME AnyInv, Restart
  PROVE  /\ AnyInv' /\ Stored' = ToSet(disk[0].ents) /\ Stored' = ToSet(AllValues)'
         /\ todo' = {} /\ writes' = <<>> /\ at' = 0 /\ disk' = disk
<1>1. IInv'
  BY StepIInv DEF AnyInv, Next
<1>2. /\ root_page_id' = 0 /\ todo' = {} /\ writes' = <<>> /\ at' = 0
      /\ 0 \in DOMAIN disk /\ disk[0] # ZeroPage
  BY DEF AnyInv, IInv, PageZeroDue, Written, Restart
<1>3. disk' = disk
  BY <1>2 DEF Restart, FormatRoot
<1>4. TreeInv(0)'
  <2>1. PICK T, h, R : Tree(0, T, h, R)
    BY DEF AnyInv, Planted
  <2> QED BY <2>1, RestartTree DEF AnyInv
<1>5. AnyInv'
  <2>1. RootZeroFact'
    BY RootZero, PTL
  <2>2. \E T : Planted(T)'
    BY <1>1, <1>2, <1>4, <2>1 DEF RootZeroFact
  <2>3. Agreed'
    BY <1>2 DEF Agreed
  <2> QED BY <1>1, <2>2, <2>3 DEF AnyInv
<1>6. QuietFact' /\ AnyFact'
  BY QuietIs, AnyIs, <1>1, PTL
<1>7. Cur'[0] = disk[0] /\ Stored' = ToSet(AllValues)'
  BY <1>2, <1>3, <1>6 DEF QuietFact
<1> QED BY <1>2, <1>3, <1>5, <1>6, <1>7 DEF AnyFact

-----------------------------------------------------------------------------
(* What readers of such a tree find.                                         *)

\* With no write due get_all_values returns the store.
LEMMA AnyReaders ==
  ASSUME AnyInv, writes = <<>>
  PROVE  AllValues \in Seq(Entry) /\ ToSet(AllValues) = Stored /\ Cur[0] = disk[0]
<1>1. PICK T, h, R : Tree(0, T, h, R)
  BY DEF AnyInv, Planted
<1>2. 0 \in Nat
  OBVIOUS
<1>3. Values(Overlay, root_page_id) \in Seq(Entry)
  BY <1>1, <1>2, ValuesAscend DEF AnyInv
<1>4. Overlay = disk /\ ToSet(AllValues) = Stored /\ Cur[0] = disk[0]
  BY QuietIs DEF AnyInv, QuietFact
<1> QED BY <1>3, <1>4 DEF AllValues

\* What is joined has the members of its pieces.
LEMMA JoinedItems ==
  ASSUME NEW N, NEW s0, NEW piece, Pieces(N, s0, piece), NEW u, Joined(N, s0, piece, u)
  PROVE  \A x : x \in ToSet(u[N]) <=>
                  x \in ToSet(s0) \/ \E i \in 1..N : x \in ToSet(piece[i])
<1>0. N \in Nat /\ s0 \in Seq(Entry) /\ piece \in [1..N -> Seq(Entry)]
  BY DEF Pieces
<1>a. u[0] = s0 /\ \A i \in 1..N : u[i] = u[i - 1] \o piece[i]
  <2>1. 0 \in 0..N /\ \A i \in 1..N : i \in 0..N /\ i # 0
    BY <1>0
  <2> QED BY <2>1 DEF Joined
<1> DEFINE Done(i) == /\ u[i] \in Seq(Entry)
                      /\ \A x : x \in ToSet(u[i]) <=>
                                  x \in ToSet(s0) \/ \E j \in 1..i : x \in ToSet(piece[j])
           S == {i \in Nat : i <= N => Done(i)}
<1>1. 0 \in S
  <2>1. u[0] = s0
    BY <1>a
  <2>2. u[0] \in Seq(Entry) /\ \A j : j \notin 1..0
    BY <2>1, <1>0
  <2> QED BY <2>1, <2>2
<1>2. ASSUME NEW i \in S PROVE i + 1 \in S
  <2> SUFFICES ASSUME i + 1 <= N PROVE Done(i + 1)
    OBVIOUS
  <2>1. i \in Nat /\ i + 1 \in 1..N /\ (i + 1) - 1 = i /\ i <= N
    BY <1>0
  <2>2. u[i + 1] = u[i] \o piece[i + 1] /\ piece[i + 1] \in Seq(Entry)
    BY <2>1, <1>0, <1>a
  <2>3. Done(i)
    BY <2>1
  <2>4. PICK s : s = u[i]
    OBVIOUS
  <2>5. PICK t : t = piece[i + 1]
    OBVIOUS
  <2>6. s \in Seq(Entry) /\ t \in Seq(Entry) /\ u[i + 1] = s \o t
    BY <2>2, <2>3, <2>4, <2>5
  <2>7. s \o t \in Seq(Entry) /\ ToSet(s \o t) = ToSet(s) \cup ToSet(t)
    BY <2>6, Concat, ToSetConcat
  <2>8. \A j : j \in 1..i + 1 <=> j \in 1..i \/ j = i + 1
    BY <2>1
  <2>9. ASSUME NEW x
        PROVE  x \in ToSet(s) \cup ToSet(t) <=>
                 x \in ToSet(s0) \/ \E j \in 1..i + 1 : x \in ToSet(piece[j])
    BY <2>3, <2>4, <2>5, <2>8
  <2> QED BY <2>6, <2>7, <2>9
<1>3. S = Nat
  <2> HIDE DEF S
  <2>1. S \in SUBSET Nat
    BY DEF S
  <2> QED BY <1>1, <1>2, <2>1, NatInd
<1>4. Done(N)
  <2>1. N \in S
    <3> HIDE DEF S
    <3> QED BY <1>0, <1>3
  <2>2. N <= N
    BY <1>0
  <2> HIDE DEF Done
  <2> QED BY <2>1, <2>2
<1> QED BY <1>4

\* u is how far the picking of the entries of s at the positions I has come.
Picking(s, I, u) ==
  u = [i \in 0..Len(s) |->
         IF i = 0 THEN <<>> ELSE u[i - 1] \o IF i \in I THEN <<s[i]>> ELSE <<>>]

\* A loop that picks entries ends with those picked, and no others.
LEMMA PickingIs ==
  ASSUME NEW s \in Seq(Entry), NEW I
  PROVE  /\ \E u : Picking(s, I, u)
         /\ \A u : Picking(s, I, u) =>
                     /\ u[Len(s)] \in Seq(Entry)
                     /\ \A x : x \in ToSet(u[Len(s)]) <=> \E i \in 1..Len(s) : i \in I /\ s[i] = x
<1> DEFINE M == Len(s)
           own(i) == IF i \in I THEN <<s[i]>> ELSE <<>>
           ones == [i \in 1..M |-> own(i)]
           none == <<>>
<1>1. M \in Nat /\ \A i \in 1..M : s[i] \in Entry
  BY ElementOfSeq
<1>2. \A i \in 1..M : ones[i] \in Seq(Entry)
  <2> SUFFICES ASSUME NEW i \in 1..M PROVE own(i) \in Seq(Entry)
    OBVIOUS
  <2>1. s[i] \in Entry
    BY <1>1
  <2> QED BY <2>1
<1>3. Pieces(M, none, ones)
  <2>1. ones \in [1..M -> Seq(Entry)]
    <3>1. ones = [i \in 1..M |-> ones[i]]
      OBVIOUS
    <3> HIDE DEF ones
    <3> QED BY <3>1, <1>2
  <2>2. none \in Seq(Entry)
    OBVIOUS
  <2> HIDE DEF ones, none
  <2> QED BY <2>1, <2>2, <1>1 DEF Pieces
<1>4. \A i \in 0..M : i # 0 => ones[i] = own(i)
  BY <1>1
<1>5. \A u : Picking(s, I, u) <=> Joined(M, none, ones, u)
  <2> TAKE u
  <2>1. Picking(s, I, u) <=> u = [i \in 0..M |-> IF i = 0 THEN none ELSE u[i - 1] \o own(i)]
    BY DEF Picking
  <2>2. Joined(M, none, ones, u) <=>
          u = [i \in 0..M |-> IF i = 0 THEN none ELSE u[i - 1] \o ones[i]]
    <3> HIDE DEF M, none, ones
    <3> QED BY DEF Joined
  <2> HIDE DEF M, none, ones, own
  <2>3. [i \in 0..M |-> IF i = 0 THEN none ELSE u[i - 1] \o own(i)]
        = [i \in 0..M |-> IF i = 0 THEN none ELSE u[i - 1] \o ones[i]]
    BY <1>4
  <2> QED BY <2>1, <2>2, <2>3
<1>6. \E u : Picking(s, I, u)
  <2> HIDE DEF M, none, ones
  <2>1. \E u : Joined(M, none, ones, u)
    BY <1>3, JoinedExists
  <2> QED BY <2>1, <1>5
<1>7. ASSUME NEW u, Picking(s, I, u)
      PROVE  /\ u[M] \in Seq(Entry)
             /\ \A x : x \in ToSet(u[M]) <=> \E i \in 1..M : i \in I /\ s[i] = x
  <2>1. Joined(M, none, ones, u)
    BY <1>5, <1>7
  <2>2. /\ u[M] \in Seq(Entry)
        /\ \A x : x \in ToSet(u[M]) <=> x \in ToSet(none) \/ \E i \in 1..M : x \in ToSet(ones[i])
    <3> HIDE DEF M, none, ones
    <3> QED BY <2>1, <1>3, JoinedIs, JoinedItems
  <2>3. ToSet(none) = {}
    BY DEF ToSet
  <2>4. ASSUME NEW i \in 1..M, NEW x
        PROVE  x \in ToSet(ones[i]) <=> i \in I /\ s[i] = x
    <3>1. ones[i] = own(i)
      OBVIOUS
    <3>2. ToSet(<<s[i]>>) = {s[i]}
      BY DEF ToSet
    <3>3. ToSet(<<>>) = {}
      BY DEF ToSet
    <3>4. CASE i \in I
      <4>1. ones[i] = <<s[i]>>
        BY <3>1, <3>4
      <4> HIDE DEF ones, own
      <4>2. ToSet(ones[i]) = {s[i]}
        BY <4>1, <3>2
      <4> QED BY <4>2, <3>4
    <3>5. CASE i \notin I
      <4>1. ones[i] = <<>>
        BY <3>1, <3>5
      <4> HIDE DEF ones, own
      <4>2. ToSet(ones[i]) = {}
        BY <4>1, <3>3
      <4> QED BY <4>2, <3>5
    <3> QED BY <3>4, <3>5
  <2> HIDE DEF ones, none, M
  <2> QED BY <2>2, <2>3, <2>4
<1> QED BY <1>6, <1>7

\* search_node finds in a node itself entries of the node with the key.
LEMMA OwnHitsItems ==
  ASSUME NEW n \in Node, NEW k
  PROVE  \A x \in ToSet(OwnHits(n, k)) : x \in ToSet(n.ents) /\ x.key = k
<1>0. n.ents \in Seq(Entry)
  BY NodeProps
<1>1. PICK s : s = n.ents
  OBVIOUS
<1>2. PICK I : I = {i \in 1..Len(s) : s[i].key = k}
  OBVIOUS
<1> DEFINE isHere(u) == u = [i \in 0..Len(s) |->
             IF i = 0 THEN <<>> ELSE u[i - 1] \o IF s[i].key = k THEN <<s[i]>> ELSE <<>>]
<1>3. s \in Seq(Entry) /\ Len(s) \in Nat
  BY <1>0, <1>1
<1>4. \A i \in 0..Len(s) : i # 0 => (i \in I <=> s[i].key = k)
  BY <1>2, <1>3
<1>5. \A u : isHere(u) <=> Picking(s, I, u)
  <2> TAKE u
  <2>1. [i \in 0..Len(s) |->
           IF i = 0 THEN <<>> ELSE u[i - 1] \o IF s[i].key = k THEN <<s[i]>> ELSE <<>>]
        = [i \in 0..Len(s) |->
             IF i = 0 THEN <<>> ELSE u[i - 1] \o IF i \in I THEN <<s[i]>> ELSE <<>>]
    BY <1>4
  <2> QED BY <2>1 DEF Picking
<1>6. PICK u0 : isHere(u0)
  BY <1>3, <1>5, PickingIs
<1>7. PICK u : isHere(u) /\ OwnHits(n, k) = u[Len(s)]
  BY <1>1, <1>6 DEF OwnHits
<1>8. \A x : x \in ToSet(u[Len(s)]) <=> \E i \in 1..Len(s) : i \in I /\ s[i] = x
  <2>1. Picking(s, I, u)
    BY <1>5, <1>7
  <2> QED BY <2>1, <1>3, PickingIs
<1> HIDE DEF isHere
<1>9. ASSUME NEW x \in ToSet(OwnHits(n, k)) PROVE x \in ToSet(s) /\ x.key = k
  <2>1. PICK i \in 1..Len(s) : i \in I /\ s[i] = x
    BY <1>7, <1>8, <1>9
  <2>2. x.key = k
    BY <1>2, <2>1
  <2>3. x \in ToSet(s)
    BY <1>3, <2>1, ToSetIs
  <2> QED BY <2>2, <2>3
<1> QED BY <1>1, <1>9

\* search_node finds in a node and below it what it has itself and what its
\* children found.
LEMMA HitsItems ==
  ASSUME NEW n \in Node, Sound(n), NEW k, NEW found,
         \A i \in 1..Len(n.kids) : found[n.kids[i]] \in Seq(Entry)
  PROVE  \A x \in ToSet(Hits(n, k, found)) :
           \/ x \in ToSet(n.ents) /\ x.key = k
           \/ \E i \in 1..Len(n.kids) : x \in ToSet(found[n.kids[i]])
<1>1. PICK b : /\ Joined(Len(n.kids), OwnHits(n, k), KidHits(n, found), b)
               /\ Hits(n, k, found) = b[Len(n.kids)]
  BY HitsIs
<1>2. Pieces(Len(n.kids), OwnHits(n, k), KidHits(n, found))
  BY HitsIs
<1>3. \A x : x \in ToSet(b[Len(n.kids)]) <=>
               \/ x \in ToSet(OwnHits(n, k))
               \/ \E i \in 1..Len(n.kids) : x \in ToSet(KidHits(n, found)[i])
  BY <1>1, <1>2, JoinedItems
<1>4. \A i \in 1..Len(n.kids) : KidHits(n, found)[i] = found[n.kids[i]]
  BY DEF KidHits
<1>5. \A x \in ToSet(OwnHits(n, k)) : x \in ToSet(n.ents) /\ x.key = k
  BY OwnHitsItems
<1> QED BY <1>1, <1>3, <1>4, <1>5

\* search finds entries of the store with the key it was given.
LEMMA AnySearch ==
  ASSUME AnyInv, writes = <<>>, NEW k
  PROVE  /\ Search(disk, root_page_id, k) \in Seq(Entry)
         /\ \A x \in ToSet(Search(disk, root_page_id, k)) : x \in Stored /\ x.key = k
<1>1. PICK T, h, R : Tree(0, T, h, R)
  BY DEF AnyInv, Planted
<1>2. /\ T \in SUBSET Page /\ h \in [Page -> Nat] /\ Shape(Cur, root_page_id, T, h)
      /\ root_page_id \in T /\ root_page_id \in Page
  BY <1>1, TreeTyped DEF AnyInv, Shape
<1>3. Above(h) /\ CurFacts /\ Cur \in [Page -> Node]
  BY <1>1, TreeAbove, CurIs DEF AnyInv, CurFacts
<1>4. PICK f : Searched(k, f) /\ Search(disk, root_page_id, k) = f[root_page_id]
  BY <1>2, <1>3, SearchIs
<1>5. f \in [Page -> Seq(Entry)] /\ \A p \in Page : f[p] = Hits(Cur[p], k, f)
  BY <1>4 DEF Searched
<1>6. Stored = Items(Cur, T)
  BY <1>1, StoredIs DEF AnyInv, StoredFact
<1> DEFINE S == {p \in Page : p \in T => \A x \in ToSet(f[p]) : x \in Stored /\ x.key = k}
<1>7. ASSUME NEW p \in Page, \A q \in Page : h[q] < h[p] => q \in S
      PROVE  p \in S
  <2> SUFFICES ASSUME p \in T, NEW x \in ToSet(f[p]) PROVE x \in Stored /\ x.key = k
    OBVIOUS
  <2>1. Cur[p] \in Node /\ Sound(Cur[p])
    BY <1>3 DEF CurFacts
  <2>2. \A i \in 1..Len(Cur[p].kids) : f[Cur[p].kids[i]] \in Seq(Entry)
    BY <1>3, <1>5 DEF Above
  <2>3. \A y \in ToSet(Hits(Cur[p], k, f)) :
          \/ y \in ToSet(Cur[p].ents) /\ y.key = k
          \/ \E i \in 1..Len(Cur[p].kids) : y \in ToSet(f[Cur[p].kids[i]])
    BY <2>1, <2>2, HitsItems
  <2>4. f[p] = Hits(Cur[p], k, f)
    BY <1>5
  <2>5. \/ x \in ToSet(Cur[p].ents) /\ x.key = k
        \/ \E i \in 1..Len(Cur[p].kids) : x \in ToSet(f[Cur[p].kids[i]])
    BY <2>3, <2>4
  <2>6. CASE x \in ToSet(Cur[p].ents) /\ x.key = k
    BY <2>6, <1>6 DEF Items
  <2>7. CASE \E i \in 1..Len(Cur[p].kids) : x \in ToSet(f[Cur[p].kids[i]])
    <3>1. PICK i \in 1..Len(Cur[p].kids) : x \in ToSet(f[Cur[p].kids[i]])
      BY <2>7
    <3>2. PICK q : Kid(Cur, p, i, q)
      BY DEF Kid
    <3>3. q \in T /\ q \in Page /\ h[q] + 1 = h[p] /\ h[q] \in Nat
      BY <3>2, <1>2, <1>3, KidOf
    <3>4. h[q] < h[p]
      BY <3>3
    <3>5. x \in ToSet(f[q])
      BY <3>1, <3>2 DEF Kid
    <3> QED BY <3>3, <3>4, <3>5, <1>7
  <2> QED BY <2>5, <2>6, <2>7
<1>8. Page \subseteq S
  <2> HIDE DEF S
  <2>1. Inherited(Page, S, h)
    BY <1>2, <1>7 DEF Inherited
  <2> QED BY <2>1, RankInd
<1>9. \A x \in ToSet(f[root_page_id]) : x \in Stored /\ x.key = k
  BY <1>2, <1>8
<1>10. f[root_page_id] \in Seq(Entry)
  BY <1>2, <1>5
<1> QED BY <1>4, <1>9, <1>10

\* When nothing happens the tree is as it was.
LEMMA AnyStutter ==
  ASSUME AnyInv, UNCHANGED vars
  PROVE  AnyInv' /\ Stored' = Stored
<1>1. PICK T, h, R : Tree(0, T, h, R) /\ Leftmost(Cur, root_page_id, T)
  BY DEF AnyInv, Planted
<1>2. UNCHANGED <<disk, writes, root_page_id>>
  BY DEF vars
<1>3. Stored' = Stored /\ Cur' = Cur
  BY <1>2, SameStored
<1>4. IInv'
  BY StepIInv DEF AnyInv
<1>5. Planted(T)'
  <2>1. Tree(0, T, h, R)'
    BY <1>1, StutterTree
  <2>2. Leftmost(Cur', root_page_id', T)
    BY <1>1, <1>2, <1>3
  <2> QED BY <2>1, <2>2 DEF Planted
<1>6. Agreed'
  BY <1>2, <1>3 DEF AnyInv, Agreed
<1> QED BY <1>3, <1>4, <1>5, <1>6 DEF AnyInv

\* The largest number of a bounded set of natural numbers.
LEMMA MaxIs ==
  ASSUME NEW N \in Nat, NEW S \in SUBSET (0..N), S # {}
  PROVE  Max(S) \in S /\ \A x \in S : x <= Max(S)
<1> DEFINE below == {N - x : x \in S}
<1>1. below \in SUBSET Nat /\ below # {}
  <2>1. \A x \in S : N - x \in Nat
    OBVIOUS
  <2> QED BY <2>1
<1>2. PICK m \in below : \A y \in below : m <= y
  BY <1>1, Least
<1>3. PICK top \in S : m = N - top
  BY <1>2
<1>4. \A x \in S : top >= x
  <2> TAKE x \in S
  <2>1. N - x \in below
    OBVIOUS
  <2>2. N - top <= N - x
    BY <1>2, <1>3, <2>1
  <2>3. top \in 0..N /\ x \in 0..N
    OBVIOUS
  <2> QED BY <2>2, <2>3
<1>5. Max(S) \in S /\ \A x \in S : Max(S) >= x
  BY <1>4 DEF Max
<1> QED BY <1>5

=============================================================================
