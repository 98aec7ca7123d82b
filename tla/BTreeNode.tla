------------------------------ MODULE BTreeNode ------------------------------
(***************************************************************************)
(* The nodes of the on-disk B-tree (BTree.hpp, class Node) and the pure    *)
(* part of its algorithms: loading a page, splitting a full child, and the *)
(* two traversals that readers use.  A page holds one serialised node; the *)
(* bytes are abstracted, the rules deserialize applies to them are not.    *)
(***************************************************************************)
EXTENDS Integers, Sequences, SequencesExt

CONSTANTS Degree,    \* Node<T>::DEGREE, fixed by sizeof(T) and PAGE_SIZE
          Key,       \* what operator==, < and > of T compare
          Val        \* the rest of an entry

ASSUME DegreeAssumption == Degree \in Nat /\ Degree >= 2
ASSUME KeyAssumption    == Key \subseteq Int

MaxKeys == 2 * Degree - 1

Entry == [key: Key, val: Val]
Page  == Nat
Node  == [leaf: BOOLEAN, ents: Seq(Entry), kids: Seq(Page)]

EmptyLeaf == [leaf |-> TRUE, ents |-> <<>>, kids |-> <<>>]

\* A page of zeros, which nobody has written.
ZeroPage == [leaf |-> FALSE, ents |-> <<>>, kids |-> <<>>]

\* deserialize: a count out of range reads as nothing, a leaf's children are
\* not read, and an internal node left without children becomes a leaf.
Load(n) ==
  LET ents == IF Len(n.ents) > MaxKeys THEN <<>> ELSE n.ents
      kids == IF n.leaf \/ Len(n.kids) > MaxKeys + 1 THEN <<>> ELSE n.kids
  IN [leaf |-> n.leaf \/ kids = <<>>, ents |-> ents, kids |-> kids]

\* A database file with n pages is a function from 0..n-1 to what they hold.
\* write_page past its end leaves zeros in the gap, and read_page returns zeros
\* beyond its end.
WritePage(d, page, node) ==
  [p \in DOMAIN d \cup 0..page |->
     IF p = page THEN node ELSE IF p \in DOMAIN d THEN d[p] ELSE ZeroPage]

ReadPage(d, page) == Load(IF page \in DOMAIN d THEN d[page] ELSE ZeroPage)

\* The pages a node names as its children.
Linked(n) == {n.kids[i] : i \in DOMAIN n.kids}

Full(n) == Len(n.ents) = MaxKeys

\* The positions of n whose entry is == to one with key k.
Matches(n, k) == {j \in 1..Len(n.ents) : n.ents[j].key = k}

\* i is where a key k stands among the entries of n: the last entry that k is
\* not smaller than is just before it.  The scan in insert_non_full runs from
\* the right, and std::sort puts a new leaf entry in this place.
IsSlot(n, k, i) ==
  /\ i \in 1..Len(n.ents) + 1
  /\ i > 1 => n.ents[i - 1].key <= k
  /\ \A j \in i..Len(n.ents) : k < n.ents[j].key

\* Mutants: the child's children are not cut off; the last entry is lost.
LowerHalf_keepsChildren(n) ==
  [leaf |-> n.leaf, ents |-> SubSeq(n.ents, 1, Degree - 1), kids |-> n.kids]

LowerHalf_losesEntry(n) ==
  [leaf |-> n.leaf,
   ents |-> SubSeq(n.ents, 1, Degree - 2),
   kids |-> IF n.leaf THEN <<>> ELSE SubSeq(n.kids, 1, Degree)]

\* split_child: what stays in the child that is split.
LowerHalf(n) ==
  [leaf |-> n.leaf,
   ents |-> SubSeq(n.ents, 1, Degree - 1),
   kids |-> IF n.leaf THEN <<>> ELSE SubSeq(n.kids, 1, Degree)]

\* Mutants: the median is copied as well as moved up; an entry is lost.
UpperHalf_copiesMedian(n) ==
  [leaf |-> n.leaf,
   ents |-> SubSeq(n.ents, Degree, Len(n.ents)),
   kids |-> IF n.leaf THEN <<>> ELSE SubSeq(n.kids, Degree + 1, Len(n.kids))]

UpperHalf_losesEntry(n) ==
  [leaf |-> n.leaf,
   ents |-> SubSeq(n.ents, Degree + 2, Len(n.ents)),
   kids |-> IF n.leaf THEN <<>> ELSE SubSeq(n.kids, Degree + 1, Len(n.kids))]

\* split_child: what moves into the new node.
UpperHalf(n) ==
  [leaf |-> n.leaf,
   ents |-> SubSeq(n.ents, Degree + 1, Len(n.ents)),
   kids |-> IF n.leaf THEN <<>> ELSE SubSeq(n.kids, Degree + 1, Len(n.kids))]

\* The parent once the median entry of its i-th child has moved up into it.
Promote(parent, i, median, new_page_id) ==
  [leaf |-> parent.leaf,
   ents |-> InsertAt(parent.ents, i, median),
   kids |-> InsertAt(parent.kids, i + 1, new_page_id)]

Write(page, node) == [page |-> page, node |-> node]

\* Mutants: the parent is saved first; the halves change places.
SplitChild_parentFirst(parent_id, parent, i, child, new_page_id) ==
  << Write(parent_id, Promote(parent, i, child.ents[Degree], new_page_id)),
     Write(parent.kids[i], LowerHalf(child)),
     Write(new_page_id, UpperHalf(child)) >>

SplitChild_swapsHalves(parent_id, parent, i, child, new_page_id) ==
  << Write(parent.kids[i], UpperHalf(child)),
     Write(new_page_id, LowerHalf(child)),
     Write(parent_id, Promote(parent, i, child.ents[Degree], new_page_id)) >>

\* split_child: the page writes it makes, in its order, for the i-th child of
\* parent (page parent_id, in-memory contents parent) and a fresh page.
SplitChild(parent_id, parent, i, child, new_page_id) ==
  << Write(parent.kids[i], LowerHalf(child)),
     Write(new_page_id, UpperHalf(child)),
     Write(parent_id, Promote(parent, i, child.ents[Degree], new_page_id)) >>

\* collect_all_values at a node: its entries between what shown has for its
\* children.
InOrder(n, shown) ==
  LET upto[i \in 0..Len(n.kids)] ==
        IF i = 0 THEN <<>>
        ELSE upto[i - 1] \o shown[n.kids[i]] \o
             IF i <= Len(n.ents) THEN <<n.ents[i]>> ELSE <<>>
  IN IF n.leaf THEN n.ents ELSE upto[Len(n.kids)]

\* get_all_values: the in-order traversal of the pages d from page r.
Values(d, r) ==
  LET collect[p \in Page] == InOrder(ReadPage(d, p), collect) IN collect[r]

\* search_node at a node: its own entries with key k, then what found has for
\* its children.
Hits(n, k, found) ==
  LET here[i \in 0..Len(n.ents)] ==
        IF i = 0 THEN <<>>
        ELSE here[i - 1] \o IF n.ents[i].key = k THEN <<n.ents[i]>> ELSE <<>>
      below[i \in 0..Len(n.kids)] ==
        IF i = 0 THEN here[Len(n.ents)] ELSE below[i - 1] \o found[n.kids[i]]
  IN below[IF n.leaf THEN 0 ELSE Len(n.kids)]

\* search: every entry with key k, a node's own before its children's.
Search(d, r, k) ==
  LET collect[p \in Page] == Hits(ReadPage(d, p), k, collect) IN collect[r]
=============================================================================
