------------------------------- MODULE BTree -------------------------------
(***************************************************************************)
(* The disk-based B-tree of ExecTrace (BTree.hpp) over its page file       *)
(* (DiskManager.hpp), one page write per step so that the process can die  *)
(* between any two of them.                                                *)
(*                                                                         *)
(* A tree is used under its owner's mutex, so at most one insert is        *)
(* running: todo holds the entry it has still to place, at the page of the *)
(* node insert_non_full is working on, and writes the save_node calls that *)
(* are decided but not yet in the file.  Readers run when no insert does.  *)
(***************************************************************************)
EXTENDS BTreeNode

CONSTANT MaxPage     \* bound: no insert starts once this page is allocated

VARIABLES disk,            \* the file: the node each page holds
          pages,           \* the file's size in pages
          next_page_id,    \* DiskManager::next_page_id, in memory only
          root_page_id,    \* BTree::root_page_id, in memory only
          todo,            \* the entry of the running insert, until placed
          at,              \* the node insert_non_full has reached
          writes           \* the page writes still to be made, in order

fileVars == <<disk, pages>>
vars == <<disk, pages, next_page_id, root_page_id, todo, at, writes>>

Idle == todo = {} /\ writes = <<>>

\* The BTree constructor writes an empty root when page 0 reads as zeros.
FormatRoot(d) ==
  IF 0 \in DOMAIN d /\ d[0] # ZeroPage THEN d ELSE WritePage(d, 0, EmptyLeaf)

\* A new database file, after the DiskManager and BTree constructors.
NewFile == FormatRoot([p \in {} |-> ZeroPage])

Init ==
  /\ disk = NewFile
  /\ pages = 1
  /\ next_page_id = 1
  /\ root_page_id = 0
  /\ todo = {}
  /\ at = 0
  /\ writes = <<>>

-----------------------------------------------------------------------------
(* insert *)

\* The root has room: insert_non_full starts there.
EnterRoot(e) ==
  /\ Idle
  /\ ~Full(ReadPage(disk, root_page_id))
  /\ todo' = {e}
  /\ at' = root_page_id
  /\ UNCHANGED <<fileVars, next_page_id, root_page_id, writes>>

\* Mutant: the id of the new root is not counted.
GrowRoot_countsOne(e) ==
  LET new_root_id == next_page_id
      new_root == [leaf |-> FALSE, ents |-> <<>>, kids |-> <<root_page_id>>]
      split == SplitChild(new_root_id, new_root, 1,
                          ReadPage(disk, root_page_id), next_page_id + 1)
  IN /\ Idle
     /\ Full(ReadPage(disk, root_page_id))
     /\ writes' = Append(split, split[3])
     /\ next_page_id' = next_page_id + 1
     /\ root_page_id' = new_root_id
     /\ todo' = {e}
     /\ at' = new_root_id
     /\ UNCHANGED fileVars

\* The root is full: a new root is put above it and the old one is split,
\* before anything is compared with the entry.
GrowRoot(e) ==
  LET new_root_id == next_page_id
      new_root == [leaf |-> FALSE, ents |-> <<>>, kids |-> <<root_page_id>>]
      split == SplitChild(new_root_id, new_root, 1,
                          ReadPage(disk, root_page_id), next_page_id + 1)
  IN /\ Idle
     /\ Full(ReadPage(disk, root_page_id))
     /\ writes' = Append(split, split[3])
     /\ next_page_id' = next_page_id + 2
     /\ root_page_id' = new_root_id
     /\ todo' = {e}
     /\ at' = new_root_id
     /\ UNCHANGED fileVars

Insert(e) == next_page_id <= MaxPage /\ (EnterRoot(e) \/ GrowRoot(e))

-----------------------------------------------------------------------------
(* insert_non_full, one node of the path at a time *)

\* save_node, then write_page: one page reaches the file.
FlushPage ==
  /\ writes # <<>>
  /\ LET w == Head(writes)
     IN /\ disk' = WritePage(disk, w.page, w.node)
        /\ pages' = IF w.page >= pages THEN w.page + 1 ELSE pages
  /\ writes' = Tail(writes)
  /\ UNCHANGED <<next_page_id, root_page_id, todo, at>>

\* The entry is placed: the last write is due and then insert returns.
Place(n) ==
  /\ writes' = <<Write(at, n)>>
  /\ todo' = {}
  /\ at' = 0
  /\ UNCHANGED <<fileVars, next_page_id, root_page_id>>

\* The first entry of this node with the same key is overwritten.
UpdateEntry(e, n) ==
  \E j \in Matches(n, e.key) :
    /\ \A m \in Matches(n, e.key) : j <= m
    /\ Place([n EXCEPT !.ents = ReplaceAt(@, j, e)])

\* Mutant: the entry is put at the end and the leaf not sorted.
AddToLeaf_unsorted(e, n) ==
  /\ Matches(n, e.key) = {}
  /\ n.leaf
  /\ Place([n EXCEPT !.ents = Append(@, e)])

\* A leaf takes the entry, in its place.
AddToLeaf(e, n) ==
  /\ Matches(n, e.key) = {}
  /\ n.leaf
  /\ \E i \in 1..Len(n.ents) + 1 :
       /\ IsSlot(n, e.key, i)
       /\ Place([n EXCEPT !.ents = InsertAt(@, i, e)])

\* The key is not in this internal node and belongs below its i-th child.
Below(e, n, i) ==
  /\ Matches(n, e.key) = {}
  /\ ~n.leaf
  /\ i \in 1..Len(n.kids)
  /\ IsSlot(n, e.key, i)

\* Mutants: a full child is not split; the scan goes on in the same node.
Descend_intoFull(e, n) ==
  \E i \in 1..Len(n.kids) :
    /\ Below(e, n, i)
    /\ at' = n.kids[i]
    /\ UNCHANGED <<fileVars, next_page_id, root_page_id, todo, writes>>

Descend_nowhere(e, n) ==
  \E i \in 1..Len(n.kids) :
    /\ Below(e, n, i)
    /\ ~Full(ReadPage(disk, n.kids[i]))
    /\ at' = at
    /\ UNCHANGED <<fileVars, next_page_id, root_page_id, todo, writes>>

\* A child with room is the next node.
Descend(e, n) ==
  \E i \in 1..Len(n.kids) :
    /\ Below(e, n, i)
    /\ ~Full(ReadPage(disk, n.kids[i]))
    /\ at' = n.kids[i]
    /\ UNCHANGED <<fileVars, next_page_id, root_page_id, todo, writes>>

\* Mutant: the new page's id is not counted.
SplitFullChild_uncounted(e, n) ==
  \E i \in 1..Len(n.kids) :
    LET child == ReadPage(disk, n.kids[i])
    IN /\ Below(e, n, i)
       /\ Full(child)
       /\ writes' = SplitChild(at, n, i, child, next_page_id)
       /\ at' = IF e.key > child.ents[Degree].key THEN next_page_id
                                                  ELSE n.kids[i]
       /\ UNCHANGED <<fileVars, next_page_id, root_page_id, todo>>

\* A full child is split on the way down; the comparison with its median,
\* which is in this node now, picks the half to go on with.
SplitFullChild(e, n) ==
  \E i \in 1..Len(n.kids) :
    LET child == ReadPage(disk, n.kids[i])
    IN /\ Below(e, n, i)
       /\ Full(child)
       /\ writes' = SplitChild(at, n, i, child, next_page_id)
       /\ next_page_id' = next_page_id + 1
       /\ at' = IF e.key > child.ents[Degree].key THEN next_page_id
                                                  ELSE n.kids[i]
       /\ UNCHANGED <<fileVars, root_page_id, todo>>

Visit ==
  \E e \in todo :
    LET n == ReadPage(disk, at)
    IN /\ writes = <<>>
       /\ \/ UpdateEntry(e, n)
          \/ AddToLeaf(e, n)
          \/ Descend(e, n)
          \/ SplitFullChild(e, n)

Step == FlushPage \/ Visit

-----------------------------------------------------------------------------
\* Mutant: page ids are counted from 0 again, not from the file's size.
Restart_fromZero ==
  /\ disk' = FormatRoot(disk)
  /\ root_page_id' = 0
  /\ next_page_id' = 0
  /\ todo' = {}
  /\ at' = 0
  /\ writes' = <<>>
  /\ UNCHANGED pages

\* The process ends, between any two page writes, and a new one opens the
\* file: the root is page 0 again, pages are allocated after a gap of one.
Restart ==
  /\ disk' = FormatRoot(disk)
  /\ root_page_id' = 0
  /\ next_page_id' = pages + 1
  /\ todo' = {}
  /\ at' = 0
  /\ writes' = <<>>
  /\ UNCHANGED pages

\* What get_all_values and search return.
AllValues == Values(disk, root_page_id)
Known(k)  == Search(disk, root_page_id, k) # <<>>

\* Callers that insert an entry only when its key is new: log_event, which
\* counts its ids up, and register_user, which searches first.
InsertNew(e) == ~Known(e.key) /\ Insert(e)

Next ==
  \/ \E e \in Entry : Insert(e)
  \/ Step
  \/ Restart

NextNew ==
  \/ \E e \in Entry : InsertNew(e)
  \/ Step
  \/ Restart

Spec    == Init /\ [][Next]_vars
NewSpec == Init /\ [][NextNew]_vars

\* The thread that entered insert runs on until insert returns.
FairNewSpec == NewSpec /\ WF_vars(Step)

-----------------------------------------------------------------------------
(* Properties *)

\* Each variable has its type: pages hold nodes, the counters are page ids.
TypeOK ==
  /\ pages \in Nat \ {0}
  /\ disk \in [0..pages - 1 -> Node]
  /\ next_page_id \in Nat
  /\ root_page_id \in Page
  /\ todo \in SUBSET Entry
  /\ at \in Page
  /\ writes \in Seq([page: Page, node: Node])

\* A node that serialize fits into a page and deserialize returns unchanged.
Sound(n) ==
  /\ Len(n.ents) <= MaxKeys
  /\ n.leaf => n.kids = <<>>
  /\ ~n.leaf => Len(n.kids) = Len(n.ents) + 1

\* No page, in the file or on its way there, ever holds more entries or
\* children than Node::serialize has room for, and no internal node has a
\* child too few or too many: every crash leaves a file of readable nodes.
PagesFit ==
  /\ \A p \in DOMAIN disk : disk[p] = ZeroPage \/ Sound(disk[p])
  /\ \A i \in DOMAIN writes : Sound(writes[i].node)

\* The pages of the file that some save_node wrote.
Written == {p \in DOMAIN disk : disk[p] # ZeroPage}

\* Whatever page write the process dies before, no node in the file names a
\* child page that was not written: split_child saves the new node before the
\* parent that links it.
LinksWritten == \A p \in DOMAIN disk : Linked(disk[p]) \subseteq Written

\* allocate_page never hands out a page that the file already has or that a
\* write under way is for, in this process or after any restart.
FreshPages ==
  /\ pages <= next_page_id
  /\ \A i \in DOMAIN writes : writes[i].page < next_page_id

\* insert_non_full lives up to its name: when the page writes before it are
\* made, the node it goes on with has room for an entry or a child's median.
NeverFull ==
  todo # {} =>
    /\ \A i \in DOMAIN writes : writes[i].page = at => ~Full(writes[i].node)
    /\ \/ \E i \in DOMAIN writes : writes[i].page = at
       \/ ~Full(ReadPage(disk, at))

\* Page 0, where every process looks for its root, is and stays a leaf.
PageZeroIsLeaf == disk[0].leaf

\* The inductive invariant behind the five properties above: what the writes
\* under way add to them.
LinksDue ==
  \A i \in DOMAIN writes :
    Linked(writes[i].node) \subseteq Written \cup {writes[j].page : j \in 1..i - 1}

PageZeroDue ==
  /\ 0 \in Written
  /\ \A i \in DOMAIN writes : writes[i].page = 0 => writes[i].node.leaf

Allocated == at < next_page_id /\ root_page_id < next_page_id

NotOwnChild ==
  /\ \A p \in DOMAIN disk : p \notin Linked(disk[p])
  /\ \A i \in DOMAIN writes : writes[i].page \notin Linked(writes[i].node)

IInv ==
  /\ TypeOK
  /\ PagesFit
  /\ LinksWritten /\ LinksDue
  /\ FreshPages /\ Allocated /\ NotOwnChild
  /\ NeverFull
  /\ PageZeroIsLeaf /\ PageZeroDue

\* The file as it will be when the writes that are due have been made.
Overlay ==
  LET due(p) == {i \in DOMAIN writes : writes[i].page = p}
  IN [p \in DOMAIN disk \cup {writes[i].page : i \in DOMAIN writes} |->
        IF due(p) = {} THEN disk[p] ELSE writes[Max(due(p))].node]

\* The entries in the tree and on their way there.
Stored == UNION {ToSet(Values(d, root_page_id)) : d \in {Overlay}}

\* The depth of the leftmost leaf below a node, 0 for a leaf.
Height(d, r) ==
  LET height[p \in Page] ==
        LET n == ReadPage(d, p)
        IN IF n.leaf THEN 0 ELSE 1 + height[n.kids[1]]
  IN height[r]

\* The pages of the tree with root r.
Reachable(d, r) ==
  LET below[p \in Page] ==
        {p} \cup UNION {below[q] : q \in Linked(ReadPage(d, p))}
  IN below[r]

\* The B-tree's shape, splits under way included: all leaves at one depth, no
\* page with two parents, and every node but the root at least half full.
Balanced ==
  LET node(p) == ReadPage(Overlay, p)
      tree == Reachable(Overlay, root_page_id)
      links == UNION {{p} \X DOMAIN node(p).kids : p \in tree}
  IN /\ \A l \in links :
          Height(Overlay, node(l[1]).kids[l[2]]) + 1 = Height(Overlay, l[1])
     /\ Cardinality(links) = Cardinality(tree) - 1
     /\ \A p \in tree \ {root_page_id} : Len(node(p).ents) >= Degree - 1

\* Readers see the entries in key order, whatever was inserted or updated.
Ordered == IsSorted(Values(Overlay, root_page_id), LAMBDA e, f : e.key <= f.key)

\* A tree never holds two entries with the same key: inserting one that is
\* there updates it.
SingleCopy ==
  LET vs == Values(Overlay, root_page_id)
  IN \A i, j \in DOMAIN vs : i # j => vs[i].key # vs[j].key

\* A restart keeps what the finished inserts stored.
Durable == [][Idle /\ Restart => Values(disk', root_page_id') = AllValues]_vars

\* An insert that has begun is over at some time, by return or by a crash.
InsertEnds == todo # {} ~> Idle

\* The contract of the tree for callers that insert new keys only: readers
\* find exactly the entries inserted, whatever splits are under way, and a
\* process that ends at any page write leaves what KeyStore says.
Adding == IF todo # {} \/ Idle
          THEN todo
          ELSE Stored \ ToSet(AllValues)

Contract == INSTANCE KeyStore WITH store <- Stored, adding <- Adding
ImplementsKeyStore == Contract!Spec
=============================================================================
