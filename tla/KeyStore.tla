------------------------------ MODULE KeyStore ------------------------------
(***************************************************************************)
(* What ExecTrace's databases get from the B-tree under them: a set of     *)
(* entries with one entry per key, for callers that insert new keys only.  *)
(* Database.hpp and AuthDB.hpp call nothing but insert, search and         *)
(* get_all_values, so this is the whole contract.                          *)
(*                                                                         *)
(* Reopen is what the process's end leaves of it.  A store that fits into  *)
(* one node survives; of a larger one a few entries with the least keys.   *)
(***************************************************************************)
EXTENDS Naturals, FiniteSets

CONSTANTS Degree,   \* minimum degree of the tree's nodes
          Key,      \* what operator==, < and > of the entry type compare
          Val       \* the rest of an entry

VARIABLES store,    \* the entries a reader gets
          adding    \* the entry of the insert that runs, if one does

vars == <<store, adding>>

Entry == [key: Key, val: Val]

KeysOf(S) == {e.key : e \in S}

Capacity == 2 * Degree - 1

\* The n entries of S with the least keys, if S has so many.
Least(S, n) ==
  {P \in SUBSET S : /\ Cardinality(P) = n
                    /\ \A e \in P, f \in S \ P : e.key < f.key}

\* What the process's end may leave of the entries S: all that one node holds.
Kept(S) == IF Cardinality(S) <= Capacity
           THEN {S}
           ELSE UNION {Least(S, n) : n \in Degree - 1..Capacity}

Init == store = {} /\ adding = {}

Begin(e) ==
  /\ adding = {}
  /\ e.key \notin KeysOf(store)
  /\ adding' = {e}
  /\ UNCHANGED store

Put ==
  /\ adding # {}
  /\ store' = store \cup adding
  /\ UNCHANGED adding

Return ==
  /\ adding \subseteq store
  /\ adding' = {}
  /\ UNCHANGED store

\* An insert that is cut short has happened or not, or has only halved the node.
Reopen ==
  /\ store' \in Kept(store \ adding) \cup Kept(store \cup adding)
         \cup IF adding # {} /\ Cardinality(store \ adding) = Capacity
              THEN Least(store \ adding, Degree - 1)
              ELSE {}
  /\ adding' = {}

Next == (\E e \in Entry : Begin(e)) \/ Put \/ Return \/ Reopen

Spec == Init /\ [][Next]_vars
=============================================================================
