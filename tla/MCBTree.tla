------------------------------ MODULE MCBTree ------------------------------
(* The B-tree on a small instance: nodes of at most three entries. *)
EXTENDS BTree

MCKeys5 == 1..5
MCKeys6 == 1..6
=============================================================================
