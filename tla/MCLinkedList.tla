---------------------------- MODULE MCLinkedList ----------------------------
(* Lists of at most six nodes, without iterators: ListOnSlab has them.     *)
EXTENDS LinkedList, TLC

MCIndex == 0..6

Symmetry == Permutations(Node)
=============================================================================
