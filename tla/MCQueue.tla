------------------------------ MODULE MCQueue ------------------------------
(* A queue of at most five nodes, with and without memory for its list.    *)
EXTENDS Queue, TLC

Symmetry == Permutations(Node)
=============================================================================
