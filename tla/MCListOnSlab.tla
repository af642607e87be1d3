---------------------------- MODULE MCListOnSlab ----------------------------
(* Slabs of 60 bytes hold two structs of 24 bytes or one of 32.            *)
EXTENDS ListOnSlab, TLC

MCIndex == 0..3

Symmetry == Permutations(Slab)
=============================================================================
