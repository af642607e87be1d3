-------------------------- MODULE MCSlabAllocator --------------------------
(* The slab allocator on small instances: pools of 48 bytes hold two nodes *)
(* of 16 bytes or one of 24; 32 is a size it was not built for.            *)
EXTENDS SlabAllocator, TLC

MCSize == {16, 24, 32}
MCSupported == {16, 24}

SlabSymmetry == Permutations(Slab)
=============================================================================
