------------------------------ MODULE MCSearch ------------------------------
(* Every graph of three nodes whose rows have at most two links.           *)
EXTENDS Search, TLC

Symmetry == Permutations(Id)
=============================================================================
