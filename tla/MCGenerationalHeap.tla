------------------------- MODULE MCGenerationalHeap -------------------------
(* GenerationalHeap for TLC: objects and roots are interchangeable. *)
EXTENDS GenerationalHeap, TLC

Symmetry == Permutations(Object) \cup Permutations(Root)
=============================================================================
