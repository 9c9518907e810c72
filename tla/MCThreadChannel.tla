--------------------------- MODULE MCThreadChannel ---------------------------
(* Instances of ThreadChannel for TLC.                                     *)
EXTENDS ThreadChannel, TLC

CONSTANTS t1, t2, t3, c1, c2

Threads == Permutations(Thread)
Alike   == Permutations(Thread) \cup Permutations(Coroutine)
=============================================================================
