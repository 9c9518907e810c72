----------------------------- MODULE MCUnwinding -----------------------------
(* Instances of Unwinding for TLC.                                         *)
EXTENDS Unwinding, TLC

Mixed == [loop |-> 1, try |-> 1, tryFinally |-> 1, with |-> 1]
=============================================================================
