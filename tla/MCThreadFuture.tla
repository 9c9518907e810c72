---------------------------- MODULE MCThreadFuture ----------------------------
(* Instances of ThreadFuture for TLC.                                      *)
EXTENDS ThreadFuture, TLC

CONSTANTS t1, t2, t3
=============================================================================
