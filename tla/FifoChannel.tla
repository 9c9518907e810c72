----------------------------- MODULE FifoChannel -----------------------------
(***************************************************************************)
(* What a channel promises to the coroutines that use it, whatever its     *)
(* capacity: every value offered while it is open is received at most      *)
(* once, in the order of the offers, and closing it withdraws exactly the  *)
(* offers that were not yet accepted into its buffer.                      *)
(* Values are numbered in the order they are offered.                      *)
(***************************************************************************)
EXTENDS Integers, Sequences

CONSTANT Room        \* how many offers a closed channel still honours

VARIABLES offers,    \* number of values offered so far
          pending,   \* offered, not yet received
          received,  \* received, in order
          open

vars == <<offers, pending, received, open>>

Init == offers = 0 /\ pending = <<>> /\ received = <<>> /\ open = TRUE

OfferValue ==
  /\ open
  /\ offers' = offers + 1 /\ pending' = Append(pending, offers + 1)
  /\ UNCHANGED <<received, open>>

ReceiveValue ==
  /\ pending # <<>>
  /\ received' = Append(received, Head(pending)) /\ pending' = Tail(pending)
  /\ UNCHANGED <<offers, open>>

(* An offer that meets a waiting receiver.                                 *)
HandOver ==
  /\ open /\ pending = <<>>
  /\ offers' = offers + 1 /\ received' = Append(received, offers + 1)
  /\ UNCHANGED <<pending, open>>

Shut ==
  /\ open' = FALSE
  /\ pending' = IF Len(pending) > Room THEN SubSeq(pending, 1, Room) ELSE pending
  /\ UNCHANGED <<offers, received>>

Next == OfferValue \/ ReceiveValue \/ HandOver \/ Shut

Spec == Init /\ [][Next]_vars

(* Nothing is missing in between: what was received are the first offers,  *)
(* what is pending are the next ones, and while the channel is open these  *)
(* are all the offers there were.                                          *)
NoneMissing ==
  /\ \A i \in 1..Len(received) : received[i] = i
  /\ \A i \in 1..Len(pending) : pending[i] = Len(received) + i
  /\ Len(received) + Len(pending) <= offers
  /\ open => Len(received) + Len(pending) = offers
=============================================================================
