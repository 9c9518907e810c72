------------------------------ MODULE Sifting ------------------------------
(***************************************************************************)
(* The binary heaps of the module heapq: a list in which no element is     *)
(* less than its parent, kept so by sifting.                               *)
(*                                                                         *)
(* A call is a record that each turn of a loop changes: `items` is the     *)
(* list, `hole` the place that sinks or rises (places count from 0, as in  *)
(* the source), `left` how many places above it heapify has still to sink, *)
(* `out` what the call has taken out of the list, or not put in, and `at`  *)
(* the loop it is in, or how it ends.  Comparing two elements may raise.   *)
(***************************************************************************)
EXTENDS Integers, Sequences

CONSTANTS Orders(_, _),   \* whether two values can be compared
          Less(_, _)

Ends == {"returns", "raises"}
Call(items, hole, left, out, at) == [items |-> items, hole |-> hole, left |-> left, out |-> out, at |-> at]
Returned(items, out) == Call(items, 0, 0, out, "returns")

Item(s, i) == s[i + 1]
Parent(i) == (i - 1) \div 2
LeftChild(i) == 2 * i + 1
Swapped(s, i, j) == [s EXCEPT ![i + 1] = Item(s, j), ![j + 1] = Item(s, i)]

Ended(c, at) == [c EXCEPT !.at = at]
MovedTo(c, place) == [c EXCEPT !.items = Swapped(@, c.hole, place), !.hole = place]
(* One element has sunk as far as it goes: heapify goes on with the place  *)
(* before it.                                                              *)
Settled(c) == IF c.left = 0 THEN Ended(c, "returns") ELSE [c EXCEPT !.hole = c.left - 1, !.left = @ - 1]

(* One turn of the loop: the element in the hole changes places with its   *)
(* parent if it is less, or with the lesser of its children if that is.    *)
SiftUp(c) ==
  LET above == Parent(c.hole)
      risen == Item(c.items, c.hole)
      parent == Item(c.items, above)
  IN  IF c.hole = 0 THEN Ended(c, "returns")
      ELSE IF ~Orders(risen, parent) THEN Ended(c, "raises")
      ELSE IF ~Less(risen, parent) THEN Ended(c, "returns")
      ELSE MovedTo(c, above)

LesserChild(s, hole) ==
  LET left == LeftChild(hole)
  IN  IF left + 1 < Len(s) /\ Less(Item(s, left + 1), Item(s, left)) THEN left + 1 ELSE left
ChildrenCompare(s, hole) ==
  LeftChild(hole) + 1 < Len(s) => Orders(Item(s, LeftChild(hole) + 1), Item(s, LeftChild(hole)))
SiftDown(c) ==
  LET s == c.items
      child == LesserChild(s, c.hole)
  IN  IF LeftChild(c.hole) >= Len(s) THEN Settled(c)
      ELSE IF ~ChildrenCompare(s, c.hole) THEN Ended(c, "raises")
      ELSE IF ~Orders(Item(s, child), Item(s, c.hole)) THEN Ended(c, "raises")
      ELSE IF ~Less(Item(s, child), Item(s, c.hole)) THEN Settled(c)
      ELSE MovedTo(c, child)

Turn(c) == IF c.at = "up" THEN SiftUp(c) ELSE SiftDown(c)

-----------------------------------------------------------------------------
(* The calls, as they begin.                                               *)
Heapify(s) ==
  LET half == Len(s) \div 2
  IN  IF half = 0 THEN Returned(s, <<>>) ELSE Call(s, half - 1, half - 1, <<>>, "down")
HeapPush(s, v) == Call(Append(s, v), Len(s), 0, <<>>, "up")
(* The last element takes the place of the first.                          *)
HeapPop(s) ==
  LET n == Len(s)
  IN  IF n = 0 THEN Call(s, 0, 0, <<>>, "raises")
      ELSE IF n = 1 THEN Returned(<<>>, s)
      ELSE Call([SubSeq(s, 1, n - 1) EXCEPT ![1] = s[n]], 0, 0, <<s[1]>>, "down")
(* v comes back at once unless the first element is less than it.          *)
PushPop(s, v) ==
  IF s = <<>> THEN Returned(s, <<v>>)
  ELSE IF ~Orders(s[1], v) THEN Call(s, 0, 0, <<v>>, "raises")
  ELSE IF ~Less(s[1], v) THEN Returned(s, <<v>>)
  ELSE Call([s EXCEPT ![1] = v], 0, 0, <<s[1]>>, "down")
=============================================================================
