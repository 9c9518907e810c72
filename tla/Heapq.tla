------------------------------- MODULE Heapq -------------------------------
(***************************************************************************)
(* A list that a program keeps as a heap with the functions of the module  *)
(* heapq, one call after another, each turn of their loops a step.         *)
(***************************************************************************)
EXTENDS Sifting, Functions

CONSTANT Values

VARIABLES call,     \* the call under way, or the last one, with the list
          given,    \* the list before it, and what it was given to push
          heaped    \* heapify was called, and since then only these functions
                    \* have changed the list and no comparison has raised
vars == <<call, given, heaped>>

Init == call = Returned(<<>>, <<>>) /\ given = <<>> /\ heaped = FALSE

Begins(c, s, h) ==
  /\ call.at \in Ends
  /\ call' = c /\ given' = s /\ heaped' = h

Heapifies == Begins(Heapify(call.items), call.items, TRUE)
Pushes(v) == Begins(HeapPush(call.items, v), Append(call.items, v), heaped)
Pops == Begins(HeapPop(call.items), call.items, heaped)
PushPops(v) == Begins(PushPop(call.items, v), Append(call.items, v), heaped)
(* The program changes the list in another way, or takes another one.      *)
Changes(s) == Begins(Returned(s, <<>>), s, FALSE)
Turns ==
  /\ call.at \notin Ends
  /\ call' = Turn(call)
  /\ heaped' = (heaped /\ call'.at # "raises")
  /\ UNCHANGED given

Next ==
  \/ Heapifies \/ Pops \/ Turns
  \/ \E v \in Values : Pushes(v) \/ PushPops(v)
  \/ \E s \in Seq(Values) : Changes(s)
Spec == Init /\ [][Next]_vars

-----------------------------------------------------------------------------
(* What can be compared, and in which order: ints, or strings, are all in  *)
(* line, equal ones side by side.                                          *)
AtMost(a, b) == ~Less(b, a)
Ordering ==
  /\ \A a, b \in Values : Orders(a, b) /\ (Less(a, b) => AtMost(a, b))
  /\ \A a, b, c \in Values : AtMost(a, b) /\ AtMost(b, c) => AtMost(a, c)

(* No element is less than its parent.                                     *)
IsHeap(s) == \A i \in 1..Len(s) - 1 : AtMost(Item(s, Parent(i)), Item(s, i))

(* Of heapify, heap_push, heap_pop and push_pop in any order (heapq.rs     *)
(* 152-210): between two calls the list is a heap, unless the program has  *)
(* changed it in between or a comparison has raised.                       *)
HeapStaysHeap == heaped /\ call.at \in Ends => IsHeap(call.items)

(* heap_pop and push_pop take out of a heap what nothing left in it is     *)
(* less than.                                                              *)
PopsTheLeast ==
  heaped /\ call.at = "returns" =>
    \A i \in DOMAIN call.out, j \in DOMAIN call.items : AtMost(call.out[i], call.items[j])

(* No element is lost or doubled, whatever the order is, in the middle of  *)
(* a sift and when a comparison raises there: what is in the list and what *)
(* came out is what there was and what was pushed.                         *)
Rearranged(s, t) ==
  /\ Len(s) = Len(t)
  /\ \E f \in Bijection(1..Len(s), 1..Len(s)) : \A i \in 1..Len(s) : s[i] = t[f[i]]
NothingLost == Rearranged(call.items \o call.out, given)

(* What heap_pop and push_pop give back is a least element of all there    *)
(* was, with what was pushed: nothing is passed over, whichever way the    *)
(* elements moved before.                                                  *)
TakesALeast ==
  heaped /\ call.at = "returns" =>
    \A i \in DOMAIN call.out, j \in DOMAIN given : AtMost(call.out[i], given[j])

(* No call goes on for ever, even where the order is none or a comparison  *)
(* raises: each turn ends it, comes to the next place that heapify has to  *)
(* sink, or moves the element one level towards an end of the list, which  *)
(* stays as long as it is (heapq.rs 70-111).                               *)
MovesOn ==
  call.at \notin Ends =>
    /\ Len(call'.items) = Len(call.items)
    /\ \/ call'.at \in Ends
       \/ call'.at = call.at /\ call'.left < call.left
       \/ /\ call'.at = call.at /\ call'.left = call.left
          /\ IF call.at = "up" THEN call'.hole < call.hole ELSE call'.hole > call.hole
CallsMoveOn == [][MovesOn]_vars
=============================================================================
