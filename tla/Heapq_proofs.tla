---------------------------- MODULE Heapq_proofs ----------------------------
(***************************************************************************)
(* Proofs about lists that are kept as heaps: for lists of any length and  *)
(* any values, the calls in any order.                                     *)
(***************************************************************************)
EXTENDS Heapq, SequenceTheorems, WellFoundedInduction, TLAPS

Ats == Ends \cup {"up", "down"}
Calls == [items : Seq(Values), hole : Nat, left : Nat, out : Seq(Values), at : Ats]
InTheList(c) == c.hole < Len(c.items) /\ c.left <= c.hole /\ (c.at = "up" => c.left = 0)
Typed(c) == c \in Calls /\ (c.at \notin Ends => InTheList(c))
TypeOK == Typed(call) /\ given \in Seq(Values) /\ heaped \in BOOLEAN

(* Where the heap is broken while an element sinks below the places from   *)
(* left on: only between it and its children, which are not less than what *)
(* is above it.                                                            *)
Sinking(s, hole, left) ==
  /\ left <= hole
  /\ \A i \in 1..Len(s) - 1 :
       /\ Parent(i) >= left /\ Parent(i) # hole => AtMost(Item(s, Parent(i)), Item(s, i))
       /\ Parent(i) = hole /\ hole > 0 /\ Parent(hole) >= left => AtMost(Item(s, Parent(hole)), Item(s, i))
(* While an element rises: only between it and its parent.                 *)
Rising(s, hole) ==
  \A i \in 1..Len(s) - 1 :
    /\ i # hole => AtMost(Item(s, Parent(i)), Item(s, i))
    /\ Parent(i) = hole /\ hole > 0 => AtMost(Item(s, Parent(hole)), Item(s, i))

AllAtMost(out, s) == \A i \in DOMAIN out, j \in DOMAIN s : AtMost(out[i], s[j])
Shaped(c) ==
  /\ AllAtMost(c.out, c.items)
  /\ c.at \in Ends => IsHeap(c.items)
  /\ c.at = "down" => Sinking(c.items, c.hole, c.left)
  /\ c.at = "up" => Rising(c.items, c.hole)
IInv == TypeOK /\ (heaped => Shaped(call))

-----------------------------------------------------------------------------
(* Places and changes of places.                                           *)
LEMMA TreePlaces ==
  /\ \A i \in Nat : i > 0 => Parent(i) \in Nat /\ Parent(i) < i
  /\ \A i, h \in Nat : i > 0 => (Parent(i) = h <=> i = LeftChild(h) \/ i = LeftChild(h) + 1)
  /\ \A h \in Nat : LeftChild(h) \in Nat /\ LeftChild(h) > h
  BY DEF Parent, LeftChild
LEMMA ChildOf ==
  ASSUME NEW i \in Nat, i > 0
  PROVE  LeftChild(Parent(i)) \in Nat /\ i \in {LeftChild(Parent(i)), LeftChild(Parent(i)) + 1}
  BY DEF Parent, LeftChild
LEMMA ChildAfter ==
  ASSUME NEW h \in Nat
  PROVE  LeftChild(h) \in Nat /\ LeftChild(h) > h
  BY DEF LeftChild
LEMMA ParentBefore ==
  ASSUME NEW n \in Nat, NEW i \in 1..n - 1
  PROVE  i \in Nat /\ i > 0 /\ i < n /\ Parent(i) \in Nat /\ Parent(i) < i
  BY DEF Parent

LEMMA SwappedItems ==
  ASSUME NEW S, NEW s \in Seq(S), NEW i \in Nat, NEW j \in Nat, i < Len(s), j < Len(s)
  PROVE  /\ Swapped(s, i, j) \in Seq(S) /\ Len(Swapped(s, i, j)) = Len(s)
         /\ Item(Swapped(s, i, j), i) = Item(s, j) /\ Item(Swapped(s, i, j), j) = Item(s, i)
         /\ \A k \in Nat : k < Len(s) /\ k # i /\ k # j => Item(Swapped(s, i, j), k) = Item(s, k)
  BY DEF Swapped, Item

LEMMA ItemsAreValues ==
  ASSUME NEW S, NEW s \in Seq(S), NEW i \in Nat, i < Len(s)
  PROVE  Item(s, i) \in S
  BY DEF Item

-----------------------------------------------------------------------------
(* One turn of a loop.                                                     *)
LEMMA SinkingGoesOn ==
  ASSUME Ordering, NEW s \in Seq(Values), NEW hole \in Nat, NEW left \in Nat, Sinking(s, hole, left),
         LeftChild(hole) < Len(s), NEW child, child = LesserChild(s, hole),
         Less(Item(s, child), Item(s, hole))
  PROVE  Sinking(Swapped(s, hole, child), child, left)
<1> DEFINE t == Swapped(s, hole, child)
<1>1. /\ child \in Nat /\ child < Len(s) /\ child > 0 /\ Parent(child) = hole /\ child > hole /\ hole < Len(s)
      /\ \A i \in 1..Len(s) - 1 : Parent(i) = hole => AtMost(Item(s, child), Item(s, i))
  <2>1. /\ child \in {LeftChild(hole), LeftChild(hole) + 1} /\ child < Len(s)
        /\ LeftChild(hole) \in Nat /\ LeftChild(hole) > hole
    BY TreePlaces DEF LesserChild
  <2>2. child \in Nat /\ child > 0 /\ child > hole /\ hole < Len(s)
    BY <2>1
  <2>3. Parent(child) = hole
    BY <2>1, <2>2, TreePlaces
  <2>4. ASSUME NEW i \in 1..Len(s) - 1, Parent(i) = hole
        PROVE  AtMost(Item(s, child), Item(s, i))
    <3>1. i \in {LeftChild(hole), LeftChild(hole) + 1}
      BY <2>4, TreePlaces
    <3>2. Item(s, i) \in Values /\ Item(s, LeftChild(hole)) \in Values
      BY <2>1, ItemsAreValues
    <3>3. AtMost(Item(s, i), Item(s, i))
      BY <3>2 DEF Ordering, AtMost
    <3>4. CASE i = child
      BY <3>3, <3>4
    <3>5. CASE i # child /\ i = LeftChild(hole)
      <4>1. Less(Item(s, child), Item(s, i)) /\ Item(s, child) \in Values
        BY <3>5, <2>1, ItemsAreValues DEF LesserChild
      <4> QED BY <4>1, <3>2 DEF Ordering
    <3>6. CASE i # child /\ i # LeftChild(hole)
      BY <3>6, <3>1, <2>1 DEF LesserChild, AtMost
    <3> QED BY <3>4, <3>5, <3>6
  <2> QED BY <2>1, <2>2, <2>3, <2>4
<1>2. /\ Len(t) = Len(s) /\ Item(t, hole) = Item(s, child) /\ Item(t, child) = Item(s, hole)
      /\ \A k \in Nat : k < Len(s) /\ k # hole /\ k # child => Item(t, k) = Item(s, k)
  BY <1>1, SwappedItems
<1>3. Item(s, hole) \in Values /\ Item(s, child) \in Values /\ AtMost(Item(s, child), Item(s, hole))
  BY <1>1, ItemsAreValues DEF Ordering
<1>4. left <= child
  BY <1>1 DEF Sinking
<1>5. ASSUME NEW i \in 1..Len(t) - 1, Parent(i) >= left, Parent(i) # child
      PROVE  AtMost(Item(t, Parent(i)), Item(t, i))
  <2>1. i \in Nat /\ i > 0 /\ i < Len(s) /\ Parent(i) \in Nat /\ Parent(i) < i
    BY <1>2, ParentBefore
  <2>2. CASE Parent(i) = hole /\ i = child
    BY <2>2, <1>2, <1>3
  <2>3. CASE Parent(i) = hole /\ i # child
    BY <2>1, <2>3, <1>1, <1>2
  <2>4. CASE Parent(i) # hole /\ i = hole
    <3>1. child \in 1..Len(s) - 1
      BY <1>1
    <3> QED BY <2>1, <2>4, <3>1, <1>1, <1>2, <1>5 DEF Sinking
  <2>5. CASE Parent(i) # hole /\ i # hole
    <3>1. i # child
      BY <2>5, <1>1
    <3> QED BY <2>1, <2>5, <3>1, <1>2, <1>5 DEF Sinking
  <2> QED BY <2>2, <2>3, <2>4, <2>5
<1>6. ASSUME NEW i \in 1..Len(t) - 1, Parent(i) = child
      PROVE  AtMost(Item(t, Parent(child)), Item(t, i))
  <2>1. i \in Nat /\ i > 0 /\ i < Len(s) /\ i > child
    BY <1>2, <1>6, TreePlaces
  <2>2. AtMost(Item(s, Parent(i)), Item(s, i))
    BY <2>1, <1>1, <1>4, <1>6 DEF Sinking
  <2>3. Item(t, i) = Item(s, i)
    BY <2>1, <1>1, <1>2
  <2> QED BY <2>2, <2>3, <1>6, <1>1, <1>2
<1> QED BY <1>4, <1>5, <1>6 DEF Sinking

(* Where it has sunk far enough, the heap goes from left on.               *)
LEMMA SinkingEnds ==
  ASSUME Ordering, NEW s \in Seq(Values), NEW hole \in Nat, hole < Len(s), NEW left \in Nat,
         Sinking(s, hole, left),
         LeftChild(hole) >= Len(s) \/ ~Less(Item(s, LesserChild(s, hole)), Item(s, hole))
  PROVE  \A i \in 1..Len(s) - 1 : Parent(i) >= left => AtMost(Item(s, Parent(i)), Item(s, i))
<1> SUFFICES ASSUME NEW i \in 1..Len(s) - 1, Parent(i) >= left, Parent(i) = hole
             PROVE  AtMost(Item(s, hole), Item(s, i))
  BY DEF Sinking
<1> DEFINE first == LeftChild(hole)  child == LesserChild(s, hole)
<1>1. i \in {first, first + 1} /\ first \in Nat /\ first < Len(s)
  <2>1. i \in Nat /\ i > 0 /\ i < Len(s)
    BY ParentBefore
  <2>2. LeftChild(Parent(i)) \in Nat /\ i \in {LeftChild(Parent(i)), LeftChild(Parent(i)) + 1}
    BY <2>1, ChildOf
  <2> QED BY <2>1, <2>2
<1>2. child \in {first, first + 1} /\ child < Len(s)
  BY <1>1 DEF LesserChild
<1>3. Item(s, hole) \in Values /\ Item(s, i) \in Values /\ Item(s, first) \in Values /\ Item(s, child) \in Values
  BY <1>1, <1>2, ItemsAreValues
<1>4. AtMost(Item(s, hole), Item(s, child))
  BY <1>1 DEF AtMost
<1>5. AtMost(Item(s, child), Item(s, i))
  <2>1. CASE i = child
    BY <2>1, <1>3 DEF Ordering, AtMost
  <2>2. CASE i # child /\ i = first
    <3>1. Less(Item(s, child), Item(s, i))
      BY <2>2, <1>1, <1>2 DEF LesserChild
    <3> QED BY <3>1, <1>3 DEF Ordering
  <2>3. CASE i # child /\ i # first
    BY <2>3, <1>1, <1>2 DEF LesserChild, AtMost
  <2> QED BY <2>1, <2>2, <2>3
<1> QED BY <1>3, <1>4, <1>5 DEF Ordering

LEMMA RisingGoesOn ==
  ASSUME Ordering, NEW s \in Seq(Values), NEW hole \in Nat, hole > 0, hole < Len(s), Rising(s, hole),
         Less(Item(s, hole), Item(s, Parent(hole)))
  PROVE  Rising(Swapped(s, hole, Parent(hole)), Parent(hole))
<1> DEFINE above == Parent(hole)  t == Swapped(s, hole, above)
<1>1. above \in Nat /\ above < hole /\ above < Len(s)
  BY TreePlaces
<1>2. /\ Len(t) = Len(s) /\ Item(t, hole) = Item(s, above) /\ Item(t, above) = Item(s, hole)
      /\ \A k \in Nat : k < Len(s) /\ k # hole /\ k # above => Item(t, k) = Item(s, k)
  BY <1>1, SwappedItems
<1>3. Item(s, hole) \in Values /\ Item(s, above) \in Values /\ AtMost(Item(s, hole), Item(s, above))
  BY <1>1, ItemsAreValues DEF Ordering
<1>4. ASSUME NEW i \in 1..Len(t) - 1, Parent(i) = above, i # hole
      PROVE  AtMost(Item(s, above), Item(t, i))
  <2>1. i \in Nat /\ i > 0 /\ i < Len(s) /\ i > above
    BY <1>2, <1>4, TreePlaces
  <2> QED BY <2>1, <1>1, <1>2, <1>4 DEF Rising
<1>5. ASSUME NEW i \in 1..Len(t) - 1, i # above
      PROVE  AtMost(Item(t, Parent(i)), Item(t, i))
  <2>1. i \in Nat /\ i > 0 /\ i < Len(s) /\ Parent(i) \in Nat /\ Parent(i) < i /\ i \in 1..Len(s) - 1
    BY <1>2, ParentBefore
  <2>2. CASE i = hole
    BY <2>2, <1>2, <1>3
  <2>3. CASE i # hole /\ Parent(i) = above
    <3>1. Item(t, i) \in Values
      BY <2>1, <2>3, <1>5, <1>2, ItemsAreValues
    <3> QED BY <3>1, <2>3, <1>2, <1>3, <1>4 DEF Ordering
  <2>4. CASE i # hole /\ Parent(i) = hole
    BY <2>1, <2>4, <1>2, <1>5 DEF Rising
  <2>5. CASE i # hole /\ Parent(i) # above /\ Parent(i) # hole
    BY <2>1, <2>5, <1>2, <1>5 DEF Rising
  <2> QED BY <2>2, <2>3, <2>4, <2>5
<1>6. ASSUME NEW i \in 1..Len(t) - 1, Parent(i) = above, above > 0
      PROVE  AtMost(Item(t, Parent(above)), Item(t, i))
  <2>1. Parent(above) \in Nat /\ Parent(above) < above
    BY <1>1, <1>6, TreePlaces
  <2>2. /\ Item(t, Parent(above)) = Item(s, Parent(above)) /\ Item(s, Parent(above)) \in Values
        /\ AtMost(Item(s, Parent(above)), Item(s, above))
    BY <2>1, <1>1, <1>2, <1>6, ItemsAreValues DEF Rising
  <2>3. CASE i = hole
    BY <2>2, <2>3, <1>2
  <2>4. CASE i # hole
    <3>1. i < Len(s) /\ i \in Nat /\ i > above
      BY <1>2, <1>6, ParentBefore
    <3>2. Item(t, i) \in Values
      BY <3>1, <2>4, <1>2, ItemsAreValues
    <3> QED BY <3>2, <2>2, <2>4, <1>3, <1>4, <1>6 DEF Ordering
  <2> QED BY <2>3, <2>4
<1> QED BY <1>5, <1>6 DEF Rising

LEMMA RisingEnds ==
  ASSUME NEW s \in Seq(Values), NEW hole \in Nat, hole < Len(s), Rising(s, hole),
         hole = 0 \/ ~Less(Item(s, hole), Item(s, Parent(hole)))
  PROVE  IsHeap(s)
  BY DEF Rising, IsHeap, AtMost

(* Nothing in a heap is less than its first element: the first place where *)
(* something were would have a parent that is not at most it.              *)
LEMMA RootIsLeast ==
  ASSUME Ordering, NEW s \in Seq(Values), IsHeap(s), s # <<>>
  PROVE  \A j \in 1..Len(s) : AtMost(s[1], s[j])
<1> DEFINE Bad == {i \in Nat : i < Len(s) /\ ~AtMost(Item(s, 0), Item(s, i))}
<1>1. SUFFICES Bad = {}
  <2>1. ASSUME NEW j \in 1..Len(s) PROVE AtMost(s[1], s[j])
    <3>1. j - 1 \in Nat /\ j - 1 < Len(s) /\ Item(s, j - 1) = s[j] /\ Item(s, 0) = s[1]
      BY DEF Item
    <3> QED BY <3>1, <1>1
  <2> QED BY <2>1
<1>2. SUFFICES ASSUME Bad # {} PROVE FALSE
  OBVIOUS
<1>3. PICK i \in Bad : \A j \in Bad : ~(<<j, i>> \in OpToRel(<, Nat))
  BY <1>2, NatLessThanWellFounded, WFMin
<1>4. \A j \in Bad : ~(j < i)
  BY <1>3 DEF OpToRel
<1>5. i \in Nat /\ i < Len(s) /\ ~AtMost(Item(s, 0), Item(s, i))
  OBVIOUS
<1>6. Item(s, 0) \in Values /\ Item(s, i) \in Values
  BY <1>5, ItemsAreValues
<1>7. i > 0
  BY <1>5, <1>6 DEF Ordering, AtMost
<1>8. Parent(i) \in Nat /\ Parent(i) < i /\ Parent(i) < Len(s)
  BY <1>5, <1>7, TreePlaces
<1>9. AtMost(Item(s, 0), Item(s, Parent(i))) /\ Item(s, Parent(i)) \in Values
  BY <1>4, <1>8, ItemsAreValues
<1>10. AtMost(Item(s, Parent(i)), Item(s, i))
  BY <1>5, <1>7 DEF IsHeap
<1> QED BY <1>5, <1>6, <1>9, <1>10 DEF Ordering
-----------------------------------------------------------------------------
(* The order of a list's elements.                                         *)
LEMMA SwapRearranges ==
  ASSUME NEW S, NEW s \in Seq(S), NEW t \in Seq(S), Rearranged(s, t),
         NEW i \in 1..Len(s), NEW j \in 1..Len(s), NEW u \in Seq(S), Len(u) = Len(s),
         u[i] = s[j], u[j] = s[i], \A k \in 1..Len(s) : k # i /\ k # j => u[k] = s[k]
  PROVE  Rearranged(u, t)
<1> DEFINE places == 1..Len(s)
<1>1. PICK f \in Bijection(places, places) : \A k \in places : s[k] = t[f[k]]
  BY DEF Rearranged
<1>2. f \in [places -> places] /\ (\A a, b \in places : f[a] = f[b] => a = b) /\ \A y \in places : \E x \in places : f[x] = y
  BY DEF Bijection, Injection, Surjection, IsInjective
<1> DEFINE g == [k \in places |-> IF k = i THEN f[j] ELSE IF k = j THEN f[i] ELSE f[k]]
<1>3. g \in [places -> places] /\ \A a, b \in places : g[a] = g[b] => a = b
  BY <1>2
<1>4. ASSUME NEW y \in places PROVE \E x \in places : g[x] = y
  <2>1. PICK x \in places : f[x] = y
    BY <1>2
  <2>2. g[i] = f[j] /\ g[j] = f[i] /\ (x # i /\ x # j => g[x] = f[x])
    OBVIOUS
  <2> QED BY <2>1, <2>2
<1>5. g \in Bijection(places, places)
  BY <1>3, <1>4 DEF Bijection, Injection, Surjection, IsInjective
<1>6. \A k \in places : u[k] = t[g[k]]
  BY <1>1
<1> HIDE DEF g
<1> QED BY <1>5, <1>6 DEF Rearranged

LEMMA SameIsRearranged ==
  ASSUME NEW S, NEW s \in Seq(S)
  PROVE  Rearranged(s, s)
<1> DEFINE f == [k \in 1..Len(s) |-> k]
<1>1. f \in Bijection(1..Len(s), 1..Len(s))
  BY DEF Bijection, Injection, Surjection, IsInjective
<1>2. \A k \in 1..Len(s) : s[k] = s[f[k]]
  OBVIOUS
<1> QED BY <1>1, <1>2 DEF Rearranged
-----------------------------------------------------------------------------
(* The steps.                                                              *)
(* What a turn leaves: the list with at most two elements exchanged.       *)
Follows(c, d) ==
  /\ d \in Calls /\ d.out = c.out
  /\ d.at \notin Ends => InTheList(d)
  /\ d.items = c.items \/ \E i, j \in 0..Len(c.items) - 1 : d.items = Swapped(c.items, i, j)
LEMMA TypedTurn ==
  ASSUME NEW c \in Calls, c.at \notin Ends, InTheList(c)
  PROVE  Follows(c, Turn(c))
<1> DEFINE s == c.items  n == Len(s)
<1>1. /\ s \in Seq(Values) /\ c.hole \in Nat /\ c.left \in Nat /\ c.out \in Seq(Values) /\ c.at \in {"up", "down"}
      /\ n \in Nat /\ c.hole < n /\ c.left <= c.hole /\ (c.at = "up" => c.left = 0)
  BY DEF Calls, Ats, Ends, InTheList
<1>2. ASSUME NEW place \in Nat, place < n, place >= c.left
      PROVE  Follows(c, MovedTo(c, place))
  <2> DEFINE d == MovedTo(c, place)
  <2>1. d.items = Swapped(s, c.hole, place) /\ d.hole = place /\ d.left = c.left /\ d.out = c.out /\ d.at = c.at
    BY <1>1 DEF MovedTo, Calls
  <2>2. Swapped(s, c.hole, place) \in Seq(Values) /\ Len(Swapped(s, c.hole, place)) = n
    BY <1>1, <1>2, SwappedItems
  <2>3. d \in Calls
    BY <1>1, <2>2 DEF MovedTo, Calls
  <2>4. InTheList(d)
    BY <1>1, <1>2, <2>1, <2>2 DEF InTheList
  <2> QED BY <1>1, <1>2, <2>1, <2>3, <2>4 DEF Follows
<1>3. ASSUME NEW end \in Ends PROVE Follows(c, Ended(c, end))
  BY <1>1 DEF Ended, Calls, Ats, Ends, Follows
<1>4. Follows(c, Settled(c))
  <2>1. CASE c.left = 0
    BY <2>1, <1>3 DEF Settled, Ends
  <2>2. CASE c.left # 0
    <3> DEFINE d == Settled(c)
    <3>1. d.items = s /\ d.hole = c.left - 1 /\ d.left = c.left - 1 /\ d.out = c.out /\ d.at = c.at
      BY <2>2 DEF Settled, Calls
    <3>2. c.left - 1 \in Nat
      BY <2>2, <1>1
    <3>3. d \in Calls
      BY <2>2, <1>1, <3>2 DEF Settled, Calls
    <3> HIDE DEF d
    <3>4. Follows(c, d)
      BY <2>2, <1>1, <3>1, <3>3 DEF InTheList, Follows
    <3> QED BY <3>4 DEF d
  <2> QED BY <2>1, <2>2
<1> HIDE DEF s, n
<1>5. ASSUME c.at = "up" PROVE Follows(c, Turn(c))
  <2>1. CASE c.hole = 0
    BY <1>3, <1>5, <2>1 DEF Turn, SiftUp, Ends
  <2>2. CASE c.hole # 0
    <3>1. Parent(c.hole) \in Nat /\ Parent(c.hole) < n /\ Parent(c.hole) >= c.left
      <4>1. c.hole \in 1..n - 1
        BY <1>1, <2>2
      <4>2. Parent(c.hole) \in Nat /\ Parent(c.hole) < c.hole
        BY <4>1, <1>1, ParentBefore
      <4> QED BY <4>2, <1>1, <1>5
    <3> QED BY <1>2, <1>3, <1>5, <2>2, <3>1 DEF Turn, SiftUp, Ends, s
  <2> QED BY <2>1, <2>2
<1>6. ASSUME c.at = "down" PROVE Follows(c, Turn(c))
  <2> DEFINE child == LesserChild(s, c.hole)
  <2>1. CASE LeftChild(c.hole) >= n
    BY <1>4, <1>6, <2>1 DEF Turn, SiftDown, s, n
  <2>2. CASE ~(LeftChild(c.hole) >= n)
    <3>1. child \in Nat /\ child < n /\ child >= c.left
      <4>1. LeftChild(c.hole) \in Nat /\ LeftChild(c.hole) > c.hole
        BY <1>1, ChildAfter
      <4>2. child \in {LeftChild(c.hole), LeftChild(c.hole) + 1} /\ child < n
        BY <4>1, <1>1, <2>2 DEF LesserChild, n
      <4> HIDE DEF child
      <4> QED BY <4>1, <4>2, <1>1
    <3>2. Turn(c) \in {Settled(c), Ended(c, "raises"), MovedTo(c, child)}
      BY <1>6, <2>2 DEF Turn, SiftDown, s, n
    <3> QED BY <1>2, <1>3, <1>4, <3>1, <3>2 DEF Ends
  <2> QED BY <2>1, <2>2
<1> QED BY <1>1, <1>5, <1>6

LEMMA TypedEnd ==
  ASSUME NEW t \in Seq(Values), NEW out \in Seq(Values)
  PROVE  Typed(Returned(t, out)) /\ Typed(Call(t, 0, 0, out, "raises"))
  BY DEF Typed, Returned, Call, Calls, Ats, Ends
LEMMA TypedDown ==
  ASSUME NEW t \in Seq(Values), NEW hole \in Nat, hole < Len(t), NEW out \in Seq(Values)
  PROVE  Typed(Call(t, hole, hole, out, "down"))
  BY DEF Typed, Call, Calls, InTheList, Ats
LEMMA NoValues == <<>> \in Seq(Values)
  OBVIOUS

LEMMA TypedStarts ==
  ASSUME NEW s \in Seq(Values)
  PROVE  Typed(Heapify(s)) /\ Typed(HeapPop(s))
<1>1. Typed(Heapify(s))
  <2> DEFINE half == Len(s) \div 2
  <2>1. half \in Nat /\ (half # 0 => half - 1 \in Nat /\ half - 1 < Len(s)) /\ <<>> \in Seq(Values)
    OBVIOUS
  <2>2. Heapify(s) = IF half = 0 THEN Returned(s, <<>>) ELSE Call(s, half - 1, half - 1, <<>>, "down")
    BY DEF Heapify
  <2> HIDE DEF half
  <2>3. CASE half = 0
    BY <2>1, <2>2, <2>3, TypedEnd
  <2>4. CASE half # 0
    <3>1. Typed(Call(s, half - 1, half - 1, <<>>, "down"))
      BY <2>1, <2>4, TypedDown
    <3> QED BY <3>1, <2>2, <2>4
  <2> QED BY <2>3, <2>4
<1>2. Typed(HeapPop(s))
  <2> DEFINE n == Len(s)
             t == [SubSeq(s, 1, n - 1) EXCEPT ![1] = s[n]]
  <2>1. n \in Nat /\ (n > 1 => t \in Seq(Values) /\ 0 < Len(t) /\ <<s[1]>> \in Seq(Values))
    OBVIOUS
  <2>2. Typed(Call(s, 0, 0, <<>>, "raises")) /\ Typed(Returned(<<>>, s))
    BY NoValues, TypedEnd
  <2> HIDE DEF n, t
  <2>3. CASE n \in {0, 1}
    BY <2>2, <2>3 DEF HeapPop, n
  <2>4. CASE n \notin {0, 1}
    <3>1. n > 1
      BY <2>1, <2>4
    <3>2. Typed(Call(t, 0, 0, <<s[1]>>, "down"))
      BY <3>1, <2>1, TypedDown
    <3>3. n # 0 /\ n # 1
      BY <2>4
    <3> QED BY <3>2, <3>3, Zenon DEF HeapPop, n, t
  <2> QED BY <2>3, <2>4
<1> QED BY <1>1, <1>2

LEMMA TypedPushes ==
  ASSUME NEW s \in Seq(Values), NEW v \in Values
  PROVE  Typed(HeapPush(s, v)) /\ Typed(PushPop(s, v))
<1>1. Typed(HeapPush(s, v))
  <2>1. Append(s, v) \in Seq(Values) /\ Len(s) < Len(Append(s, v)) /\ Len(s) \in Nat /\ <<>> \in Seq(Values)
    OBVIOUS
  <2>2. Typed(Call(Append(s, v), Len(s), 0, <<>>, "up"))
    BY <2>1 DEF Typed, Call, Calls, InTheList, Ats
  <2> QED BY <2>2 DEF HeapPush
<1>2. Typed(PushPop(s, v))
  <2>1. <<v>> \in Seq(Values)
    OBVIOUS
  <2>2. Typed(Returned(s, <<v>>)) /\ Typed(Call(s, 0, 0, <<v>>, "raises"))
    BY <2>1, TypedEnd
  <2>3. ASSUME s # <<>> PROVE Typed(Call([s EXCEPT ![1] = v], 0, 0, <<s[1]>>, "down"))
    <3> DEFINE t == [s EXCEPT ![1] = v]
    <3>1. t \in Seq(Values) /\ 0 < Len(t) /\ <<s[1]>> \in Seq(Values)
      BY <2>3
    <3> HIDE DEF t
    <3>2. Typed(Call(t, 0, 0, <<s[1]>>, "down"))
      BY <3>1, TypedDown
    <3> QED BY <3>2 DEF t
  <2> QED BY <2>2, <2>3 DEF PushPop
<1> QED BY <1>1, <1>2

(* In every call of heapq the places that are looked at are places of the *)
(* list, whatever the values and their comparison are.                     *)
THEOREM TypeCorrect == Spec => []TypeOK
<1>1. Init => TypeOK
  BY NoValues, TypedEnd DEF Init, TypeOK
<1>2. TypeOK /\ [Next]_vars => TypeOK'
  <2> SUFFICES ASSUME TypeOK, [Next]_vars PROVE TypeOK'
    OBVIOUS
  <2>1. /\ call \in Calls /\ call.items \in Seq(Values) /\ (call.at \notin Ends => InTheList(call))
        /\ given \in Seq(Values) /\ heaped \in BOOLEAN
    BY DEF TypeOK, Typed, Calls
  <2>2. CASE Heapifies
    BY <2>1, <2>2, TypedStarts DEF Heapifies, Begins, TypeOK
  <2>3. CASE Pops
    BY <2>1, <2>3, TypedStarts DEF Pops, Begins, TypeOK
  <2>4. CASE Turns
    BY <2>1, <2>4, TypedTurn DEF Turns, Follows, TypeOK, Typed
  <2>5. ASSUME NEW v \in Values, Pushes(v) \/ PushPops(v) PROVE TypeOK'
    <3>1. Append(call.items, v) \in Seq(Values)
      BY <2>1
    <3> QED BY <2>1, <2>5, <3>1, TypedPushes DEF Pushes, PushPops, Begins, TypeOK
  <2>6. ASSUME NEW s \in Seq(Values), Changes(s) PROVE TypeOK'
    BY <2>6, NoValues, TypedEnd DEF Changes, Begins, TypeOK
  <2>7. CASE UNCHANGED vars
    BY <2>7 DEF vars, TypeOK
  <2> QED BY <2>2, <2>3, <2>4, <2>5, <2>6, <2>7 DEF Next
<1> QED BY <1>1, <1>2, PTL DEF Spec
-----------------------------------------------------------------------------
(* Nothing is lost: a turn exchanges two elements, and so does the start   *)
(* of a pop.                                                               *)
LEMMA SwapInFront ==
  ASSUME NEW S, NEW a \in Seq(S), NEW b \in Seq(S), NEW t \in Seq(S), Rearranged(a \o b, t),
         NEW i \in 1..Len(a), NEW j \in 1..Len(a), NEW e \in Seq(S), Len(e) = Len(a),
         e[i] = a[j], e[j] = a[i], \A k \in 1..Len(a) : k # i /\ k # j => e[k] = a[k]
  PROVE  Rearranged(e \o b, t)
<1> DEFINE s == a \o b  u == e \o b  m == Len(a)  n == Len(b)
<1>1. m \in Nat /\ n \in Nat /\ i \in 1..m /\ j \in 1..m /\ \A k \in 1..m : k # i /\ k # j => e[k] = a[k]
  OBVIOUS
<1>2. s \in Seq(S) /\ Len(s) = m + n /\ \A k \in 1..m + n : s[k] = IF k <= m THEN a[k] ELSE b[k - m]
  BY ConcatProperties
<1>3. u \in Seq(S) /\ Len(u) = m + n /\ \A k \in 1..m + n : u[k] = IF k <= m THEN e[k] ELSE b[k - m]
  <2>1. /\ u \in Seq(S) /\ Len(u) = Len(e) + n
        /\ \A k \in 1..Len(e) + n : u[k] = IF k <= Len(e) THEN e[k] ELSE b[k - Len(e)]
    <3>1. e \in Seq(S) /\ b \in Seq(S)
      OBVIOUS
    <3> QED BY ONLY <3>1, ConcatProperties
  <2>2. Len(e) = m
    OBVIOUS
  <2> HIDE DEF u, m, n
  <2> QED BY <2>1, <2>2
<1> HIDE DEF s, u, m, n
<1>4. i \in 1..Len(s) /\ j \in 1..Len(s) /\ Len(u) = Len(s) /\ i \in 1..m + n /\ j \in 1..m + n
  BY <1>1, <1>2, <1>3
<1>5. u[i] = s[j] /\ u[j] = s[i]
  BY <1>1, <1>2, <1>3, <1>4
<1>6. ASSUME NEW k \in 1..Len(s), k # i, k # j PROVE u[k] = s[k]
  <2>1. k \in 1..m + n /\ (k <= m => k \in 1..m)
    BY <1>1, <1>2
  <2>2. u[k] = (IF k <= m THEN e[k] ELSE b[k - m]) /\ s[k] = (IF k <= m THEN a[k] ELSE b[k - m])
    BY <2>1, <1>2, <1>3, Zenon
  <2>3. k <= m => e[k] = a[k]
    BY <2>1, <1>1, <1>6, Zenon
  <2> QED BY <2>2, <2>3, Zenon
<1>7. Rearranged(s, t)
  BY DEF s
<1>8. Rearranged(u, t)
  BY <1>2, <1>3, <1>4, <1>5, <1>6, <1>7, SwapRearranges
<1> QED BY <1>8 DEF u

LEMMA TurnRearranges ==
  ASSUME NEW c \in Calls, NEW d, Follows(c, d), NEW t \in Seq(Values), Rearranged(c.items \o c.out, t)
  PROVE  Rearranged(d.items \o d.out, t)
<1>1. c.items \in Seq(Values) /\ c.out \in Seq(Values) /\ d.out = c.out
  BY DEF Calls, Follows
<1>2. CASE d.items = c.items
  BY <1>1, <1>2
<1>3. ASSUME NEW i \in 0..Len(c.items) - 1, NEW j \in 0..Len(c.items) - 1, d.items = Swapped(c.items, i, j)
      PROVE  Rearranged(d.items \o d.out, t)
  <2>1. /\ d.items \in Seq(Values) /\ Len(d.items) = Len(c.items)
        /\ i + 1 \in 1..Len(c.items) /\ j + 1 \in 1..Len(c.items)
        /\ d.items[i + 1] = c.items[j + 1] /\ d.items[j + 1] = c.items[i + 1]
        /\ \A k \in 1..Len(c.items) : k # i + 1 /\ k # j + 1 => d.items[k] = c.items[k]
    BY <1>1, <1>3 DEF Swapped, Item
  <2> DEFINE a == c.items  b == c.out  e == d.items
  <2>2. Rearranged(a \o b, t)
    OBVIOUS
  <2> HIDE DEF a, b, e
  <2>3. /\ a \in Seq(Values) /\ b \in Seq(Values) /\ e \in Seq(Values) /\ Len(e) = Len(a)
        /\ i + 1 \in 1..Len(a) /\ j + 1 \in 1..Len(a) /\ e[i + 1] = a[j + 1] /\ e[j + 1] = a[i + 1]
        /\ \A k \in 1..Len(a) : k # i + 1 /\ k # j + 1 => e[k] = a[k]
    BY <1>1, <2>1 DEF a, b, e
  <2>4. Rearranged(e \o b, t)
    BY <2>2, <2>3, SwapInFront
  <2> QED BY <1>1, <2>4 DEF b, e
<1> QED BY <1>2, <1>3 DEF Follows

LEMMA FirstAndLast ==
  ASSUME NEW s \in Seq(Values), NEW u \in Seq(Values), Len(u) = Len(s), Len(s) > 0,
         u[1] = s[Len(s)], u[Len(s)] = s[1], \A k \in 2..Len(s) - 1 : u[k] = s[k]
  PROVE  Rearranged(u, s)
<1>1. 1 \in 1..Len(s) /\ Len(s) \in 1..Len(s)
  OBVIOUS
<1>2. \A k \in 1..Len(s) : k # 1 /\ k # Len(s) => u[k] = s[k]
  OBVIOUS
<1> QED BY <1>1, <1>2, SameIsRearranged, SwapRearranges

LEMMA StartsLoseNothing ==
  ASSUME NEW s \in Seq(Values)
  PROVE  /\ \A c \in {Heapify(s), HeapPop(s), Returned(s, <<>>)} : Rearranged(c.items \o c.out, s)
         /\ \A v \in Values : \A c \in {HeapPush(s, v), PushPop(s, v)} : Rearranged(c.items \o c.out, Append(s, v))
<1>1. /\ s \o <<>> = s /\ <<>> \o s = s /\ Rearranged(s, s)
      /\ \A v \in Values : /\ Append(s, v) \in Seq(Values) /\ Rearranged(Append(s, v), Append(s, v))
                          /\ Append(s, v) \o <<>> = Append(s, v) /\ s \o <<v>> = Append(s, v)
  BY SameIsRearranged, AppendProperties, AppendIsConcat, ConcatEmptySeq
<1>2. Heapify(s).items = s /\ Heapify(s).out = <<>> /\ Returned(s, <<>>).items = s /\ Returned(s, <<>>).out = <<>>
  BY DEF Heapify, Returned, Call
<1>3. ASSUME NEW v \in Values PROVE HeapPush(s, v).items = Append(s, v) /\ HeapPush(s, v).out = <<>>
  BY DEF HeapPush, Call
<1>4. Rearranged(HeapPop(s).items \o HeapPop(s).out, s)
  <2> DEFINE n == Len(s)
             t == [SubSeq(s, 1, n - 1) EXCEPT ![1] = s[n]]
             u == t \o <<s[1]>>
  <2>1. n \in Nat /\ (n = 0 => s = <<>>)
    OBVIOUS
  <2>2. ASSUME n > 1 PROVE Rearranged(u, s)
    <3>0. n - 1 \in 1..Len(s) /\ s[n] \in Values /\ s[1] \in Values /\ 1 \in 1..n - 1 /\ 1 \in 1..Len(s) + 1
      BY <2>2
    <3> DEFINE r == SubSeq(s, 1, n - 1)
    <3>a. r \in Seq(Values) /\ Len(r) = n - 1 /\ \A k \in 1..n - 1 : r[k] = s[k]
      BY <2>2
    <3> HIDE DEF r
    <3>1. /\ t \in Seq(Values) /\ Len(t) = n - 1 /\ t[1] = s[n] /\ (\A k \in 2..n - 1 : t[k] = s[k])
          /\ <<s[1]>> \in Seq(Values) /\ Len(<<s[1]>>) = 1 /\ <<s[1]>>[1] = s[1]
      <4>1. 1 \in 1..Len(r) /\ t = [r EXCEPT ![1] = s[n]]
        BY <3>0, <3>a DEF r
      <4> HIDE DEF t
      <4>2. t \in Seq(Values) /\ Len(t) = Len(r) /\ \A k \in 1..Len(r) : t[k] = IF k = 1 THEN s[n] ELSE r[k]
        BY <4>1, <3>0, <3>a, ExceptSeq
      <4> QED BY <4>2, <3>0, <3>a
    <3> HIDE DEF t
    <3>2. u \in Seq(Values) /\ Len(u) = n - 1 + 1 /\ \A k \in 1..n - 1 + 1 : u[k] = IF k <= n - 1 THEN t[k] ELSE <<s[1]>>[k - (n - 1)]
      BY <3>1, ConcatProperties
    <3> HIDE DEF u
    <3>3. /\ u \in Seq(Values) /\ Len(u) = Len(s) /\ Len(s) > 0
          /\ u[1] = s[Len(s)] /\ u[Len(s)] = s[1] /\ \A k \in 2..Len(s) - 1 : u[k] = s[k]
      BY <2>1, <2>2, <3>1, <3>2
    <3> QED BY <3>3, FirstAndLast
  <2> HIDE DEF n, t
  <2>3. CASE n = 0
    BY <1>1, <2>3 DEF HeapPop, Call, n
  <2>4. CASE n = 1
    BY <1>1, <2>4 DEF HeapPop, Returned, Call, n
  <2>5. CASE n \notin {0, 1}
    <3>1. n > 1 /\ n # 0 /\ n # 1
      BY <2>1, <2>5
    <3>2. HeapPop(s) = Call(t, 0, 0, <<s[1]>>, "down")
      BY <3>1, Zenon DEF HeapPop, n, t
    <3> QED BY <3>1, <3>2, <2>2 DEF Call
  <2> QED BY <2>3, <2>4, <2>5
<1>5. ASSUME NEW v \in Values PROVE Rearranged(PushPop(s, v).items \o PushPop(s, v).out, Append(s, v))
  <2> DEFINE t == [s EXCEPT ![1] = v]
             u == t \o <<s[1]>>
             p == Append(s, v)
  <2>1. ASSUME s # <<>> PROVE Rearranged(u, p)
    <3>1. /\ p \in Seq(Values) /\ u \in Seq(Values) /\ Len(u) = Len(p) /\ Len(p) > 0
          /\ u[1] = p[Len(p)] /\ u[Len(p)] = p[1] /\ \A k \in 2..Len(p) - 1 : u[k] = p[k]
      BY <2>1
    <3> HIDE DEF u, p
    <3> QED BY <3>1, FirstAndLast
  <2> HIDE DEF t
  <2>2. PushPop(s, v).items \o PushPop(s, v).out \in {s \o <<v>>} \cup (IF s # <<>> THEN {u} ELSE {})
    BY DEF PushPop, Returned, Call, t
  <2> QED BY <1>1, <2>1, <2>2
<1> QED BY <1>1, <1>2, <1>3, <1>4, <1>5

(* What every call leaves of the list and of what it was given, in each of *)
(* its steps.                                                              *)
THEOREM ListsLoseNothing == Spec => []NothingLost
<1>1. Init => NothingLost
  BY NoValues, StartsLoseNothing DEF Init, NothingLost
<1>2. TypeOK /\ NothingLost /\ [Next]_vars => NothingLost'
  <2> SUFFICES ASSUME TypeOK, NothingLost, [Next]_vars PROVE NothingLost'
    OBVIOUS
  <2>1. call \in Calls /\ call.items \in Seq(Values) /\ given \in Seq(Values) /\ (call.at \notin Ends => InTheList(call))
    BY DEF TypeOK, Typed, Calls
  <2>2. CASE Heapifies
    BY <2>1, <2>2, StartsLoseNothing DEF Heapifies, Begins, NothingLost
  <2>3. CASE Pops
    BY <2>1, <2>3, StartsLoseNothing DEF Pops, Begins, NothingLost
  <2>4. CASE Turns
    <3>1. Follows(call, call')
      BY <2>1, <2>4, TypedTurn DEF Turns
    <3> QED BY <2>1, <2>4, <3>1, TurnRearranges DEF Turns, NothingLost
  <2>5. ASSUME NEW v \in Values, Pushes(v) \/ PushPops(v) PROVE NothingLost'
    BY <2>1, <2>5, StartsLoseNothing DEF Pushes, PushPops, Begins, NothingLost
  <2>6. ASSUME NEW s \in Seq(Values), Changes(s) PROVE NothingLost'
    BY <2>6, StartsLoseNothing DEF Changes, Begins, NothingLost
  <2>7. CASE UNCHANGED vars
    BY <2>7 DEF vars, NothingLost
  <2> QED BY <2>2, <2>3, <2>4, <2>5, <2>6, <2>7 DEF Next
<1> QED BY <1>1, <1>2, TypeCorrect, PTL DEF Spec

-----------------------------------------------------------------------------
(* The heap, at the start of a call and after a turn.                      *)
LEMMA HeapifyShapes ==
  ASSUME NEW s \in Seq(Values)
  PROVE  Shaped(Heapify(s))
<1> DEFINE n == Len(s)  half == n \div 2
<1>1. n \in Nat /\ half \in Nat /\ n < 2 * half + 2 /\ (half = 0 => n < 2)
  OBVIOUS
<1>2. CASE half = 0
  BY <1>1, <1>2 DEF Heapify, Returned, Call, Shaped, AllAtMost, IsHeap, Ends
<1>3. CASE half # 0
  <2>1. half - 1 \in Nat
    BY <1>1, <1>3
  <2> HIDE DEF half
  <2>2. ASSUME NEW i \in 1..n - 1 PROVE Parent(i) < half
    BY <1>1 DEF Parent
  <2>3. ASSUME half - 1 > 0 PROVE Parent(half - 1) < half - 1
    BY <2>1, <2>3 DEF Parent
  <2>4. \A i \in 1..n - 1 : Parent(i) \in Nat
    BY ParentBefore
  <2>5. Sinking(s, half - 1, half - 1)
    <3> SUFFICES ASSUME NEW i \in 1..n - 1
                 PROVE  /\ ~(Parent(i) >= half - 1 /\ Parent(i) # half - 1)
                        /\ ~(half - 1 > 0 /\ Parent(half - 1) >= half - 1)
      BY <2>1 DEF Sinking
    <3>1. ~(Parent(i) >= half - 1 /\ Parent(i) # half - 1)
      BY <2>1, <2>2, <2>4, <1>1
    <3>2. ~(half - 1 > 0 /\ Parent(half - 1) >= half - 1)
      BY <2>1, <2>3, TreePlaces
    <3> QED BY <3>1, <3>2
  <2>6. Heapify(s) = Call(s, half - 1, half - 1, <<>>, "down")
    BY <1>3 DEF Heapify, half
  <2> QED BY <2>5, <2>6 DEF Call, Shaped, AllAtMost, Ends
<1> QED BY <1>2, <1>3

LEMMA PushShapes ==
  ASSUME NEW s \in Seq(Values), NEW v \in Values, IsHeap(s)
  PROVE  Shaped(HeapPush(s, v))
<1> DEFINE t == Append(s, v)  n == Len(s)
<1>1. n \in Nat /\ Len(t) = n + 1 /\ \A i \in Nat : i < n => Item(t, i) = Item(s, i)
  BY DEF Item
<1> HIDE DEF t
<1>2. Rising(t, n)
  <2> SUFFICES ASSUME NEW i \in 1..Len(t) - 1
               PROVE  (i # n => AtMost(Item(t, Parent(i)), Item(t, i))) /\ Parent(i) # n
    BY DEF Rising
  <2>1. i \in Nat /\ i > 0 /\ i < n + 1 /\ Parent(i) \in Nat /\ Parent(i) < i
    BY <1>1, ParentBefore
  <2>2. ASSUME i # n PROVE AtMost(Item(t, Parent(i)), Item(t, i))
    <3>1. i \in 1..n - 1 /\ i < n /\ Parent(i) < n
      BY <2>1, <2>2, <1>1
    <3> QED BY <2>1, <3>1, <1>1 DEF IsHeap
  <2> QED BY <1>1, <2>1, <2>2
<1> QED BY <1>2 DEF HeapPush, Call, Shaped, AllAtMost, Ends, t

(* Another element takes the place of the first of a heap.                 *)
LEMMA NewRootSinks ==
  ASSUME NEW s \in Seq(Values), IsHeap(s), NEW t \in Seq(Values), Len(t) <= Len(s),
         \A i \in Nat : i > 0 /\ i < Len(t) => Item(t, i) = Item(s, i)
  PROVE  Sinking(t, 0, 0)
<1> SUFFICES ASSUME NEW i \in 1..Len(t) - 1, Parent(i) # 0
             PROVE  AtMost(Item(t, Parent(i)), Item(t, i))
  BY DEF Sinking
<1>1. i \in Nat /\ i > 0 /\ i < Len(t) /\ Parent(i) \in Nat /\ Parent(i) < i
  BY ParentBefore
<1>2. Len(t) \in Nat /\ Len(s) \in Nat
  OBVIOUS
<1>3. i \in 1..Len(s) - 1 /\ Parent(i) > 0 /\ Parent(i) < Len(t)
  BY <1>1, <1>2
<1> QED BY <1>1, <1>3 DEF IsHeap

LEMMA PopShapes ==
  ASSUME Ordering, NEW s \in Seq(Values), IsHeap(s)
  PROVE  Shaped(HeapPop(s))
<1> DEFINE n == Len(s)
           r == SubSeq(s, 1, n - 1)
           t == [r EXCEPT ![1] = s[n]]
<1>1. n \in Nat /\ (n = 0 => s = <<>>)
  OBVIOUS
<1>2. ASSUME n > 1 PROVE Shaped(Call(t, 0, 0, <<s[1]>>, "down"))
  <2>1. r \in Seq(Values) /\ Len(r) = n - 1 /\ (\A k \in 1..n - 1 : r[k] = s[k]) /\ s[n] \in Values /\ 1 \in 1..Len(r)
    BY <1>2
  <2>2. \A j \in 1..n : AtMost(s[1], s[j])
    <3>1. s # <<>>
      BY <1>2
    <3> QED BY <3>1, RootIsLeast
  <2> HIDE DEF n, r
  <2>3. t \in Seq(Values) /\ Len(t) = n - 1 /\ \A k \in 1..n - 1 : t[k] = IF k = 1 THEN s[n] ELSE s[k]
    <3>1. t \in Seq(Values) /\ Len(t) = Len(r) /\ \A k \in 1..Len(r) : t[k] = IF k = 1 THEN s[n] ELSE r[k]
      BY <2>1, ExceptSeq
    <3> QED BY <2>1, <3>1
  <2> HIDE DEF t
  <2>4. AllAtMost(<<s[1]>>, t)
    <3> SUFFICES ASSUME NEW j \in 1..n - 1 PROVE AtMost(s[1], t[j])
      BY <2>3 DEF AllAtMost
    <3> QED BY <1>1, <1>2, <2>2, <2>3
  <2>5. \A i \in Nat : i > 0 /\ i < Len(t) => Item(t, i) = Item(s, i)
    BY <1>1, <2>3 DEF Item
  <2>6. Len(t) <= Len(s)
    BY <1>1, <2>3 DEF n
  <2>7. Sinking(t, 0, 0)
    BY <2>3, <2>5, <2>6, NewRootSinks
  <2> QED BY <2>4, <2>7 DEF Shaped, Call, Ends
<1>3. Shaped(Call(<<>>, 0, 0, <<>>, "raises")) /\ Shaped(Returned(<<>>, s))
  BY DEF Shaped, Call, Returned, AllAtMost, IsHeap
<1> HIDE DEF n
<1>4. CASE n \in {0, 1}
  BY <1>1, <1>3, <1>4 DEF HeapPop, n
<1>5. CASE n \notin {0, 1}
  <2>1. n > 1 /\ n # 0 /\ n # 1
    BY <1>1, <1>5
  <2> QED BY <1>2, <2>1, Zenon DEF HeapPop, n, t, r
<1> QED BY <1>4, <1>5

LEMMA PushPopShapes ==
  ASSUME Ordering, NEW s \in Seq(Values), IsHeap(s), NEW v \in Values
  PROVE  Shaped(PushPop(s, v))
<1>1. CASE s = <<>>
  BY <1>1 DEF PushPop, Returned, Call, Shaped, AllAtMost, IsHeap
<1>2. CASE s # <<>>
  <2>1. s[1] \in Values /\ Len(s) \in Nat /\ 1 \in 1..Len(s) /\ \A j \in 1..Len(s) : AtMost(s[1], s[j]) /\ s[j] \in Values
    <3>1. \A j \in 1..Len(s) : AtMost(s[1], s[j])
      BY <1>2, RootIsLeast
    <3> QED BY <1>2, <3>1
  <2>2. Orders(s[1], v)
    BY <2>1 DEF Ordering
  <2>3. CASE ~Less(s[1], v)
    <3>1. AllAtMost(<<v>>, s)
      <4> SUFFICES ASSUME NEW j \in 1..Len(s) PROVE AtMost(v, s[j])
        BY DEF AllAtMost
      <4>1. AtMost(v, s[1])
        BY <2>3 DEF AtMost
      <4> QED BY <4>1, <2>1 DEF Ordering
    <3>2. PushPop(s, v) = Returned(s, <<v>>)
      BY <1>2, <2>2, <2>3 DEF PushPop
    <3> QED BY <3>1, <3>2 DEF Shaped, Returned, Call
  <2>4. CASE Less(s[1], v)
    <3> DEFINE t == [s EXCEPT ![1] = v]
    <3>1. t \in Seq(Values) /\ Len(t) = Len(s) /\ \A k \in 1..Len(s) : t[k] = IF k = 1 THEN v ELSE s[k]
      BY <2>1, ExceptSeq
    <3>2. PushPop(s, v) = Call(t, 0, 0, <<s[1]>>, "down")
      BY <1>2, <2>2, <2>4 DEF PushPop
    <3> HIDE DEF t
    <3>3. AllAtMost(<<s[1]>>, t)
      <4> SUFFICES ASSUME NEW j \in 1..Len(s) PROVE AtMost(s[1], t[j])
        BY <3>1 DEF AllAtMost
      <4>1. AtMost(s[1], v)
        BY <2>1, <2>4 DEF Ordering
      <4> QED BY <4>1, <2>1, <3>1
    <3>4. \A i \in Nat : i > 0 /\ i < Len(t) => Item(t, i) = Item(s, i)
      BY <2>1, <3>1 DEF Item
    <3>5. Sinking(t, 0, 0)
      BY <2>1, <3>1, <3>4, NewRootSinks
    <3> QED BY <3>2, <3>3, <3>5 DEF Shaped, Call, Ends
  <2> QED BY <2>3, <2>4
<1> QED BY <1>1, <1>2

LEMMA SettledShapes ==
  ASSUME NEW c \in Calls, InTheList(c), c.at = "down", AllAtMost(c.out, c.items),
         \A i \in 1..Len(c.items) - 1 :
           Parent(i) >= c.left => AtMost(Item(c.items, Parent(i)), Item(c.items, i))
  PROVE  Shaped(Settled(c))
<1>1. c.items \in Seq(Values) /\ c.left \in Nat /\ c.hole \in Nat /\ c.left <= c.hole /\ c.hole < Len(c.items)
  BY DEF Calls, InTheList
<1>2. \A i \in 1..Len(c.items) - 1 : Parent(i) \in Nat
  <2>1. Len(c.items) \in Nat
    BY <1>1
  <2> QED BY <2>1, ParentBefore
<1>3. CASE c.left = 0
  <2>1. IsHeap(c.items)
    BY <1>2, <1>3 DEF IsHeap
  <2>2. Settled(c).items = c.items /\ Settled(c).out = c.out /\ Settled(c).at = "returns"
    BY <1>3 DEF Settled, Ended, Calls
  <2> QED BY <2>1, <2>2 DEF Shaped
<1>4. CASE c.left # 0
  <2> DEFINE k == c.left - 1
  <2>1. k \in Nat /\ \A j \in Nat : j >= k /\ j # k => j >= c.left
    BY <1>1, <1>4
  <2>2. Settled(c).items = c.items /\ Settled(c).out = c.out /\ Settled(c).at = "down" /\ Settled(c).hole = k /\ Settled(c).left = k
    BY <1>4 DEF Settled, Calls
  <2> HIDE DEF k
  <2>3. Sinking(c.items, k, k)
    <3>1. k > 0 => ~(Parent(k) >= k)
      BY <2>1, TreePlaces
    <3> QED BY <1>2, <2>1, <3>1 DEF Sinking
  <2> QED BY <2>2, <2>3 DEF Shaped, Ends
<1> QED BY <1>3, <1>4

LEMMA TurnShapes ==
  ASSUME Ordering, NEW c \in Calls, c.at \notin Ends, InTheList(c), Shaped(c), Turn(c).at # "raises"
  PROVE  Shaped(Turn(c))
<1> DEFINE s == c.items  d == Turn(c)
<1>1. /\ s \in Seq(Values) /\ c.hole \in Nat /\ c.left \in Nat /\ c.hole < Len(s) /\ Len(s) \in Nat
      /\ c.at \in {"up", "down"}
  BY DEF Calls, Ats, Ends, InTheList
<1>2. AllAtMost(d.out, d.items)
  <2>1. d.out = c.out /\ (d.items = s \/ \E i, j \in 0..Len(s) - 1 : d.items = Swapped(s, i, j))
    BY TypedTurn DEF Follows
  <2>2. \A i, j \in 0..Len(s) - 1 : \A k \in DOMAIN Swapped(s, i, j) : \E m \in DOMAIN s : Swapped(s, i, j)[k] = s[m]
    BY <1>1 DEF Swapped, Item
  <2> QED BY <2>1, <2>2 DEF AllAtMost, Shaped
<1>3. ASSUME NEW place
      PROVE  /\ MovedTo(c, place).items = Swapped(s, c.hole, place) /\ MovedTo(c, place).hole = place
             /\ MovedTo(c, place).left = c.left /\ MovedTo(c, place).at = c.at
  BY DEF MovedTo, Calls
<1>4. ASSUME c.at = "up" PROVE Shaped(d)
  <2>1. Rising(s, c.hole)
    BY <1>4 DEF Shaped
  <2>2. CASE c.hole = 0 \/ ~Less(Item(s, c.hole), Item(s, Parent(c.hole)))
    <3>1. IsHeap(s)
      BY <1>1, <2>1, <2>2, RisingEnds
    <3>2. d = Ended(c, "returns") \/ d = Ended(c, "raises")
      BY <1>4, <2>2 DEF Turn, SiftUp
    <3>3. d.items = s /\ d.at \in Ends
      BY <3>2 DEF Ended, Calls, Ends
    <3> QED BY <1>2, <3>1, <3>3 DEF Shaped, Ends
  <2>3. CASE c.hole # 0 /\ Less(Item(s, c.hole), Item(s, Parent(c.hole)))
    <3>1. c.hole > 0
      BY <1>1, <2>3
    <3>2. Rising(Swapped(s, c.hole, Parent(c.hole)), Parent(c.hole))
      BY <1>1, <2>1, <2>3, <3>1, RisingGoesOn
    <3>3. d = MovedTo(c, Parent(c.hole)) \/ d = Ended(c, "raises")
      BY <1>4, <2>3 DEF Turn, SiftUp
    <3>4. d = MovedTo(c, Parent(c.hole))
      BY <3>3 DEF Ended, Calls
    <3> QED BY <1>2, <1>3, <1>4, <3>2, <3>4 DEF Shaped, Ends
  <2> QED BY <2>2, <2>3
<1>5. ASSUME c.at = "down" PROVE Shaped(d)
  <2> DEFINE child == LesserChild(s, c.hole)
  <2>1. Sinking(s, c.hole, c.left)
    BY <1>5 DEF Shaped
  <2>2. CASE LeftChild(c.hole) >= Len(s) \/ ~Less(Item(s, child), Item(s, c.hole))
    <3>1. \A i \in 1..Len(s) - 1 : Parent(i) >= c.left => AtMost(Item(s, Parent(i)), Item(s, i))
      BY <1>1, <2>1, <2>2, SinkingEnds
    <3>2. Shaped(Settled(c))
      BY <1>5, <3>1, SettledShapes DEF Shaped
    <3>3. d = Settled(c) \/ d = Ended(c, "raises")
      BY <1>5, <2>2 DEF Turn, SiftDown
    <3>4. d = Settled(c)
      BY <3>3 DEF Ended, Calls
    <3> QED BY <3>2, <3>4
  <2>3. CASE ~(LeftChild(c.hole) >= Len(s)) /\ Less(Item(s, child), Item(s, c.hole))
    <3>1. LeftChild(c.hole) < Len(s)
      <4>1. LeftChild(c.hole) \in Nat
        BY <1>1, ChildAfter
      <4> HIDE DEF s
      <4> QED BY <1>1, <2>3, <4>1
    <3>2. Sinking(Swapped(s, c.hole, child), child, c.left)
      BY <1>1, <2>1, <2>3, <3>1, SinkingGoesOn
    <3>3. d = MovedTo(c, child) \/ d = Ended(c, "raises")
      BY <1>5, <2>3 DEF Turn, SiftDown
    <3>4. d = MovedTo(c, child)
      BY <3>3 DEF Ended, Calls
    <3> QED BY <1>2, <1>3, <1>5, <3>2, <3>4 DEF Shaped, Ends
  <2> QED BY <2>2, <2>3
<1> QED BY <1>1, <1>4, <1>5

LEMMA Inductive ==
  ASSUME Ordering, IInv, [Next]_vars
  PROVE  (heaped => Shaped(call))'
<1>1. /\ call \in Calls /\ call.items \in Seq(Values) /\ (call.at \notin Ends => InTheList(call))
      /\ heaped \in BOOLEAN
  BY DEF IInv, TypeOK, Typed, Calls
<1>2. heaped => Shaped(call)
  BY DEF IInv
<1>3. heaped /\ call.at \in Ends => IsHeap(call.items)
  BY <1>2 DEF Shaped
<1>4. CASE Heapifies
  BY <1>1, <1>4, HeapifyShapes DEF Heapifies, Begins
<1>5. CASE Pops
  BY <1>1, <1>3, <1>5, PopShapes DEF Pops, Begins
<1>6. CASE Turns
  BY <1>1, <1>2, <1>6, TurnShapes DEF Turns
<1>7. ASSUME NEW v \in Values, Pushes(v) \/ PushPops(v) PROVE (heaped => Shaped(call))'
  BY <1>1, <1>3, <1>7, PushShapes, PushPopShapes DEF Pushes, PushPops, Begins
<1>8. ASSUME NEW s \in Seq(Values), Changes(s) PROVE (heaped => Shaped(call))'
  BY <1>8 DEF Changes, Begins
<1>9. CASE UNCHANGED vars
  BY <1>2, <1>9 DEF vars
<1> QED BY <1>4, <1>5, <1>6, <1>7, <1>8, <1>9 DEF Next

(* Where all values can be compared and are in order, a list that was made *)
(* a heap is one between any two calls of heapq, and what a pop takes out  *)
(* is at most all that stays.                                              *)
THEOREM HeapsStayHeaps == ASSUME Ordering PROVE Spec => [](HeapStaysHeap /\ PopsTheLeast)
<1>1. Init => (heaped => Shaped(call))
  BY DEF Init
<1>2. TypeOK /\ (heaped => Shaped(call)) /\ [Next]_vars => (heaped => Shaped(call))'
  BY Inductive DEF IInv
<1>3. (heaped => Shaped(call)) => HeapStaysHeap /\ PopsTheLeast
  BY DEF Shaped, AllAtMost, HeapStaysHeap, PopsTheLeast
<1> QED BY <1>1, <1>2, <1>3, TypeCorrect, PTL DEF Spec

-----------------------------------------------------------------------------
(* What comes out is one element at the most.                              *)
OneOut(c) == Len(c.out) <= 1
LEMMA StartsTakeOne ==
  ASSUME NEW s \in Seq(Values)
  PROVE  /\ OneOut(Heapify(s)) /\ OneOut(HeapPop(s)) /\ OneOut(Returned(s, <<>>))
         /\ \A v \in Values : OneOut(HeapPush(s, v)) /\ OneOut(PushPop(s, v))
<1>1. Heapify(s).out = <<>> /\ Returned(s, <<>>).out = <<>>
  BY DEF Heapify, Returned, Call
<1>2. Len(HeapPop(s).out) <= 1
  <2>1. CASE Len(s) = 0
    BY <2>1 DEF HeapPop, Call
  <2>2. CASE Len(s) = 1
    <3>1. HeapPop(s).out = s
      <4>1. HeapPop(s) = Returned(<<>>, s)
        BY <2>2 DEF HeapPop
      <4> QED BY <4>1 DEF Returned, Call
    <3>2. Len(HeapPop(s).out) = 1
      BY <2>2, <3>1, Zenon
    <3> QED BY <3>2
  <2>3. CASE Len(s) \notin {0, 1}
    <3>1. HeapPop(s).out = <<s[1]>>
      BY <2>3 DEF HeapPop, Call
    <3> QED BY <3>1
  <2> QED BY <2>1, <2>2, <2>3
<1>3. ASSUME NEW v \in Values PROVE OneOut(HeapPush(s, v)) /\ OneOut(PushPop(s, v))
  <2>1. HeapPush(s, v).out = <<>> /\ PushPop(s, v).out \in {<<v>>, <<s[1]>>}
    BY DEF HeapPush, PushPop, Returned, Call
  <2>2. Len(<<v>>) = 1 /\ Len(<<s[1]>>) = 1
    OBVIOUS
  <2>3. Len(HeapPush(s, v).out) = 0 /\ Len(PushPop(s, v).out) = 1
    BY <2>1, <2>2
  <2> QED BY <2>3 DEF OneOut
<1>4. OneOut(Heapify(s)) /\ OneOut(HeapPop(s)) /\ OneOut(Returned(s, <<>>))
  BY <1>1, <1>2 DEF OneOut
<1> QED BY <1>3, <1>4

LEMMA OneOutAlways == Spec => []OneOut(call)
<1>1. Init => OneOut(call)
  BY NoValues, StartsTakeOne DEF Init
<1>2. TypeOK /\ OneOut(call) /\ [Next]_vars => OneOut(call)'
  <2> SUFFICES ASSUME TypeOK, OneOut(call), [Next]_vars PROVE OneOut(call')
    OBVIOUS
  <2>1. call \in Calls /\ call.items \in Seq(Values) /\ (call.at \notin Ends => InTheList(call))
    BY DEF TypeOK, Typed, Calls
  <2>2. CASE Heapifies \/ Pops
    BY <2>1, <2>2, StartsTakeOne DEF Heapifies, Pops, Begins
  <2>3. CASE Turns
    BY <2>1, <2>3, TypedTurn DEF Turns, Follows, OneOut
  <2>4. ASSUME NEW v \in Values, Pushes(v) \/ PushPops(v) PROVE OneOut(call')
    BY <2>1, <2>4, StartsTakeOne DEF Pushes, PushPops, Begins
  <2>5. ASSUME NEW s \in Seq(Values), Changes(s) PROVE OneOut(call')
    BY <2>5, StartsTakeOne DEF Changes, Begins
  <2>6. CASE UNCHANGED vars
    BY <2>6 DEF vars
  <2> QED BY <2>2, <2>3, <2>4, <2>5, <2>6 DEF Next
<1> QED BY <1>1, <1>2, TypeCorrect, PTL DEF Spec

LEMMA JustOne ==
  ASSUME NEW n \in Nat, n <= 1, NEW i \in 1..n
  PROVE  n = 1 /\ i = 1
  OBVIOUS
(* What there was is in the list or has come out, and what came out is not *)
(* above itself.                                                           *)
LEMMA LeastOfAll ==
  ASSUME Ordering, NEW s \in Seq(Values), NEW out \in Seq(Values), Len(out) <= 1, NEW t \in Seq(Values),
         Rearranged(s \o out, t), NEW i \in DOMAIN out, NEW j \in DOMAIN t,
         \A k \in DOMAIN s : AtMost(out[i], s[k])
  PROVE  AtMost(out[i], t[j])
<1> DEFINE all == s \o out
<1>1. /\ all \in Seq(Values) /\ Len(all) = Len(s) + Len(out)
      /\ \A k \in 1..Len(s) + Len(out) : all[k] = IF k <= Len(s) THEN s[k] ELSE out[k - Len(s)]
  BY ConcatProperties
<1>2. Rearranged(all, t)
  OBVIOUS
<1> HIDE DEF all
<1>3. Len(out) = 1 /\ i = 1 /\ out[1] \in Values /\ Len(s) \in Nat
  <2>1. Len(out) \in Nat /\ i \in 1..Len(out) /\ Len(out) <= 1 /\ Len(s) \in Nat
    OBVIOUS
  <2>2. Len(out) = 1 /\ i = 1
    BY <2>1, JustOne
  <2>3. 1 \in 1..Len(out)
    BY <2>2
  <2>4. out[1] \in Values
    BY <2>3
  <2> QED BY <2>1, <2>2, <2>4
<1>4. PICK f \in Bijection(1..Len(all), 1..Len(all)) : \A k \in 1..Len(all) : all[k] = t[f[k]]
  BY <1>2 DEF Rearranged
<1>5. PICK k \in 1..Len(all) : f[k] = j
  <2>1. j \in 1..Len(all)
    BY <1>2 DEF Rearranged
  <2> QED BY <2>1 DEF Bijection, Surjection
<1>6. all[k] = t[j]
  BY <1>4, <1>5
<1>7. CASE k <= Len(s)
  BY <1>1, <1>3, <1>6, <1>7
<1>8. CASE ~(k <= Len(s))
  <2>1. k - Len(s) = 1 /\ all[k] = out[1]
    BY <1>1, <1>3, <1>8
  <2> QED BY <2>1, <1>3, <1>6 DEF Ordering, AtMost
<1> QED BY <1>7, <1>8

(* Of a heap, what heap_pop and push_pop give back is a least element of   *)
(* the list as it was, with what was pushed.                               *)
THEOREM PopsTakeALeast == ASSUME Ordering PROVE Spec => []TakesALeast
<1>1. TypeOK /\ NothingLost /\ PopsTheLeast /\ OneOut(call) => TakesALeast
  <2> SUFFICES ASSUME TypeOK, NothingLost, PopsTheLeast, OneOut(call), heaped, call.at = "returns",
                      NEW i \in DOMAIN call.out, NEW j \in DOMAIN given
               PROVE  AtMost(call.out[i], given[j])
    BY DEF TakesALeast
  <2>1. call.items \in Seq(Values) /\ call.out \in Seq(Values) /\ given \in Seq(Values)
    BY DEF TypeOK, Typed, Calls
  <2>2. \A k \in DOMAIN call.items : AtMost(call.out[i], call.items[k])
    BY DEF PopsTheLeast
  <2> QED BY <2>1, <2>2, LeastOfAll DEF NothingLost, OneOut
<1>2. Spec => []PopsTheLeast
  BY HeapsStayHeaps, PTL
<1> QED BY <1>1, <1>2, TypeCorrect, ListsLoseNothing, OneOutAlways, PTL

-----------------------------------------------------------------------------
(* Every turn is progress.                                                 *)
Forward(c, d) ==
  \/ d.at \in Ends
  \/ d.at = c.at /\ d.left < c.left
  \/ /\ d.at = c.at /\ d.left = c.left
     /\ IF c.at = "up" THEN d.hole < c.hole ELSE d.hole > c.hole
LEMMA TurnMovesOn ==
  ASSUME NEW c \in Calls, c.at \notin Ends, InTheList(c)
  PROVE  Forward(c, Turn(c))
<1>1. c.items \in Seq(Values) /\ c.hole \in Nat /\ c.left \in Nat /\ c.at \in {"up", "down"} /\ c.hole < Len(c.items)
  BY DEF Calls, Ats, Ends, InTheList
<1>2. ASSUME NEW place PROVE /\ MovedTo(c, place).at = c.at /\ MovedTo(c, place).left = c.left
                             /\ MovedTo(c, place).hole = place
  BY DEF MovedTo, Calls
<1>3. ASSUME NEW end \in Ends PROVE Forward(c, Ended(c, end))
  BY <1>3 DEF Ended, Calls, Forward
<1>4. Forward(c, Settled(c))
  <2>1. CASE c.left = 0
    BY <2>1, <1>3 DEF Settled, Ends
  <2>2. CASE c.left # 0
    BY <2>2, <1>1 DEF Settled, Calls, Forward
  <2> QED BY <2>1, <2>2
<1>5. CASE c.at = "up"
  <2>1. CASE c.hole = 0
    BY <1>3, <1>5, <2>1 DEF Turn, SiftUp, Ends
  <2>2. CASE c.hole # 0
    <3>1. Parent(c.hole) < c.hole
      BY <1>1, <2>2, TreePlaces
    <3>2. Turn(c) \in {Ended(c, "raises"), Ended(c, "returns"), MovedTo(c, Parent(c.hole))}
      BY <1>5, <2>2 DEF Turn, SiftUp
    <3> QED BY <1>2, <1>3, <1>5, <3>1, <3>2 DEF Forward, Ends
  <2> QED BY <2>1, <2>2
<1>6. CASE c.at = "down"
  <2> DEFINE child == LesserChild(c.items, c.hole)
  <2>1. child > c.hole
    <3>1. LeftChild(c.hole) \in Nat /\ LeftChild(c.hole) > c.hole
      BY <1>1, ChildAfter
    <3> QED BY <3>1, <1>1 DEF LesserChild
  <2>2. Turn(c) \in {Settled(c), Ended(c, "raises"), MovedTo(c, child)}
    BY <1>6 DEF Turn, SiftDown
  <2> HIDE DEF child
  <2> QED BY <1>2, <1>3, <1>4, <1>6, <2>1, <2>2 DEF Forward, Ends
<1> QED BY <1>1, <1>5, <1>6

(* Each turn of a call of heapq ends it or makes what is left of it less,  *)
(* for any values and any comparison.                                      *)
THEOREM EveryCallMovesOn == Spec => CallsMoveOn
<1>1. TypeOK /\ [Next]_vars => [MovesOn]_vars
  <2> SUFFICES ASSUME TypeOK, Next, call.at \notin Ends
               PROVE  Len(call'.items) = Len(call.items) /\ Forward(call, call')
    BY DEF MovesOn, Forward
  <2>1. call \in Calls /\ InTheList(call)
    BY DEF TypeOK, Typed
  <2>2. Turns
    BY DEF Next, Heapifies, Pops, Pushes, PushPops, Changes, Begins
  <2>3. Forward(call, call')
    BY <2>1, <2>2, TurnMovesOn DEF Turns
  <2>4. Follows(call, call')
    BY <2>1, <2>2, TypedTurn DEF Turns
  <2>5. Len(call'.items) = Len(call.items)
    BY <2>1, <2>4, SwappedItems DEF Follows, Calls
  <2> QED BY <2>3, <2>5
<1> QED BY <1>1, TypeCorrect, PTL DEF Spec, CallsMoveOn
=============================================================================
