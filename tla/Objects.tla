------------------------------ MODULE Objects ------------------------------
(***************************************************************************)
(* Values and the objects they refer to: what operators, indices, slices,  *)
(* iterators and attribute lookups make of them.                           *)
(*                                                                         *)
(* A value is [t, v].  What can change lives in a heap, a sequence of      *)
(* objects, and its value's v is its place there: a list is the sequence   *)
(* of its elements, a set that of its members, a dict that of its pairs in *)
(* the order of insertion.  Strings, tuples, closures and bound methods    *)
(* hold what they are made of.  A string is the sequence of its characters *)
(* (numbers; a name is one character).  Integers have IntBits bits where   *)
(* the code has 64; floats are left out, and with them "/".                *)
(*                                                                         *)
(* What may fail gives [ok, h, v]: the heap after it and the value.        *)
(***************************************************************************)
EXTENDS Integers, Sequences, FiniteSets, SequencesExt, Bitwise, TLC

IntBits == 12

Value(t, v) == [t |-> t, v |-> v]
Number(n) == Value("int", n)
Bool(b) == Value("bool", IF b THEN 1 ELSE 0)
Nil == Value("nil", 0)
Tuple(s) == Value("tuple", s)
Text(s) == Value("str", s)
Exception(class, msg) == Value("exc", [class |-> class, msg |-> msg])

Fine(h, v) == [ok |-> TRUE, h |-> h, v |-> v]
Wrong == [ok |-> FALSE, h |-> <<>>, v |-> Nil]
(* A failure that has changed the heap before.                             *)
WrongAfter(h) == [ok |-> FALSE, h |-> h, v |-> Nil]
(* A new object, and one that is changed.                                  *)
New(h, t, object) == Fine(Append(h, object), Value(t, Len(h) + 1))
NewList(h, s) == New(h, "list", s)
Changed(h, value, object) == [h EXCEPT ![value.v] = object]

Both(a, b, t) == a.t = t /\ b.t = t
Sized == {"str", "tuple", "list", "dict", "set"}
Sequential == {"str", "tuple", "list"}
(* The elements of a value that has a length.                              *)
Elements(h, value) == IF value.t \in {"str", "tuple"} THEN value.v ELSE h[value.v]
Truthy(h, value) ==
  CASE value.t \in {"int", "bool"} -> value.v # 0
    [] value.t \in Sized -> Elements(h, value) # <<>>
    [] OTHER -> value.t # "nil"

TypeName(h, value) ==
  CASE value.t = "str" -> "string"
    [] value.t \in {"fn", "native"} -> "function"
    [] value.t = "exc" -> "Error"
    [] value.t = "excclass" -> "class"
    [] value.t \in {"iter", "gen", "bound"} -> "object"
    [] OTHER -> value.t

-----------------------------------------------------------------------------
(* Equality: by what they hold for strings, tuples and containers; two     *)
(* other references are never equal, not even to themselves.  A key is     *)
(* found where an equal one is; lists, dicts and sets have no hash.        *)
RECURSIVE Same(_, _, _), Hashable(_)
SameAll(h, s, t) == Len(s) = Len(t) /\ \A i \in DOMAIN s : Same(h, s[i], t[i])
AtKey(h, d, key) == {i \in DOMAIN d : Same(h, d[i][1], key)}
Holds(h, s, value) == \E i \in DOMAIN s : Same(h, s[i], value)
Same(h, a, b) ==
  /\ a.t = b.t
  /\ CASE a.t \in {"nil", "bool", "int", "str"} -> a.v = b.v
       [] a.t \in {"tuple", "list"} -> SameAll(h, Elements(h, a), Elements(h, b))
       [] a.t = "dict" ->
            /\ Len(h[a.v]) = Len(h[b.v])
            /\ \A i \in DOMAIN h[a.v] :
                 \E j \in AtKey(h, h[b.v], h[a.v][i][1]) : Same(h, h[a.v][i][2], h[b.v][j][2])
       [] a.t = "set" ->
            Len(h[a.v]) = Len(h[b.v]) /\ \A i \in DOMAIN h[a.v] : Holds(h, h[b.v], h[a.v][i])
       [] OTHER -> FALSE
Hashable(value) ==
  /\ value.t \notin {"list", "dict", "set"}
  /\ value.t = "tuple" => \A i \in DOMAIN value.v : Hashable(value.v[i])

(* The place of the first equal element, 0 if there is none.               *)
PlaceOf(h, s, value) == SelectInSeq(s, LAMBDA x : Same(h, x, value))

(* DictMap: a new key comes last, an old one stays where it is.            *)
Got(h, d, key, default) ==
  LET at == AtKey(h, d, key) IN IF at = {} THEN default ELSE d[Min(at)][2]
Put(h, d, key, value) ==
  LET at == AtKey(h, d, key)
  IN  IF at = {} THEN Append(d, <<key, value>>) ELSE [d EXCEPT ![Min(at)][2] = value]
Keys(d) == [i \in DOMAIN d |-> d[i][1]]
(* The pairs whose keys can be found.                                      *)
Pairs(h, d) == SelectSeq(d, LAMBDA pair : Same(h, pair[1], pair[1]))

Included(h, s, value) == IF Holds(h, s, value) THEN s ELSE Append(s, value)
Union(h, s, t) == FoldLeft(LAMBDA r, x : Included(h, r, x), s, t)
Common(h, s, t) == SelectSeq(s, LAMBDA x : Holds(h, t, x))
Difference(h, s, t) == SelectSeq(s, LAMBDA x : ~Holds(h, t, x))
Symmetric(h, s, t) == Difference(h, s, t) \o Difference(h, t, s)

-----------------------------------------------------------------------------
(* Operators.                                                              *)
MaxInt == 2^(IntBits - 1) - 1
IsInt(n) == n \in -MaxInt - 1..MaxInt
Checked(h, n) == IF IsInt(n) THEN Fine(h, Number(n)) ELSE Wrong
(* Two's complement.                                                       *)
Unsigned(n) == n % 2^IntBits
Signed(n) == IF Unsigned(n) > MaxInt THEN Unsigned(n) - 2^IntBits ELSE Unsigned(n)

Add(h, a, b) ==
  CASE Both(a, b, "int") -> Checked(h, a.v + b.v)
    [] Both(a, b, "str") -> Fine(h, Text(a.v \o b.v))
    [] Both(a, b, "list") -> NewList(h, h[a.v] \o h[b.v])
    [] OTHER -> Wrong
Subtract(h, a, b) ==
  CASE Both(a, b, "int") -> Checked(h, a.v - b.v)
    [] Both(a, b, "set") -> New(h, "set", Difference(h, h[a.v], h[b.v]))
    [] OTHER -> Wrong
Repeated(s, n) == FlattenSeq([i \in 1..n |-> s])
Multiply(h, a, b) ==
  CASE Both(a, b, "int") -> Checked(h, a.v * b.v)
    [] a.t = "str" /\ b.t = "int" -> IF b.v < 0 THEN Wrong ELSE Fine(h, Text(Repeated(a.v, b.v)))
    [] a.t = "int" /\ b.t = "str" -> IF a.v < 0 THEN Wrong ELSE Fine(h, Text(Repeated(b.v, a.v)))
    [] OTHER -> Wrong

(* Rust's quotient and remainder, and the corrections that make them       *)
(* floor.                                                                  *)
Abs(n) == IF n < 0 THEN -n ELSE n
Quotient(a, b) == LET q == Abs(a) \div Abs(b) IN IF (a < 0) = (b < 0) THEN q ELSE -q
Remainder(a, b) == a - b * Quotient(a, b)
Uneven(a, b) == Remainder(a, b) # 0 /\ (Remainder(a, b) < 0) # (b < 0)
FloorDivide(h, a, b) ==
  IF ~Both(a, b, "int") \/ b.v = 0 THEN Wrong
  ELSE Fine(h, Number(IF Uneven(a.v, b.v) THEN Quotient(a.v, b.v) - 1 ELSE Quotient(a.v, b.v)))
Modulo(h, a, b) ==
  IF ~Both(a, b, "int") \/ b.v = 0 THEN Wrong
  ELSE Fine(h, Number(IF Uneven(a.v, b.v) THEN Remainder(a.v, b.v) + b.v ELSE Remainder(a.v, b.v)))

(* checked_pow; a negative exponent makes a float, and is left out.        *)
RECURSIVE CheckedPower(_, _)
CheckedPower(a, n) ==
  IF n = 0 THEN 1 ELSE LET p == CheckedPower(a, n - 1) IN IF IsInt(p) THEN a * p ELSE p
Power(h, a, b) ==
  IF ~Both(a, b, "int") \/ b.v < 0 \/ b.v >= IntBits THEN Wrong ELSE Checked(h, CheckedPower(a.v, b.v))

BitAnd(h, a, b) ==
  CASE Both(a, b, "int") -> Fine(h, Number(Signed(Unsigned(a.v) & Unsigned(b.v))))
    [] Both(a, b, "set") -> New(h, "set", Common(h, h[a.v], h[b.v]))
    [] OTHER -> Wrong
BitOr(h, a, b) ==
  CASE Both(a, b, "int") -> Fine(h, Number(Signed(Unsigned(a.v) | Unsigned(b.v))))
    [] Both(a, b, "set") -> New(h, "set", Union(h, h[a.v], h[b.v]))
    [] OTHER -> Wrong
BitXor(h, a, b) ==
  CASE Both(a, b, "int") -> Fine(h, Number(Signed(Unsigned(a.v) ^^ Unsigned(b.v))))
    [] Both(a, b, "set") -> New(h, "set", Symmetric(h, h[a.v], h[b.v]))
    [] OTHER -> Wrong
(* What a left shift loses is lost.                                        *)
ShiftCount(a, b) == Both(a, b, "int") /\ b.v \in 0..IntBits - 1
LeftShift(h, a, b) ==
  IF ShiftCount(a, b) THEN Fine(h, Number(Signed(Unsigned(a.v) * 2^b.v))) ELSE Wrong
RightShift(h, a, b) == IF ShiftCount(a, b) THEN Fine(h, Number(a.v \div 2^b.v)) ELSE Wrong
Negate(h, a) == IF a.t = "int" THEN Checked(h, -a.v) ELSE Wrong
BitNot(h, a) == IF a.t = "int" THEN Fine(h, Number(-a.v - 1)) ELSE Wrong

(* Numbers with numbers, strings with strings.                             *)
RECURSIVE Before(_, _)
Before(s, t) ==
  /\ t # <<>>
  /\ s = <<>> \/ Head(s) < Head(t) \/ (Head(s) = Head(t) /\ Before(Tail(s), Tail(t)))
Ordered(a, b) == a.t = b.t /\ a.t \in {"int", "str"}
LessThan(a, b) == IF a.t = "int" THEN a.v < b.v ELSE Before(a.v, b.v)
Compare(h, op, a, b) ==
  CASE op = "EQUAL" -> Fine(h, Bool(Same(h, a, b)))
    [] op = "NOT_EQUAL" -> Fine(h, Bool(~Same(h, a, b)))
    [] ~Ordered(a, b) -> Wrong
    [] op = "LESS" -> Fine(h, Bool(LessThan(a, b)))
    [] op = "GREATER" -> Fine(h, Bool(LessThan(b, a)))
    [] op = "LESS_EQUAL" -> Fine(h, Bool(LessThan(a, b) \/ a.v = b.v))
    [] op = "GREATER_EQUAL" -> Fine(h, Bool(LessThan(b, a) \/ a.v = b.v))

Inline == {"nil", "bool", "int"}
Is(h, a, b) == IF a.t \in Inline \/ b.t \in Inline THEN Wrong ELSE Fine(h, Bool(a.t = b.t /\ a.v = b.v))
(* b in a.                                                                 *)
IsSubstring(s, t) == \E i \in 0..Len(t) - Len(s) : SubSeq(t, i + 1, i + Len(s)) = s
In(h, a, b) ==
  CASE a.t = "dict" -> IF Hashable(b) \/ h[a.v] = <<>> THEN Fine(h, Bool(AtKey(h, h[a.v], b) # {})) ELSE Wrong
    [] a.t = "set" -> IF Hashable(b) \/ h[a.v] = <<>> THEN Fine(h, Bool(Holds(h, h[a.v], b))) ELSE Wrong
    [] a.t \in {"list", "tuple"} -> Fine(h, Bool(Holds(h, Elements(h, a), b)))
    [] Both(a, b, "str") -> Fine(h, Bool(IsSubstring(b.v, a.v)))
    [] OTHER -> Wrong

Operation(h, op, a, b) ==
  CASE op = "ADD" -> Add(h, a, b) [] op = "SUBTRACT" -> Subtract(h, a, b)
    [] op = "MULTIPLY" -> Multiply(h, a, b) [] op = "FLOOR_DIVIDE" -> FloorDivide(h, a, b)
    [] op = "MODULO" -> Modulo(h, a, b) [] op = "POWER" -> Power(h, a, b)
    [] op = "BIT_AND" -> BitAnd(h, a, b) [] op = "BIT_OR" -> BitOr(h, a, b) [] op = "BIT_XOR" -> BitXor(h, a, b)
    [] op = "LEFT_SHIFT" -> LeftShift(h, a, b) [] op = "RIGHT_SHIFT" -> RightShift(h, a, b)
    [] op = "IS" -> Is(h, a, b) [] op = "IN" -> In(h, b, a)
    [] OTHER -> Compare(h, op, a, b)

-----------------------------------------------------------------------------
(* Indices and slices.  Places count from 1, indices from 0; an index that *)
(* is out of range has the place 0.                                        *)
Place(i, n) ==
  LET at == IF i < 0 THEN i + n ELSE i IN IF at \in 0..n - 1 THEN at + 1 ELSE 0
OneOf(value, element) == IF value.t = "str" THEN Text(<<element>>) ELSE element
GetItem(h, object, key) ==
  CASE object.t \in Sequential /\ key.t = "int" ->
         LET s == Elements(h, object)
             at == Place(key.v, Len(s))
         IN  IF at = 0 THEN Wrong ELSE Fine(h, OneOf(object, s[at]))
    [] object.t = "dict" ->
         IF Hashable(key) \/ h[object.v] = <<>> THEN Fine(h, Got(h, h[object.v], key, Nil)) ELSE Wrong
    [] OTHER -> Wrong
SetItem(h, object, key, value) ==
  CASE object.t = "list" /\ key.t = "int" ->
         LET at == Place(key.v, Len(h[object.v]))
         IN  IF at = 0 THEN Wrong ELSE Fine(Changed(h, object, [h[object.v] EXCEPT ![at] = value]), Nil)
    [] object.t = "dict" /\ Hashable(key) ->
         Fine(Changed(h, object, Put(h, h[object.v], key, value)), Nil)
    [] OTHER -> Wrong

(* start and stop are <<>> or hold an index.  A negative index counts from *)
(* the end, then both are clamped.                                         *)
Clamp(i, low, high) == IF i < low THEN low ELSE IF i > high THEN high ELSE i
SliceBounds(n, start, stop, step) ==
  LET low == IF step > 0 THEN 0 ELSE -1
      high == IF step > 0 THEN n ELSE n - 1
      bound(index, default) ==
        IF index = <<>> THEN default ELSE Clamp(IF index[1] < 0 THEN index[1] + n ELSE index[1], low, high)
  IN  IF step > 0 THEN <<bound(start, low), bound(stop, high)>>
      ELSE <<bound(start, high), bound(stop, low)>>
RECURSIVE Steps(_, _, _)
Steps(i, end, step) ==
  IF (step > 0 /\ i < end) \/ (step < 0 /\ i > end) THEN <<i>> \o Steps(i + step, end, step) ELSE <<>>
SliceObject(h, object, start, stop, step) ==
  IF object.t \notin Sequential \/ step = 0 THEN Wrong
  ELSE LET s == Elements(h, object)
           bounds == SliceBounds(Len(s), start, stop, step)
           at == Steps(bounds[1], bounds[2], step)
           taken == [i \in DOMAIN at |-> s[at[i] + 1]]
       IN  IF object.t = "list" THEN NewList(h, taken) ELSE Fine(h, Value(object.t, taken))

-----------------------------------------------------------------------------
(* Iterators.  What is iterated is copied when the iterator is made; the   *)
(* order of a set, which is any in the code, is that of insertion here.    *)
Items(h, value) ==
  CASE value.t = "dict" -> Keys(h[value.v])
    [] value.t = "str" -> [i \in DOMAIN value.v |-> Text(<<value.v[i]>>)]
    [] OTHER -> Elements(h, value)
ListIter(s) == [k |-> "items", left |-> s]
Iterates(value) == value.t \in Sized \cup {"iter"}
ToIterator(h, value) == IF value.t = "iter" THEN h[value.v] ELSE ListIter(Items(h, value))

(* The next element: [it, v], v empty when there is none.  A zip that ends *)
(* has advanced the iterators before the one that ended.                   *)
Stepped(it, v) == [it |-> it, v |-> v]
RECURSIVE NextOf(_)
NextOf(it) ==
  CASE it.k = "items" ->
         IF it.left = <<>> THEN Stepped(it, <<>>)
         ELSE Stepped([it EXCEPT !.left = Tail(it.left)], <<Head(it.left)>>)
    [] it.k = "range" ->
         IF (it.step > 0 /\ it.at < it.end) \/ (it.step < 0 /\ it.at > it.end)
           THEN Stepped([it EXCEPT !.at = it.at + it.step], <<Number(it.at)>>)
         ELSE Stepped(it, <<>>)
    [] it.k = "enumerate" ->
         LET inner == NextOf(it.inner)
         IN  IF inner.v = <<>> THEN Stepped([it EXCEPT !.inner = inner.it], <<>>)
             ELSE Stepped([it EXCEPT !.inner = inner.it, !.at = it.at + 1], <<Tuple(<<Number(it.at), inner.v[1]>>)>>)
    [] it.k = "zip" ->
         LET nexts == [i \in DOMAIN it.inners |-> NextOf(it.inners[i])]
             ended == {i \in DOMAIN nexts : nexts[i].v = <<>>}
             asked == IF ended = {} THEN Len(nexts) ELSE Min(ended)
             moved == [it EXCEPT !.inners = [i \in DOMAIN nexts |-> IF i <= asked THEN nexts[i].it ELSE it.inners[i]]]
         IN  IF ended # {} THEN Stepped(moved, <<>>)
             ELSE Stepped(moved, <<Tuple([i \in DOMAIN nexts |-> nexts[i].v[1]])>>)
RECURSIVE Drain(_)
Drain(it) == LET next == NextOf(it) IN IF next.v = <<>> THEN <<>> ELSE next.v \o Drain(next.it)
CollectIter(h, value) == Drain(ToIterator(h, value))

-----------------------------------------------------------------------------
(* Classes and instances.  Object, the class that others descend from, is  *)
(* the first object of every heap.                                         *)
ObjectClass == 1
NewClass(name, parent) == [name |-> name, parent |-> parent, methods |-> << >>, attrs |-> << >>]
FirstHeap ==
  <<[NewClass("Object", 0) EXCEPT !.methods =
       ("__repr__" :> Value("native", "Object.__repr__")) @@ ("__eq__" :> Value("native", "Object.__eq__"))
       @@ ("__ne__" :> Value("native", "Object.__ne__"))]>>
With(f, name, value) == (name :> value) @@ f

(* Along the parents: <<>> or the method, the attribute.                   *)
RECURSIVE FindMethod(_, _, _), FindClassAttr(_, _, _), Descends(_, _, _)
FindMethod(h, class, name) ==
  IF class = 0 THEN <<>>
  ELSE IF name \in DOMAIN h[class].methods THEN <<h[class].methods[name]>>
  ELSE FindMethod(h, h[class].parent, name)
FindClassAttr(h, class, name) ==
  IF class = 0 THEN <<>>
  ELSE IF name \in DOMAIN h[class].attrs THEN <<h[class].attrs[name]>>
  ELSE FindClassAttr(h, h[class].parent, name)
Descends(h, class, name) ==
  class # 0 /\ (h[class].name = name \/ Descends(h, h[class].parent, name))
ClassOf(h, value) == h[value.v].class
MethodOf(h, value, name) == IF value.t = "instance" THEN FindMethod(h, ClassOf(h, value), name) ELSE <<>>
Bound(receiver, method) == Value("bound", [self |-> receiver, method |-> method])
=============================================================================
