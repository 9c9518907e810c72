------------------------------ MODULE Natives ------------------------------
(***************************************************************************)
(* The built-in functions, the methods of strings, lists, dicts and sets,  *)
(* and the modules heapq, string and math.                                 *)
(*                                                                         *)
(* A native function is its name, with its type or its module before it;   *)
(* the first argument of a method is its receiver.  One that calls back    *)
(* (map, filter, reduce, the sorts with a key) is a job, which the         *)
(* interpreter takes up again after each call.  A program that names a     *)
(* native module has imported it.  Left out: what prints, reads or hashes, *)
(* what needs floats, the other modules.                                   *)
(***************************************************************************)
EXTENDS Objects

Strs == INSTANCE Strings
Maths == INSTANCE Maths
Heap == INSTANCE Sifting WITH Orders <- Ordered, Less <- LessThan

Variable == -1
BuiltinArity ==
  [type |-> 1, len |-> 1, int |-> 1, str |-> 1, bool |-> 1, round |-> Variable, list |-> Variable, tuple |-> Variable, set |-> Variable, dict |-> Variable, abs |-> 1, max |-> Variable,
   min |-> Variable, sum |-> 1, isinstance |-> 2, assert |-> Variable, copy |-> Variable, range |-> Variable, sorted |-> Variable,
   sorted_by |-> Variable, reversed |-> 1, enumerate |-> 1, zip |-> Variable, map |-> 2, filter |-> 2, any |-> 1, all |-> 1]
ExceptionParent ==
  [name \in {"ValueError", "TypeError", "IndexError", "KeyError", "AttributeError", "NameError", "RuntimeError",
             "IOError", "ZeroDivisionError", "OverflowError", "StopIteration", "GeneratorExit",
             "AssertionError", "ImportError", "TimeoutError"} |-> "Error"]
ExceptionNames == {"Error"} \cup DOMAIN ExceptionParent

(* The functions of the native modules.                                    *)
HeapArity == [heapify |-> 1, heap_push |-> 2, heap_pop |-> 1, push_pop |-> 2, n_largest |-> 2, n_smallest |-> 2]
NativeModules == [heapq |-> HeapArity, string |-> Strs!StringArity, math |-> Maths!MathArity]
InModule(module, name) == module \o "." \o name
ArityIn(module, arity) ==
  [full \in {InModule(module, name) : name \in DOMAIN arity} |->
     arity[CHOOSE name \in DOMAIN arity : InModule(module, name) = full]]
HeapNatives == ArityIn("heapq", HeapArity)
StringNatives == ArityIn("string", Strs!StringArity)
MathNatives == ArityIn("math", Maths!MathArity)
Arity == BuiltinArity @@ HeapNatives @@ StringNatives @@ MathNatives
BareName(module, full) == CHOOSE name \in DOMAIN NativeModules[module] : InModule(module, name) = full

(* What a program finds in its globals before it starts.                   *)
Builtins == DOMAIN BuiltinArity \cup ExceptionNames \cup DOMAIN NativeModules
Builtin(name) ==
  Value(IF name \in ExceptionNames THEN "excclass" ELSE IF name \in DOMAIN NativeModules THEN "module" ELSE "native", name)

ListMethods == {"length", "push", "pop", "insert", "remove", "index", "contains", "sort", "sort_by", "reverse",
                "slice", "map", "filter", "reduce"}
DictMethods == {"length", "keys", "values", "items", "get", "set", "remove", "contains", "merge"}
SetMethods == {"length", "add", "remove", "contains", "union", "intersection", "difference"}

WrongArity(name, n) == name \in DOMAIN Arity /\ Arity[name] \notin {Variable, n}
Comparable(s) == Len(s) > 1 => \A i, j \in DOMAIN s : Ordered(s[i], s[j])
CallableTypes == {"native", "fn", "bound"}

-----------------------------------------------------------------------------
(* Sorting is stable, in either direction; what cannot be compared is an   *)
(* error.                                                                  *)
Sorted(s, keys, reverse) ==
  LET before(i, j) == IF reverse THEN LessThan(keys[j], keys[i]) ELSE LessThan(keys[i], keys[j])
      place(i) == 1 + Cardinality({j \in DOMAIN s : before(j, i) \/ (j < i /\ ~before(i, j))})
  IN  [n \in DOMAIN s |-> s[CHOOSE i \in DOMAIN s : place(i) = n]]

(* The result of a sort: a new list, or the receiver with the elements.    *)
SortInto(h, receiver, s, keys, reverse) ==
  IF ~Comparable(keys) THEN Wrong
  ELSE IF receiver = <<>> THEN NewList(h, Sorted(s, keys, reverse))
  ELSE Fine(Changed(h, receiver[1], Sorted(s, keys, reverse)), Nil)

(* The arguments of the sorts: what is sorted, key and reverse.            *)
NoKey(args) == Len(args) < 2 \/ args[2].t = "nil"
Reverses(args) == Len(args) > 2 /\ args[3].v = 1
SortArgs(name, args) ==
  /\ CASE name = "sorted_by" -> Len(args) \in 2..3
       [] name = "list.sort_by" -> Len(args) = 2
       [] OTHER -> Len(args) \in 1..3
  /\ (NoKey(args) /\ name \in {"sorted", "list.sort"}) \/ (Len(args) > 1 /\ args[2].t \in CallableTypes)
  /\ Len(args) = 3 => args[3].t = "bool"
  /\ Iterates(args[1])
Sorts == {"sorted", "sorted_by", "list.sort", "list.sort_by"}
Receiver(name, args) == IF name \in {"list.sort", "list.sort_by"} THEN <<args[1]>> ELSE <<>>

-----------------------------------------------------------------------------
(* What calls back: [k, fn, left, done, ...], with what is left to call    *)
(* for and what came of the calls so far.                                  *)
NewJob(k, f, left, done) ==
  [k |-> k, fn |-> f, left |-> left, done |-> done, items |-> left, receiver |-> <<>>, reverse |-> FALSE]
Mapped(name) == IF name \in {"map", "list.map"} THEN "map" ELSE "filter"
StartJob(h, name, args) ==
  LET n == Len(args)
  IN  CASE name \in {"map", "filter"} -> <<NewJob(name, args[1], CollectIter(h, args[2]), <<>>)>>
        [] name \in {"list.map", "list.filter"} -> <<NewJob(Mapped(name), args[2], h[args[1].v], <<>>)>>
        [] name = "list.reduce" /\ n > 2 -> <<NewJob("reduce", args[2], h[args[1].v], args[3])>>
        [] name = "list.reduce" -> <<NewJob("reduce", args[2], Tail(h[args[1].v]), Head(h[args[1].v]))>>
        [] name \in Sorts /\ ~NoKey(args) ->
             <<[NewJob("sort", args[2], CollectIter(h, args[1]), <<>>) EXCEPT
                  !.receiver = Receiver(name, args), !.reverse = Reverses(args)]>>
        [] OTHER -> <<>>
(* Whether the arguments of what may call back are right.                  *)
CallsBack(h, name, args) ==
  CASE name \in {"map", "filter"} -> Iterates(args[2])
    [] name \in {"list.map", "list.filter"} -> Len(args) > 1 /\ args[2].t \in CallableTypes
    [] name = "list.reduce" ->
         Len(args) > 1 /\ args[2].t \in CallableTypes /\ (Len(args) = 2 => h[args[1].v] # <<>>)
    [] name \in Sorts -> SortArgs(name, args)
Jobs == {"map", "filter", "list.map", "list.filter", "list.reduce"} \cup Sorts

CallbackArgs(job) == IF job.k = "reduce" THEN <<job.done, Head(job.left)>> ELSE <<Head(job.left)>>
(* After a callback that returned r.                                       *)
Advance(h, job, r) ==
  [job EXCEPT !.left = Tail(@),
     !.done = CASE job.k = "reduce" -> r
                [] job.k = "filter" -> IF Truthy(h, r) THEN Append(@, Head(job.left)) ELSE @
                [] OTHER -> Append(@, r)]
FinishJob(h, job) ==
  CASE job.k = "reduce" -> Fine(h, job.done)
    [] job.k = "sort" -> SortInto(h, job.receiver, job.items, job.done, job.reverse)
    [] OTHER -> NewList(h, job.done)

-----------------------------------------------------------------------------
(* Functions.                                                              *)
RECURSIVE Sum(_, _, _), Extreme(_, _, _)
Sum(h, total, s) ==
  IF s = <<>> THEN Fine(h, total)
  ELSE LET r == Add(h, total, Head(s)) IN IF r.ok THEN Sum(r.h, r.v, Tail(s)) ELSE Wrong
(* max and min keep the first of equal ones.                               *)
Extreme(h, op, s) ==
  IF Len(s) = 1 THEN Fine(h, s[1])
  ELSE LET r == Compare(h, op, s[1], s[2])
       IN  IF r.ok THEN Extreme(h, op, <<IF r.v.v = 1 THEN s[2] ELSE s[1]>> \o SubSeq(s, 3, Len(s))) ELSE Wrong

(* The type's name that isinstance looks for, <<>> if it is no type.       *)
NameOfType(h, type) ==
  CASE type.t = "native" -> <<IF type.v = "str" THEN "string" ELSE type.v>>
    [] type.t = "class" -> <<h[type.v].name>>
    [] OTHER -> <<>>
IsInstance(h, value, type) ==
  LET name == NameOfType(h, type)
  IN  IF name = <<>> THEN Wrong
      ELSE Fine(h, Bool(IF value.t = "instance" THEN Descends(h, ClassOf(h, value), name[1])
                        ELSE TypeName(h, value) = name[1]))

Range3(start, end, step) == [k |-> "range", at |-> start, end |-> end, step |-> step]
RangeOf(h, args) ==
  IF Len(args) \notin 1..3 \/ (\E i \in DOMAIN args : args[i].t # "int") \/ (Len(args) = 3 /\ args[3].v = 0) THEN Wrong
  ELSE New(h, "iter", CASE Len(args) = 1 -> Range3(0, args[1].v, 1)
                        [] Len(args) = 2 -> Range3(args[1].v, args[2].v, 1)
                        [] OTHER -> Range3(args[1].v, args[2].v, args[3].v))

(* list, tuple and set of nothing or of what is iterated; dict of a dict.  *)
MembersOf(h, s) == Union(h, <<>>, s)
Collected(h, name, args) ==
  LET s == IF args = <<>> THEN <<>> ELSE CollectIter(h, args[1])
  IN  IF Len(args) > 1 \/ (Len(args) = 1 /\ ~Iterates(args[1])) THEN Wrong
      ELSE CASE name = "list" -> NewList(h, s)
             [] name = "tuple" -> Fine(h, Tuple(s))
             [] name = "set" -> New(h, "set", MembersOf(h, s))
DictOf(h, args) ==
  CASE args = <<>> -> New(h, "dict", <<>>)
    [] Len(args) = 1 /\ args[1].t = "dict" -> New(h, "dict", h[args[1].v])
    [] OTHER -> Wrong
Copy(h, args) ==
  IF Len(args) # 1 THEN Wrong
  ELSE IF args[1].t \in {"list", "dict"} THEN New(h, args[1].t, h[args[1].v]) ELSE Fine(h, args[1])

(* Of an integer itself, whatever the digits are if they are allowed.      *)
MaxDigits == 15
Rounded(h, args) ==
  LET digits == IF Len(args) > 1 THEN args[2] ELSE Number(0)
  IN  IF args = <<>> \/ digits.t # "int" THEN Wrong
      ELSE IF digits.v \notin 0..MaxDigits \/ args[1].t # "int" THEN Wrong ELSE Fine(h, args[1])

Identical(h, args, holds) ==
  LET r == IF Len(args) < 2 THEN Wrong ELSE Is(h, args[1], args[2])
  IN  IF r.ok THEN Fine(h, Bool((r.v.v = 1) = holds)) ELSE Wrong
FunctionResult(h, name, args) ==
  CASE name = "type" ->
         Fine(h, Text(<<IF args[1].t = "instance" THEN h[ClassOf(h, args[1])].name ELSE TypeName(h, args[1])>>))
    [] name = "len" -> IF args[1].t \in Sized THEN Fine(h, Number(Len(Elements(h, args[1])))) ELSE Wrong
    [] name \in {"list", "tuple", "set"} -> Collected(h, name, args)
    [] name = "dict" -> DictOf(h, args)
    [] name = "int" -> Strs!ToInt(h, args[1])
    [] name = "str" -> Fine(h, Text(Strs!Shown(h, args[1])))
    [] name = "bool" -> Fine(h, Bool(Truthy(h, args[1])))
    [] name = "abs" -> IF args[1].t = "int" THEN Checked(h, Abs(args[1].v)) ELSE Wrong
    [] name = "round" -> Rounded(h, args)
    [] name = "max" -> IF args = <<>> THEN Wrong ELSE Extreme(h, "LESS", args)
    [] name = "min" -> IF args = <<>> THEN Wrong ELSE Extreme(h, "GREATER", args)
    [] name = "sum" ->
         IF args[1].t \in {"list", "tuple", "set"} THEN Sum(h, Number(0), Elements(h, args[1])) ELSE Wrong
    [] name = "isinstance" -> IsInstance(h, args[1], args[2])
    [] name = "assert" -> IF args # <<>> /\ Truthy(h, args[1]) THEN Fine(h, Nil) ELSE Wrong
    [] name = "copy" -> Copy(h, args)
    [] name = "range" -> RangeOf(h, args)
    [] name = "reversed" ->
         IF args[1].t \in Sequential THEN New(h, "iter", ListIter(Reverse(Items(h, args[1])))) ELSE Wrong
    [] name = "enumerate" ->
         IF Iterates(args[1]) THEN New(h, "iter", [k |-> "enumerate", inner |-> ToIterator(h, args[1]), at |-> 0])
         ELSE Wrong
    [] name = "zip" ->
         IF args = <<>> \/ \E i \in DOMAIN args : ~Iterates(args[i]) THEN Wrong
         ELSE New(h, "iter", [k |-> "zip", inners |-> [i \in DOMAIN args |-> ToIterator(h, args[i])]])
    [] name \in {"any", "all"} ->
         IF ~Iterates(args[1]) THEN Wrong
         ELSE LET s == CollectIter(h, args[1])
              IN  Fine(h, Bool(IF name = "any" THEN \E i \in DOMAIN s : Truthy(h, s[i])
                               ELSE \A i \in DOMAIN s : Truthy(h, s[i])))
    [] name = "Object.__repr__" ->
         Fine(h, Text(<<IF args[1].t = "instance" THEN h[ClassOf(h, args[1])].name ELSE "Object">>))
    [] name = "Object.__eq__" -> Identical(h, args, TRUE)
    [] name = "Object.__ne__" -> Identical(h, args, FALSE)

-----------------------------------------------------------------------------
(* Methods of containers: the receiver is args[1].                         *)
Without(s, at) == RemoveAt(s, at)
GivesPlace(h, at) == IF at = 0 THEN Wrong ELSE Fine(h, Number(at - 1))

ListSlice(h, s, start, end) ==
  LET part == Strs!Between(s, start, end) IN IF part = <<>> THEN Wrong ELSE NewList(h, part[1])
ListResult(h, name, args) ==
  LET list == args[1]
      s == h[list.v]
      n == Len(args) - 1
      int(i) == n >= i /\ args[i + 1].t = "int"
      becomes(t, v) == Fine(Changed(h, list, t), v)
  IN  CASE name = "list.length" -> Fine(h, Number(Len(s)))
        [] name = "list.push" -> IF n = 0 THEN Wrong ELSE becomes(Append(s, args[2]), Nil)
        [] name = "list.pop" ->
             LET at == IF n = 0 THEN Len(s) ELSE IF int(1) THEN Place(args[2].v, Len(s)) ELSE 0
             IN  IF at = 0 THEN Wrong ELSE becomes(Without(s, at), s[at])
        [] name = "list.insert" ->
             LET at == IF args[2].v < 0 THEN args[2].v + Len(s) ELSE args[2].v
             IN  IF n < 2 \/ ~int(1) THEN Wrong
                 ELSE IF at \notin 0..Len(s) THEN Wrong ELSE becomes(InsertAt(s, at + 1, args[3]), Nil)
        [] name = "list.remove" ->
             IF n = 0 THEN Wrong
             ELSE LET at == PlaceOf(h, s, args[2]) IN IF at = 0 THEN Wrong ELSE becomes(Without(s, at), Nil)
        [] name = "list.index" -> IF n = 0 THEN Wrong ELSE GivesPlace(h, PlaceOf(h, s, args[2]))
        [] name = "list.contains" -> IF n = 0 THEN Wrong ELSE Fine(h, Bool(Holds(h, s, args[2])))
        [] name = "list.reverse" -> becomes(Reverse(s), Nil)
        [] name = "list.slice" ->
             IF ~int(1) \/ (n > 1 /\ ~int(2)) THEN Wrong
             ELSE ListSlice(h, s, args[2].v, IF n > 1 THEN args[3].v ELSE Len(s))

DictResult(h, name, args) ==
  LET d == h[args[1].v]
      n == Len(args) - 1
      key == args[2]
      becomes(e) == Fine(Changed(h, args[1], e), Nil)
  IN  CASE name = "dict.length" -> Fine(h, Number(Len(d)))
        [] name = "dict.keys" -> NewList(h, Keys(d))
        [] name = "dict.values" -> NewList(h, [i \in DOMAIN Pairs(h, d) |-> Pairs(h, d)[i][2]])
        [] name = "dict.items" -> NewList(h, [i \in DOMAIN Pairs(h, d) |-> Tuple(Pairs(h, d)[i])])
        [] name = "dict.merge" ->
             IF n = 0 \/ args[2].t # "dict" THEN Wrong
             ELSE becomes(FoldLeft(LAMBDA e, pair : Put(h, e, pair[1], pair[2]), d, Pairs(h, h[args[2].v])))
        [] n = 0 \/ ~Hashable(key) -> Wrong
        [] name = "dict.get" -> Fine(h, Got(h, d, key, IF n > 1 THEN args[3] ELSE Nil))
        [] name = "dict.set" -> IF n < 2 THEN Wrong ELSE becomes(Put(h, d, key, args[3]))
        [] name = "dict.remove" ->
             IF AtKey(h, d, key) = {} THEN Wrong ELSE becomes(Without(d, Min(AtKey(h, d, key))))
        [] name = "dict.contains" -> Fine(h, Bool(AtKey(h, d, key) # {}))

SetResult(h, name, args) ==
  LET s == h[args[1].v]
      n == Len(args) - 1
      other == h[args[2].v]
      becomes(t) == Fine(Changed(h, args[1], t), Nil)
  IN  CASE name = "set.length" -> Fine(h, Number(Len(s)))
        [] n = 0 -> Wrong
        [] name = "set.contains" -> Fine(h, Bool(Hashable(args[2]) /\ Holds(h, s, args[2])))
        [] name = "set.add" -> IF Hashable(args[2]) THEN becomes(Included(h, s, args[2])) ELSE Wrong
        [] name = "set.remove" ->
             IF ~Hashable(args[2]) \/ ~Holds(h, s, args[2]) THEN Wrong ELSE becomes(Without(s, PlaceOf(h, s, args[2])))
        [] args[2].t # "set" -> Wrong
        [] name = "set.union" -> New(h, "set", Union(h, s, other))
        [] name = "set.intersection" -> New(h, "set", Common(h, s, other))
        [] name = "set.difference" -> New(h, "set", Difference(h, s, other))

-----------------------------------------------------------------------------
(* The module heapq.  A call is run to its end; one that raises leaves the *)
(* list as far as it was sifted.  (TLC loses what EXCEPT changes in a      *)
(* sequence that it has not evaluated yet, as a reversed one: \o makes it   *)
(* do so.)                                                                 *)
RECURSIVE Ran(_)
Ran(call) == IF call.at \in Heap!Ends THEN call ELSE Ran(Heap!Turn(call))
HeapCall(name, s, args) ==
  CASE name = "heapify" -> Heap!Heapify(s)
    [] name = "heap_push" -> Heap!HeapPush(s, args[2])
    [] name = "heap_pop" -> Heap!HeapPop(s)
    [] name = "push_pop" -> Heap!PushPop(s, args[2])
(* n_largest and n_smallest sort a copy.                                   *)
Extremes(h, s, n, largest) ==
  IF n <= 0 THEN NewList(h, <<>>)
  ELSE IF ~Comparable(s) THEN Wrong
  ELSE NewList(h, SubSeq(Sorted(s, s, largest), 1, Min({n, Len(s)})))
HeapFunction(h, name, args) ==
  IF args[1].t # "list" THEN Wrong
  ELSE IF name \in {"n_largest", "n_smallest"}
    THEN IF args[2].t = "int" THEN Extremes(h, h[args[1].v], args[2].v, name = "n_largest") ELSE Wrong
  ELSE LET call == Ran(HeapCall(name, h[args[1].v] \o <<>>, args))
           after == Changed(h, args[1], call.items)
       IN  IF call.at = "raises" THEN WrongAfter(after)
           ELSE Fine(after, IF name \in {"heapify", "heap_push"} THEN Nil ELSE call.out[1])

-----------------------------------------------------------------------------
MethodNames(type, names) == {type \o "." \o name : name \in names}
ListNatives == MethodNames("list", ListMethods)
DictNatives == MethodNames("dict", DictMethods)
SetNatives == MethodNames("set", SetMethods)
TextNatives == MethodNames("str", Strs!StringMethods)
NativeResult(h, name, args) ==
  CASE name \in Sorts -> SortInto(h, Receiver(name, args), CollectIter(h, args[1]), CollectIter(h, args[1]), Reverses(args))
    [] name \in ListNatives -> ListResult(h, name, args)
    [] name \in DictNatives -> DictResult(h, name, args)
    [] name \in SetNatives -> SetResult(h, name, args)
    [] name \in TextNatives -> Strs!StringResult(h, name, args)
    [] name \in DOMAIN HeapNatives -> HeapFunction(h, BareName("heapq", name), args)
    [] name \in DOMAIN StringNatives -> Strs!StringFunction(h, BareName("string", name), args)
    [] name \in DOMAIN MathNatives -> Maths!MathFunction(h, BareName("math", name), args)
    [] OTHER -> FunctionResult(h, name, args)

-----------------------------------------------------------------------------
(* Attributes: <<>> or the value.  Of an instance: a field, a method bound *)
(* to it, an attribute of its class; of a class only its own.              *)
EntryOf(f, name) == IF name \in DOMAIN f THEN <<f[name]>> ELSE <<>>
FirstOf(options) ==
  LET found == SelectSeq(options, LAMBDA x : x # <<>>) IN IF found = <<>> THEN <<>> ELSE Head(found)
NameIn(h, class, name) == IF name = "__name__" THEN <<Text(<<h[class].name>>)>> ELSE <<>>
BoundTo(receiver, method) == IF method = <<>> THEN <<>> ELSE <<Bound(receiver, method[1])>>
NativeMethod(receiver, names, name) ==
  IF name \in names THEN <<Bound(receiver, Value("native", receiver.t \o "." \o name))>> ELSE <<>>
Attribute(h, object, name) ==
  LET class == ClassOf(h, object)
  IN  CASE object.t = "instance" ->
             FirstOf(<<EntryOf(h[object.v].fields, name), BoundTo(object, FindMethod(h, class, name)),
                       FindClassAttr(h, class, name), NameIn(h, class, name)>>)
        [] object.t = "class" ->
             FirstOf(<<EntryOf(h[object.v].methods, name), EntryOf(h[object.v].attrs, name),
                       NameIn(h, object.v, name)>>)
        [] object.t = "dict" ->
             IF name \in DictMethods THEN NativeMethod(object, DictMethods, name)
             ELSE <<Got(h, h[object.v], Text(<<name>>), Nil)>>
        [] object.t = "list" -> NativeMethod(object, ListMethods, name)
        [] object.t = "set" -> NativeMethod(object, SetMethods, name)
        [] object.t = "str" -> NativeMethod(object, Strs!StringMethods, name)
        [] object.t = "module" ->
             IF name \in DOMAIN NativeModules[object.v] THEN <<Value("native", InModule(object.v, name))>> ELSE <<>>
        [] object.t = "exc" ->
             EntryOf([message |-> object.v.msg, type |-> Text(<<object.v.class>>), traceback |-> Text(<<>>)], name)
        [] OTHER -> <<>>
SetAttribute(h, object, name, value) ==
  CASE object.t = "instance" -> Fine([h EXCEPT ![object.v].fields = With(@, name, value)], Nil)
    [] object.t = "class" -> Fine([h EXCEPT ![object.v].attrs = With(@, name, value)], Nil)
    [] OTHER -> Wrong
(* The method of super.name() in a method of the class that is called so.  *)
SuperMethod(h, gs, class, name) ==
  IF class \notin DOMAIN gs THEN <<>>
  ELSE IF gs[class].t # "class" \/ h[gs[class].v].parent = 0 THEN <<>>
  ELSE FindMethod(h, h[gs[class].v].parent, name)

(* What the interpreter throws by itself.                                  *)
GeneratorClosed == Exception("GeneratorExit", Text(<<"generator closed">>))
Exhausted == Exception("StopIteration", Text(<<"generator exhausted">>))
NoSuchName(name) == Exception("NameError", Text(<<name>>))
NothingToRethrow == Exception("RuntimeError", Text(<<"nothing to rethrow">>))
(* What an except clause of that name catches.                             *)
Catches(e, name) ==
  /\ e.t = "exc" /\ e.v.class # "GeneratorExit"
  /\ e.v.class = name \/ (e.v.class \in DOMAIN ExceptionParent /\ ExceptionParent[e.v.class] = name)

-----------------------------------------------------------------------------
(* What can be seen of a program: how it ends and its global `result`.     *)
RECURSIVE Show(_, _)
ShowAll(h, s) == FlattenSeq([i \in DOMAIN s |-> Show(h, s[i])])
Show(h, value) ==
  CASE value.t \in {"int", "bool"} -> <<value.t, ToString(value.v)>>
    [] value.t = "str" -> <<"str", ToString(value.v)>>
    [] value.t \in {"list", "tuple", "set"} -> <<value.t, "(">> \o ShowAll(h, Elements(h, value)) \o <<")">>
    [] value.t = "dict" -> <<"dict", "(">> \o FlattenSeq([i \in DOMAIN h[value.v] |-> ShowAll(h, h[value.v][i])]) \o <<")">>
    [] value.t = "exc" -> <<"exc", value.v.class>> \o Show(h, value.v.msg)
    [] value.t = "class" -> <<"class", h[value.v].name>>
    [] value.t = "instance" -> <<"instance", h[ClassOf(h, value)].name>>
    [] OTHER -> <<value.t>>
Seen(how, h, gs) ==
  [how |-> how, result |-> IF "result" \in DOMAIN gs THEN Show(h, gs["result"]) ELSE <<>>]
=============================================================================
