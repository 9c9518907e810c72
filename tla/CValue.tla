------------------------------- MODULE CValue -------------------------------
(***************************************************************************)
(* The C API's functions on values: what an embedding program does to the  *)
(* objects that a script leaves behind.  They do not call the operators and*)
(* methods of the language but have copies of them, with C integers for    *)
(* indices, statuses for exceptions and NULL for what is not there.        *)
(*                                                                         *)
(* A handle is the value that it holds; a call gives [h, v, error]: the    *)
(* objects after it, what it returns, and whether it set the VM's error.   *)
(* Left out: strings from and to C, what parses and formats, floats.       *)
(***************************************************************************)
EXTENDS Machine

Null == Value("NULL", 0)
Status(ok) == Value("status", IF ok THEN 0 ELSE -1)
IsNull(value) == value.t = "NULL"
Abort == Value("abort", 0)  \* a panic: it must not leave an extern "C" function

Answers(h, v) == [h |-> h, v |-> v, error |-> FALSE]
Errs(h, v) == [h |-> h, v |-> v, error |-> TRUE]
Becomes1(h, value, object) == Answers(Changed(h, value, object), Status(TRUE))
Makes(h, t, object) == LET r == New(h, t, object) IN Answers(r.h, r.v)

(* What a function returns for NULL, and for what it is no function of.    *)
Statuses == {"msListSet", "msListPush", "msListInsert", "msDictSet", "msDictRemove", "msSetAdd", "msSetRemove",
             "msTupleUnpack", "msSetAttr", "msSetItem", "msNext"}
Counts == {"msLen", "msListLen", "msDictLen", "msTupleLen", "msSetLen"}
Tests == {"msToBool", "msConvertBool", "msEq", "msLt", "msLe", "msGt", "msGe", "msIs",
          "msListContains", "msDictContains", "msSetContains"}
Default(name) ==
  CASE name \in Statuses -> Status(FALSE)
    [] name \in Counts -> Number(-1)
    [] name \in Tests -> Bool(FALSE)
    [] name \in {"msToInt", "msHash", "msStringLen"} -> Number(0)
    [] OTHER -> Null
Refuses(h, name) == Answers(h, Default(name))
TypeError(h, name) == Errs(h, Default(name))

-----------------------------------------------------------------------------
(* Types.                                                                  *)

(* obj_to_ms_type: what has no MsType is said to be nil.                   *)
TypeOf(value) ==
  CASE value.t = "native" -> "fn"
    [] value.t \in {"exc", "excclass"} -> "nil"
    [] OTHER -> value.t

(* The msIs functions, by the type they ask for.                           *)
IsInlineOf(t, value) == t \in Inline /\ value.t = t
IsRefOf(t, value) ==
  CASE t = "fn" -> value.t \in {"fn", "native"}
    [] t \in {"str", "list", "dict", "tuple", "set", "class", "gen"} -> value.t = t
    [] OTHER -> FALSE

-----------------------------------------------------------------------------
(* Creation and conversion.                                                *)

(* msListFrom, msTupleFrom, msDictFrom: NULLs are skipped, and with a NULL *)
(* key or value the pair is.                                               *)
NotNull(s) == SelectSeq(s, LAMBDA x : ~IsNull(x))
FromItems(h, name, args) ==
  CASE name = "msListFrom" -> Makes(h, "list", NotNull(args))
    [] name = "msTupleFrom" -> Answers(h, Tuple(NotNull(args)))
    [] name = "msDictFrom" ->
         LET pairs == SelectSeq([i \in 1..Len(args) \div 2 |-> <<args[2 * i - 1], args[2 * i]>>],
                                LAMBDA p : ~IsNull(p[1]) /\ ~IsNull(p[2]))
         IN  IF \E i \in DOMAIN pairs : ~Hashable(pairs[i][1]) THEN Answers(h, Abort)
             ELSE Makes(h, "dict", FoldLeft(LAMBDA d, p : Put(h, d, p[1], p[2]), <<>>, pairs))

ToInt(h, value) == IF value.t = "int" THEN Answers(h, value) ELSE TypeError(h, "msToInt")
ConvertBool(h, value) == Answers(h, Bool(Truthy(h, value)))
ConvertList(h, value) ==
  CASE value.t = "str" -> Makes(h, "list", [i \in DOMAIN value.v |-> Text(<<value.v[i]>>)])
    [] value.t \in {"list", "tuple", "set"} -> Makes(h, "list", Elements(h, value))
    [] value.t = "dict" -> Makes(h, "list", Keys(h[value.v]))
    [] OTHER -> TypeError(h, "msConvertList")

-----------------------------------------------------------------------------
(* Comparison.                                                             *)

(* compare_objects: how a is to b, "none" if they are not to be compared.  *)
Order(less, equal) == IF less THEN "less" ELSE IF equal THEN "equal" ELSE "greater"
CompareObjects(a, b) ==
  CASE a.t # b.t -> "none"
    [] a.t \in {"int", "bool"} -> Order(a.v < b.v, a.v = b.v)
    [] a.t = "nil" -> "equal"
    [] a.t = "str" -> Order(Before(a.v, b.v), a.v = b.v)
    [] OTHER -> "none"
Ordering(h, name, a, b) ==
  LET order == CompareObjects(a, b)
      asked == [msLt |-> {"less"}, msLe |-> {"less", "equal"}, msGt |-> {"greater"}, msGe |-> {"greater", "equal"}]
  IN  IF order = "none" THEN TypeError(h, name) ELSE Answers(h, Bool(order \in asked[name]))

(* Only what has a reference is identical to anything.                     *)
IsSame(h, a, b) == Answers(h, Bool(a.t \notin Inline /\ a.t = b.t /\ a.v = b.v))

(* is_hashable: stricter than the language, in which an instance is, too.  *)
RECURSIVE IsHashable(_)
IsHashable(value) ==
  \/ value.t \in Inline \cup {"str"}
  \/ value.t = "tuple" /\ \A i \in DOMAIN value.v : IsHashable(value.v[i])

(* Any number for what has a hash; only that there is one is looked at.    *)
HashOf(h, value) == IF IsHashable(value) THEN Answers(h, Nil) ELSE TypeError(h, "msHash")

-----------------------------------------------------------------------------
(* Indices.                                                                *)

(* resolve_index, as a place; 0 when it is out of bounds.                  *)
ResolveIndex(index, n) ==
  LET at == IF index < 0 THEN n + index ELSE index
  IN  IF at < 0 \/ at >= n THEN 0 ELSE at + 1

AtLeast(low, i) == IF i < low THEN low ELSE i
AtMost(high, i) == IF i > high THEN high ELSE i

(* compute_slice_bounds and the loop of msListSlice.                       *)
Bounds_AsUpwards(start, end, step, n) ==
  LET low == IF step > 0 THEN 0 ELSE -1
      s == IF start < 0 THEN AtLeast(low, n + start) ELSE AtMost(n, start)
      e == IF end < 0 THEN AtLeast(low, n + end) ELSE AtMost(n, end)
  IN  <<AtLeast(0, s), e>>
Bounds(start, end, step, n) ==
  LET low == IF step > 0 THEN 0 ELSE -1
      high == IF step > 0 THEN n ELSE n - 1
      s == IF start < 0 THEN AtLeast(low, n + start) ELSE AtMost(high, start)
      e == IF end < 0 THEN AtLeast(low, n + end) ELSE AtMost(n, end)
  IN  <<AtLeast(0, s), e>>
RECURSIVE Indices(_, _, _, _)
Indices(i, e, step, n) ==
  IF IF step > 0 THEN i < e ELSE i > e /\ i >= 0 /\ i < n
  THEN <<i>> \o Indices(i + step, e, step, n)
  ELSE <<>>
SlicePlaces(start, end, step, n) ==
  LET b == Bounds(start, end, step, n) IN Indices(b[1], b[2], step, n)

-----------------------------------------------------------------------------
(* Strings, lists, dicts, tuples and sets.                                 *)

StringCall(h, name, args) ==
  LET s == args[1].v
      n == Len(s)
      bound(i) == IF i < 0 THEN AtLeast(0, n + i) ELSE AtMost(n, i)
  IN  CASE name = "msStringLen" -> Answers(h, Number(n))
        [] name = "msStringConcat" ->
             IF args[2].t = "str" THEN Answers(h, Text(s \o args[2].v)) ELSE Refuses(h, name)
        [] name = "msStringSlice" -> Answers(h, Text(SubSeq(s, bound(args[2].v) + 1, bound(args[3].v))))

ListGet(h, name, object, i) ==
  LET s == Elements(h, object)
      at == ResolveIndex(i, Len(s))
  IN  IF at = 0 THEN TypeError(h, name) ELSE Answers(h, s[at])
ListSet(h, list, i, value) ==
  LET s == h[list.v]
      at == ResolveIndex(i, Len(s))
  IN  IF at = 0 THEN TypeError(h, "msListSet") ELSE Becomes1(h, list, [s EXCEPT ![at] = value])
ListPop(h, list) ==
  LET s == h[list.v]
  IN  IF s = <<>> THEN TypeError(h, "msListPop") ELSE Answers(Changed(h, list, Front(s)), Last(s))
ListInsert(h, list, i, value) ==
  LET s == h[list.v]
      at == IF i < 0 THEN AtLeast(0, Len(s) + i) ELSE AtMost(Len(s), i)
  IN  Becomes1(h, list, InsertAt(s, at + 1, value))
ListSliced(h, list, start, end, step) ==
  LET s == h[list.v]
      at == SlicePlaces(start, end, step, Len(s))
  IN  IF step = 0 THEN TypeError(h, "msListSlice") ELSE Makes(h, "list", [i \in DOMAIN at |-> s[at[i] + 1]])
ListCall(h, name, args) ==
  LET s == h[args[1].v]
  IN  CASE name = "msListLen" -> Answers(h, Number(Len(s)))
        [] name = "msListGet" -> ListGet(h, name, args[1], args[2].v)
        [] name = "msListSet" -> ListSet(h, args[1], args[2].v, args[3])
        [] name = "msListPush" -> Becomes1(h, args[1], Append(s, args[2]))
        [] name = "msListPop" -> ListPop(h, args[1])
        [] name = "msListInsert" -> ListInsert(h, args[1], args[2].v, args[3])
        [] name = "msListContains" -> Answers(h, Bool(Holds(h, s, args[2])))
        [] name = "msListSlice" -> ListSliced(h, args[1], args[2].v, args[3].v, args[4].v)

(* Looking a key up without a hash is a panic, unless there is nothing in  *)
(* the table; only msDictSet tests the key.                                *)
LooksUp(d, key) == Hashable(key) \/ d = <<>>
DictGet(h, d, key, default) ==
  IF LooksUp(d, key) THEN Answers(h, Got(h, d, key, default)) ELSE Answers(h, Abort)
DictSet(h, dict, key, value) ==
  IF IsHashable(key) THEN Becomes1(h, dict, Put(h, h[dict.v], key, value)) ELSE TypeError(h, "msDictSet")
DictRemove(h, dict, key) ==
  LET d == h[dict.v]
  IN  CASE ~LooksUp(d, key) -> Answers(h, Abort)
        [] LooksUp(d, key) /\ AtKey(h, d, key) = {} -> TypeError(h, "msDictRemove")
        [] OTHER -> Becomes1(h, dict, Without(d, Min(AtKey(h, d, key))))
DictContains(h, d, key) ==
  IF LooksUp(d, key) THEN Answers(h, Bool(AtKey(h, d, key) # {})) ELSE Answers(h, Abort)
DictCall(h, name, args) ==
  LET d == h[args[1].v]
      pairs == Pairs(h, d)
  IN  CASE name = "msDictLen" -> Answers(h, Number(Len(d)))
        [] name = "msDictGet" -> DictGet(h, d, args[2], Null)
        [] name = "msDictGetDefault" -> DictGet(h, d, args[2], args[3])
        [] name = "msDictSet" -> DictSet(h, args[1], args[2], args[3])
        [] name = "msDictRemove" -> DictRemove(h, args[1], args[2])
        [] name = "msDictContains" -> DictContains(h, d, args[2])
        [] name = "msDictKeys" -> Makes(h, "list", Keys(d))
        [] name = "msDictValues" -> Makes(h, "list", [i \in DOMAIN pairs |-> pairs[i][2]])
        [] name = "msDictItems" -> Makes(h, "list", [i \in DOMAIN pairs |-> Tuple(pairs[i])])

(* msTupleUnpack hands the elements out as so many handles.                *)
TupleCall(h, name, args) ==
  CASE name = "msTupleLen" -> Answers(h, Number(Len(args[1].v)))
    [] name = "msTupleGet" -> ListGet(h, name, args[1], args[2].v)
    [] name = "msTupleUnpack" -> Answers(h, args[1])

SetCall(h, name, args) ==
  LET s == h[args[1].v]
      hashable == IsHashable(args[2])
  IN  CASE name = "msSetLen" -> Answers(h, Number(Len(s)))
        [] name = "msSetAdd" ->
             IF hashable THEN Becomes1(h, args[1], Included(h, s, args[2])) ELSE TypeError(h, name)
        [] name = "msSetRemove" ->
             IF hashable /\ Holds(h, s, args[2]) THEN Becomes1(h, args[1], Without(s, PlaceOf(h, s, args[2])))
             ELSE Answers(h, Status(TRUE))
        [] name = "msSetContains" -> Answers(h, Bool(hashable /\ Holds(h, s, args[2])))

-----------------------------------------------------------------------------
(* A call, with NULL or any value for its handles.                         *)
StringCalls == {"msStringLen", "msStringConcat", "msStringSlice"}
ListCalls == {"msListLen", "msListGet", "msListSet", "msListPush", "msListPop", "msListInsert", "msListContains",
              "msListSlice"}
DictCalls == {"msDictLen", "msDictGet", "msDictGetDefault", "msDictSet", "msDictRemove", "msDictContains",
              "msDictKeys", "msDictValues", "msDictItems"}
TupleCalls == {"msTupleLen", "msTupleGet", "msTupleUnpack"}
SetCalls == {"msSetLen", "msSetAdd", "msSetRemove", "msSetContains"}
(* These say that they are not there yet.                                  *)
Deferred == {"msGetAttr", "msSetAttr", "msGetItem", "msSetItem", "msIter"}

Called(h, name, args) ==
  LET a == args[1]
      on(t) == a.t = t
      \* on what it is no function of
      other ==
        CASE \/ name \in {"msListGet", "msTupleGet"}
             \/ name \in {"msDictSet", "msSetAdd"} /\ ~IsHashable(args[2])
             \/ name = "msListSlice" /\ args[4].v = 0 -> TypeError(h, name)
          [] name = "msSetRemove" /\ ~IsHashable(args[2]) -> Answers(h, Status(TRUE))
          [] name = "msDictGetDefault" -> Answers(h, args[3])
          [] OTHER -> Refuses(h, name)
  IN  CASE name \in {"msListFrom", "msTupleFrom", "msDictFrom"} -> FromItems(h, name, args)
        [] name = "msDictGetDefault" /\ (IsNull(a) \/ IsNull(args[2])) -> Answers(h, args[3])
        [] name # "msDictGetDefault" /\ (\E i \in DOMAIN args : IsNull(args[i])) -> Refuses(h, name)
        [] name = "msToInt" -> ToInt(h, a)
        [] name \in {"msToBool", "msConvertBool"} -> ConvertBool(h, a)
        [] name = "msConvertList" -> ConvertList(h, a)
        [] name = "msEq" -> Answers(h, Bool(Same(h, a, args[2])))
        [] name \in {"msLt", "msLe", "msGt", "msGe"} -> Ordering(h, name, a, args[2])
        [] name = "msIs" -> IsSame(h, a, args[2])
        [] name = "msHash" -> HashOf(h, a)
        [] name = "msLen" -> IF a.t \in Sized THEN Answers(h, Number(Len(Elements(h, a)))) ELSE TypeError(h, name)
        [] name \in Deferred -> TypeError(h, name)
        [] name \in StringCalls -> IF on("str") THEN StringCall(h, name, args) ELSE other
        [] name \in ListCalls -> IF on("list") THEN ListCall(h, name, args) ELSE other
        [] name \in DictCalls -> IF on("dict") THEN DictCall(h, name, args) ELSE other
        [] name \in TupleCalls -> IF on("tuple") THEN TupleCall(h, name, args) ELSE other
        [] name \in SetCalls -> IF on("set") THEN SetCall(h, name, args) ELSE other

-----------------------------------------------------------------------------
(* The same in the language.                                               *)
LikeMethod ==
  [msListPush |-> "list.push", msListPop |-> "list.pop", msListInsert |-> "list.insert", msListContains |-> "list.contains",
   msListLen |-> "list.length", msDictLen |-> "dict.length", msDictGet |-> "dict.get", msDictGetDefault |-> "dict.get",
   msDictSet |-> "dict.set", msDictRemove |-> "dict.remove", msDictContains |-> "dict.contains", msDictKeys |-> "dict.keys",
   msDictValues |-> "dict.values", msDictItems |-> "dict.items", msSetLen |-> "set.length", msSetAdd |-> "set.add",
   msSetRemove |-> "set.remove", msSetContains |-> "set.contains"]
LikeOperator == [msEq |-> "EQUAL", msLt |-> "LESS", msLe |-> "LESS_EQUAL", msGt |-> "GREATER", msGe |-> "GREATER_EQUAL", msIs |-> "IS"]
InLanguage(h, name, args) ==
  LET a == args[1]
  IN  CASE name \in DOMAIN LikeMethod -> NativeResult(h, LikeMethod[name], args)
        [] name \in DOMAIN LikeOperator -> Operation(h, LikeOperator[name], a, args[2])
        [] name \in {"msLen", "msTupleLen", "msStringLen"} -> NativeResult(h, "len", args)
        [] name = "msConvertList" -> NativeResult(h, "list", args)
        [] name \in {"msToBool", "msConvertBool"} -> Fine(h, Bool(Truthy(h, a)))
        [] name = "msToInt" -> IF a.t = "int" THEN Fine(h, a) ELSE Wrong
        [] name = "msListFrom" -> NewList(h, args)
        [] name = "msTupleFrom" -> Fine(h, Tuple(args))
        [] name = "msDictFrom" -> IF Hashable(a) THEN New(h, "dict", <<args>>) ELSE Wrong
        [] name = "msHash" -> IF Hashable(a) THEN Fine(h, Nil) ELSE Wrong
        [] name = "msStringConcat" -> IF args[2].t = "str" THEN Operation(h, "ADD", a, args[2]) ELSE Wrong
        [] name = "msStringSlice" -> SliceObject(h, a, <<args[2].v>>, <<args[3].v>>, 1)
        [] name = "msListSlice" -> SliceObject(h, a, <<args[2].v>>, <<args[3].v>>, args[4].v)
        [] name \in {"msListGet", "msTupleGet"} -> GetItem(h, a, args[2])
        [] name = "msListSet" -> SetItem(h, a, args[2], args[3])

(* Where they are not the same, which the README lists: keys that only one *)
(* of them takes, or that C looks up without testing them, what is absent, *)
(* places outside a list, and the order of nils and bools.                 *)
OneHashes(key) == Hashable(key) /\ ~IsHashable(key)
Panics(d, key) == ~Hashable(key) /\ d # <<>>
Differs(h, name, args) ==
  LET a == args[1]
      d == h[a.v]
      n == Len(d)
  IN  CASE name \in {"msDictSet", "msSetAdd"} -> OneHashes(args[2])
        [] name = "msHash" -> OneHashes(a)
        [] name = "msDictFrom" -> ~Hashable(a)
        [] name \in {"msDictRemove", "msDictContains"} -> Panics(d, args[2])
        [] name = "msDictGet" -> Panics(d, args[2]) \/ (Hashable(args[2]) /\ AtKey(h, d, args[2]) = {})
        [] name = "msDictGetDefault" -> ~Hashable(args[2])
        [] name = "msSetRemove" -> ~(IsHashable(args[2]) /\ Holds(h, d, args[2]))
        [] name \in {"msLt", "msLe", "msGt", "msGe"} -> Both(a, args[2], "nil") \/ Both(a, args[2], "bool")
        [] name = "msListInsert" -> args[2].v \notin -n..n
        [] name = "msListSlice" -> n > 0 /\ args[4].v < 0 /\ args[2].v < -n /\ args[3].v < -n
        [] name = "msConvertList" -> a.t = "iter"
        [] OTHER -> FALSE

(* What a script leaves in the list `result`, and the arguments that each  *)
(* function takes: handles, of a type or any, or indices.                  *)
Handles == objects[globals["result"].v]
Indexes == -4..4
Parameters ==
  [msToBool |-> <<"any">>, msConvertBool |-> <<"any">>, msConvertList |-> <<"any">>, msHash |-> <<"any">>, msLen |-> <<"any">>,
   msToInt |-> <<"any">>, msListFrom |-> <<"any", "any">>, msTupleFrom |-> <<"any", "any">>, msDictFrom |-> <<"any", "any">>,
   msEq |-> <<"any", "any">>, msLt |-> <<"any", "any">>, msLe |-> <<"any", "any">>, msGt |-> <<"any", "any">>,
   msGe |-> <<"any", "any">>, msIs |-> <<"any", "any">>, msStringLen |-> <<"str">>, msStringConcat |-> <<"str", "any">>,
   msStringSlice |-> <<"str", "index", "index">>, msTupleLen |-> <<"tuple">>, msTupleGet |-> <<"tuple", "index">>,
   msListLen |-> <<"list">>, msListPop |-> <<"list">>, msListGet |-> <<"list", "index">>, msListPush |-> <<"list", "any">>,
   msListContains |-> <<"list", "any">>, msListSet |-> <<"list", "index", "any">>, msListInsert |-> <<"list", "index", "any">>,
   msListSlice |-> <<"list", "index", "index", "index">>, msDictLen |-> <<"dict">>, msDictKeys |-> <<"dict">>,
   msDictValues |-> <<"dict">>, msDictItems |-> <<"dict">>, msDictGet |-> <<"dict", "any">>, msDictRemove |-> <<"dict", "any">>,
   msDictContains |-> <<"dict", "any">>, msDictGetDefault |-> <<"dict", "any", "any">>, msDictSet |-> <<"dict", "any", "any">>,
   msSetLen |-> <<"set">>, msSetAdd |-> <<"set", "any">>, msSetRemove |-> <<"set", "any">>, msSetContains |-> <<"set", "any">>]
Options(type) ==
  IF type = "index" THEN Indexes ELSE {i \in DOMAIN Handles : type = "any" \/ Handles[i].t = type}
Chosen(types) == FoldLeft(LAMBDA S, type : {Append(s, i) : s \in S, i \in Options(type)}, {<<>>}, types)
ArgsOf(types, s) == [i \in DOMAIN types |-> IF types[i] = "index" THEN Number(s[i]) ELSE Handles[s[i]]]

(* What C makes of what the language gives: a status for nil.              *)
Alike(a, b) == a.t = b.t /\ a.v = b.v
Agrees(name, c, l) ==
  IF l.ok THEN ~c.error /\ Alike(c.v, IF name \in Statuses THEN Status(TRUE) ELSE l.v) /\ c.h = l.h
  ELSE Alike(c.v, Default(name)) /\ c.h = objects

(* An embedding program that works on what a script left behind gets what  *)
(* the script would get: the C functions' own copies of comparison, index, *)
(* slice and container code give the same value and leave the same objects *)
(* as the language's, and where the language has an error they change      *)
(* nothing and return what stands for failure.  The msIs tests are true of *)
(* no type but msType's.                                                   *)
HandlesAgree ==
  Over /\ prog.handles =>
    /\ \A name \in DOMAIN Parameters : \A s \in Chosen(Parameters[name]) :
         LET args == ArgsOf(Parameters[name], s)
         IN  Differs(objects, name, args) \/ Agrees(name, Called(objects, name, args), InLanguage(objects, name, args))
    /\ \A i, j \in DOMAIN Handles :
         LET t == TypeOf(Handles[j])
         IN  IsInlineOf(t, Handles[i]) \/ IsRefOf(t, Handles[i]) => TypeOf(Handles[i]) = t
=============================================================================
