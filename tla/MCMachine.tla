----------------------------- MODULE MCMachine -----------------------------
(* Instances of Machine for TLC: the programs.                             *)
EXTENDS Codegen, Meaning, CValue, Phrases

K(n) == [k |-> "const", v |-> Number(n)]
Str(n) == [k |-> "const", v |-> Text(<<n>>)]
V(name) == [k |-> "name", name |-> name]
Plus(l, r) == [k |-> "binary", op |-> "+", l |-> l, r |-> r]
Less(l, r) == [k |-> "binary", op |-> "<", l |-> l, r |-> r]
AndE(l, r) == [k |-> "and", l |-> l, r |-> r]
OrE(l, r) == [k |-> "or", l |-> l, r |-> r]
Ternary(c, y, n) == [k |-> "ternary", c |-> c, y |-> y, n |-> n]
CallE(f, args) == [k |-> "call", f |-> f, args |-> args]
ListE(es) == [k |-> "list", es |-> es]
Lambda(names, body) ==
  [k |-> "fn", params |-> [i \in DOMAIN names |-> Param(names[i])], body |-> body]
For1(name, e) == [names |-> <<name>>, e |-> e]
Comp(e, clauses, cond) == [k |-> "comp", e |-> e, clauses |-> clauses, cond |-> cond]
YieldS(e) == [k |-> "expr", e |-> [k |-> "yield", e |-> <<e>>]]

Var(name, e) == [k |-> "var", name |-> name, e |-> e]
Const(name, e) == [k |-> "const", name |-> name, e |-> e]
Inc(name, e) == [k |-> "assign", target |-> V(name), op |-> "+=", e |-> e]
UnpackS(names, e) ==
  [k |-> "assign", target |-> [k |-> "tuple", es |-> [i \in DOMAIN names |-> V(names[i])]], op |-> "=", e |-> e]
Do(e) == [k |-> "expr", e |-> e]
IfS(c, yes, no) == [k |-> "if", arms |-> <<[c |-> c, body |-> yes]>>, other |-> no]
ElifS(c, yes, c2, yes2, no) ==
  [k |-> "if", arms |-> <<[c |-> c, body |-> yes], [c |-> c2, body |-> yes2]>>, other |-> no]
WhileS(c, body) == [k |-> "while", c |-> c, body |-> body]
ForS(names, e, body) == [k |-> "for", names |-> names, e |-> e, body |-> body]
BreakS == [k |-> "break"]
ContinueS == [k |-> "continue"]
Ret(es) == [k |-> "return", es |-> es]
Nonlocal(name) == [k |-> "nonlocal", names |-> {name}]
GlobalS(name) == [k |-> "global", names |-> {name}]
DeferS(f, args) == [k |-> "defer", e |-> CallE(f, args)]
TryS(body, clauses, finally) == [k |-> "try", body |-> body, clauses |-> clauses, finally |-> finally]
Except(type, alias, body) == [type |-> <<type>>, alias |-> alias, body |-> body]
ThrowS(n) == [k |-> "throw", e |-> <<Str(n)>>]
Rethrow == [k |-> "throw", e |-> <<>>]
ThrowE(e) == [k |-> "throw", e |-> <<e>>]
Mul(l, r) == Bin("*", l, r)
Item1(e, i) == ItemOf(e, i)
Meth(e, name, args) == CallOf(MemberOf(e, name), args)
Call1(name, args) == CallE(V(name), args)
DictE(pairs) == [k |-> "dict", pairs |-> pairs]
SetE(es) == [k |-> "set", es |-> es]
TupleE(es) == [k |-> "tuple", es |-> es]
AssignS(target, op, e) == [k |-> "assign", target |-> target, op |-> op, e |-> e]
YieldFromS(e) == [k |-> "expr", e |-> [k |-> "yieldfrom", e |-> e]]
WithS(e, alias, body) == [k |-> "with", e |-> e, alias |-> alias, body |-> body]
ClassS(name, parent, attrs, methods) == [k |-> "class", name |-> name, parent |-> parent, vars |-> attrs, methods |-> methods]
Decorated(by, target) == [k |-> "decorated", by |-> by, target |-> target]
Self == V("self")
FnS(name, names, body) ==
  [k |-> "fn", name |-> name, params |-> [i \in DOMAIN names |-> Param(names[i])], body |-> body]

A == V("a")
B == V("b")
C == V("c")
Numbers == ListE(<<K(1), K(2), K(3)>>)

(* Snippets of a function whose parameter is a and whose locals are b, c,  *)
(* closures made with a and b at hand.                                     *)
SetA == Lambda(<<>>, <<Nonlocal("a"), Var("a", Plus(A, K(10)))>>)
Old == <<
  Inc("a", K(1)),
  Var("b", Plus(A, B)),
  Var("c", SetA),
  Do(CallE(C, <<>>)),
  Var("c", Lambda(<<>>, <<Nonlocal("b"), Inc("b", K(5)), Ret(<<B, A>>)>>)),
  Var("b", CallE(C, <<>>)),
  \* a function in a function, over both
  Var("c", Lambda(<<"x">>, <<Var("y", Lambda(<<>>, <<Nonlocal("x"), Inc("x", A), Ret(<<V("x")>>)>>)),
                             Do(CallE(V("y"), <<>>)), Nonlocal("a"), Var("a", V("x")),
                             Ret(<<CallE(V("y"), <<>>)>>)>>)),
  Var("b", CallE(C, <<K(2)>>)),
  IfS(Less(A, K(5)), <<Var("d", A), Var("b", V("d"))>>, <<Inc("a", K(2))>>),
  ElifS(Less(A, K(2)), <<Var("b", K(7))>>, Less(A, K(20)), <<Var("e", K(1)), Inc("b", V("e"))>>, <<Ret(<<B>>)>>),
  UnpackS(<<"a", "b">>, ListE(<<B, A>>)),
  WhileS(Less(A, K(3)), <<Inc("a", K(1)), IfS(Less(K(2), A), <<BreakS>>, <<>>), Var("f", A)>>),
  ForS(<<"i">>, Numbers, <<IfS(Less(V("i"), K(2)), <<ContinueS>>, <<>>), Inc("b", V("i"))>>),
  ForS(<<"i">>, Numbers, <<ForS(<<"j">>, Numbers, <<IfS(Less(V("j"), V("i")), <<BreakS>>, <<>>),
                                                    Inc("b", V("j"))>>)>>),
  ForS(<<"i", "j">>, ListE(<<ListE(<<K(1), A>>), ListE(<<K(2), B>>)>>), <<Var("b", V("j"))>>),
  Var("b", Ternary(Less(A, K(2)), AndE(A, K(0)), OrE(K(0), B))),
  Var("b", ListE(<<A, Ternary(Less(A, K(2)), Less(A, K(1)), B), AndE(K(0), A)>>)),
  TryS(<<Inc("a", K(1)), ThrowS(3)>>, <<Except("Key", "", <<Inc("a", K(50))>>), Except("Error", "x", <<Var("b", V("x"))>>)>>, <<>>),
  TryS(<<IfS(Less(A, K(4)), <<Ret(<<A, B>>)>>, <<>>)>>, <<>>, <<Inc("a", K(1))>>),
  TryS(<<Do(CallE(C, <<>>)), ThrowS(4)>>, <<Except("Error", "", <<Inc("a", K(1))>>)>>, <<Inc("a", K(3))>>),
  ForS(<<"i">>, Numbers, <<TryS(<<IfS(Less(V("i"), K(2)), <<ContinueS>>, <<>>), BreakS>>, <<>>, <<Inc("a", K(1))>>)>>),
  DeferS(SetA, <<>>),
  DeferS(Lambda(<<"x">>, <<GlobalS("g"), Var("g", V("x"))>>), <<A>>),
  ThrowS(5),
  Var("c", Lambda(<<>>, <<ThrowS(6)>>)),
  ForS(<<"i">>, CallE(Lambda(<<"n">>, <<YieldS(V("n")), TryS(<<ThrowS(1)>>, <<Except("Error", "", <<>>)>>, <<>>),
                                        WhileS(Less(V("n"), K(3)), <<Inc("n", K(1)), YieldS(V("n"))>>)>>), <<A>>),
       <<Inc("b", V("i"))>>),
  Ret(<<A, B>>),
  UnpackS(<<"b", "c">>, CallE(Lambda(<<"n">>,
    <<Ret(<<Lambda(<<>>, <<Nonlocal("n"), Inc("n", K(1)), Ret(<<V("n")>>)>>),
            Lambda(<<"r">>, <<Ret(<<Plus(V("n"), V("r"))>>)>>)>>)>>), <<A>>)),
  Var("a", CallE(B, <<>>)),
  Var("b", CallE(C, <<K(1)>>)),
  Var("b", Comp(Plus(V("x"), A), <<For1("x", Numbers)>>, <<Less(V("x"), K(3))>>)),
  Var("b", Comp(ListE(<<V("x"), V("y"), V("z")>>),
    <<For1("x", Numbers), [names |-> <<"y", "z">>, e |-> ListE(<<ListE(<<V("x"), A>>)>>)]>>, <<>>)),
  Var("c", [k |-> "fn", params |-> <<Param("x"), [Param("y") EXCEPT !.default = <<K(7)>>], [Param("z") EXCEPT !.rest = TRUE]>>,
            body |-> <<Ret(<<V("x"), V("y"), V("z")>>)>>]),
  Var("b", CallE(C, <<K(1), K(2), A, B>>)),
  ForS(<<"i">>, Numbers, <<Var("c", Lambda(<<>>, <<Ret(<<V("i"), A>>)>>))>>),
  TryS(<<TryS(<<ThrowS(1)>>, <<Except("Error", "", <<Inc("a", K(1)), Rethrow>>)>>, <<>>)>>,
       <<Except("Error", "", <<Inc("a", K(1))>>)>>, <<Inc("a", K(1))>>),
  IfS(K(1), <<Rethrow>>, <<>>),
  \* a generator that is left and taken up again, deeper on the stack
  Var("c", CallE(Lambda(<<"n">>, <<WhileS(Less(V("n"), K(4)), <<Inc("n", K(1)), YieldS(V("n"))>>)>>), <<A>>)),
  ForS(<<"i">>, C, <<Inc("b", V("i")), IfS(Less(K(2), V("i")), <<BreakS>>, <<>>)>>),
  Var("b", CallE(Lambda(<<"c", "x">>, <<ForS(<<"j">>, C, <<Inc("x", V("j"))>>), Ret(<<V("x")>>)>>), <<C, A>>)),
  TryS(<<TryS(<<ThrowS(1)>>, <<Except("Key", "", <<>>)>>, <<Inc("a", K(3))>>)>>,
       <<Except("Error", "x", <<Inc("a", K(1))>>)>>, <<>>)
>>

-----------------------------------------------------------------------------
(* Snippets on data, natives, generators and classes: what stands before   *)
(* the function, its statements, and the contexts they do not fit.         *)
S(top, body) == [top |-> top, body |-> body, unfit |-> {}]
B0(body) == S(<<>>, body)
But(s, contexts) == [s EXCEPT !.unfit = contexts]
MethodS(name, names, body) == FnS(name, <<"self">> \o names, body)
D == V("d")
M1 == Un("-", K(1))
G(name) == V(name)
Fn1(e) == Lambda(<<"x">>, <<Ret(<<e>>)>>)
X1 == V("x")
SetC(e) == Var("c", e)
SetB(e) == Var("b", e)
SetD(e) == Var("d", e)
Field(e, name) == MemberOf(e, name)
Assigns(target, e) == AssignS(target, "=", e)
Unpacks(targets, e) == Assigns([k |-> "tuple", es |-> targets], e)
CatchE(body, class, handler) == TryS(body, <<Except(class, "e", handler)>>, <<>>)
E1 == V("e")
Five == ListE(<<K(1), K(2), K(3), K(4), K(5)>>)
L312 == ListE(<<K(3), K(1), K(2)>>)
Text1 == Str(1)
Text2 == Str(2)
(* A string of characters, by their code points.                           *)
Codes(first, chars) ==
  [c \in CharsOf(chars) |-> first - 1 + CHOOSE i \in 1..Len(chars) : CharAt(chars, i) = c]
CodePoint ==
  Codes(32, " ") @@ Codes(42, "*+,-./0123456789:") @@ Codes(65, "ABCDEFGHIJKLMNOPQRSTUVWXYZ") @@ Codes(61, "=")
  @@ Codes(97, "abcdefghijklmnopqrstuvwxyz{|}") @@ ("\n" :> 10) @@ ("\r" :> 13)
Said(text) == [k |-> "const", v |-> Text([i \in 1..Len(text) |-> CodePoint[CharAt(text, i)]])]
InString(name, args) == Meth(G("string"), name, args)
InHeapq(name, args) == Meth(G("heapq"), name, args)
InMath(name, args) == Meth(G("math"), name, args)
Counter == Lambda(<<"n">>, <<WhileS(Less(V("n"), K(4)), <<YieldS(V("n")), Inc("n", K(1))>>)>>)
Closing == Lambda(<<>>, <<TryS(<<YieldS(K(1)), YieldS(K(2))>>, <<>>, <<GlobalS("g"), Var("g", K(9))>>)>>)

(* Classes: a point, its heir, one with a method for every operator, a     *)
(* context for `with`.                                                     *)
ClassP == ClassS("P", "", <<<<"k", K(7)>>>>, <<
  MethodS("__init__", <<"x">>, <<Assigns(Field(Self, "x"), X1)>>),
  MethodS("get", <<>>, <<Ret(<<Field(Self, "x")>>)>>),
  MethodS("put", <<"x">>, <<AssignS(Field(Self, "x"), "+=", X1), Ret(<<Self>>)>>)>>)
ClassQ == ClassS("Q", "P", <<>>, <<
  MethodS("get", <<>>, <<Ret(<<Plus(CallE([k |-> "super", name |-> "get"], <<>>), K(100))>>)>>),
  MethodS("twice", <<>>, <<Var("r", Meth(Self, "get", <<>>)), Ret(<<Plus(V("r"), Meth(Self, "get", <<>>))>>)>>)>>)
ClassR == ClassS("R", "", <<>>, <<
  MethodS("__init__", <<"x">>, <<Assigns(Field(Self, "x"), X1)>>),
  MethodS("__add__", <<"y">>, <<Ret(<<Call1("R", <<Plus(Field(Self, "x"), V("y"))>>)>>)>>),
  MethodS("__eq__", <<"y">>, <<Ret(<<Bin("==", Field(Self, "x"), Field(V("y"), "x"))>>)>>),
  MethodS("__lt__", <<"y">>, <<Ret(<<Less(Field(Self, "x"), Field(V("y"), "x"))>>)>>),
  MethodS("__getitem__", <<"i">>, <<Ret(<<Mul(Field(Self, "x"), V("i"))>>)>>),
  MethodS("__setitem__", <<"i", "y">>, <<Assigns(Field(Self, "x"), Plus(V("i"), V("y")))>>),
  MethodS("__len__", <<>>, <<Ret(<<K(3)>>)>>),
  MethodS("__contains__", <<"y">>, <<Ret(<<Bin("==", Field(Self, "x"), V("y"))>>)>>),
  MethodS("__iter__", <<>>, <<Ret(<<ListE(<<Field(Self, "x"), K(8)>>)>>)>>),
  MethodS("__call__", <<"y">>, <<Ret(<<Mul(Field(Self, "x"), V("y"))>>)>>)>>)
ClassW == ClassS("W", "", <<>>, <<
  MethodS("__enter__", <<"x">>, <<GlobalS("g"), Var("g", K(1)), Ret(<<K(6)>>)>>),
  MethodS("__exit__", <<"x", "t", "m", "s">>, <<GlobalS("g"), Var("g", ListE(<<G("g"), V("t"), V("m")>>)), Ret(<<K(1)>>)>>)>>)
ClassN == ClassS("N", "W", <<>>, <<
  MethodS("__exit__", <<"x", "t", "m", "s">>, <<GlobalS("g"), Var("g", V("t"))>>)>>)

Data == <<
  B0(<<SetB(Bin("-", Bin("%", Mul(Bin("//", Plus(A, K(7)), K(2)), K(3)), Un("-", K(5))), Un("-", A))),
       SetC(ListE(<<Bin("//", Un("-", K(7)), K(2)), Bin("%", Un("-", K(7)), K(2)), Bin("**", K(2), Plus(A, K(2))),
                    Un("~", A), Un("not", A)>>)), SetB(ListE(<<B, C>>))>>),
  B0(<<SetB(ListE(<<Bin("^", Bin("|", A, K(6)), K(3)), Bin("&", Un("-", K(3)), K(13)), Bin("<<", A, K(3)),
                    Bin(">>", Un("-", K(9)), K(1))>>))>>),
  B0(<<SetC(DictE(<<<<K(1), A>>, <<K(2), B>>>>)), Assigns(Item1(C, K(3)), A), AssignS(Item1(C, K(1)), "+=", K(5)),
       Do(Meth(C, "remove", <<K(2)>>)),
       SetB(ListE(<<Item1(C, K(1)), Call1("len", <<C>>), Meth(C, "keys", <<>>), Meth(C, "items", <<>>),
                    Meth(C, "get", <<K(9), K(8)>>), Bin("in", K(3), C)>>))>>),
  B0(<<SetC(DictE(<<<<Text1, ListE(<<A>>)>>, <<TupleE(<<K(1), K(2)>>), B>>>>)), Do(Meth(Item1(C, Text1), "push", <<K(4)>>)),
       Do(Meth(C, "merge", <<DictE(<<<<Text1, K(1)>>, <<Text2, Meth(C, "values", <<>>)>>>>)>>)), SetB(Meth(C, "items", <<>>))>>),
  B0(<<SetC(SetE(<<K(1), A, K(2)>>)), SetD(SetE(<<A, K(3)>>)),
       SetB(ListE(<<Call1("len", <<Bin("|", C, D)>>), Call1("len", <<Bin("&", C, D)>>), Call1("len", <<Bin("-", C, D)>>),
                    Call1("len", <<Bin("^", C, D)>>), Bin("in", A, D)>>)), Do(Meth(C, "add", <<K(9)>>)),
       Do(Meth(D, "remove", <<K(3)>>)), SetC(Call1("len", <<Meth(C, "union", <<D>>)>>)), SetB(ListE(<<C, B>>))>>),
  B0(<<SetC(L312), Do(Meth(C, "push", <<A>>)), Do(Meth(C, "insert", <<K(1), K(9)>>)), Do(Meth(C, "remove", <<K(3)>>)),
       Do(Meth(C, "reverse", <<>>)), SetD(Meth(C, "pop", <<>>)),
       SetB(ListE(<<C, D, Meth(C, "index", <<K(2)>>), Meth(C, "contains", <<K(3)>>), Meth(C, "slice", <<K(1), K(2)>>)>>))>>),
  B0(<<SetC(Five), SetB(ListE(<<SliceOf(C, <<K(1)>>, <<K(3)>>, <<>>), SliceOf(C, <<>>, <<>>, <<M1>>),
       SliceOf(C, <<Un("-", K(2))>>, <<>>, <<>>), SliceOf(C, <<>>, <<Plus(A, K(1))>>, <<K(2)>>),
       SliceOf(C, <<K(4)>>, <<K(1)>>, <<Un("-", K(2))>>), Item1(C, M1)>>))>>),
  B0(<<Const("c", Plus(K(3), Mul(Un("-", K(2)), K(5)))), SetB(Plus(C, A)), SetC(Plus(C, B)), SetB(ListE(<<B, C>>))>>),
  B0(<<SetC(L312), Unpacks(<<Item1(C, K(0)), Item1(C, K(1))>>, TupleE(<<Item1(C, K(1)), A>>)), SetB(C)>>),
  B0(<<SetC(L312), SetD(C), Do(Meth(D, "push", <<A>>)),
       SetB(ListE(<<C, Bin("is", C, D), Bin("==", C, Call1("copy", <<D>>)), Bin("is", C, Call1("copy", <<D>>)),
                    Less(Text1, Text2), Plus(Text1, Text2), Mul(Text2, K(2)), Bin("in", Text1, Plus(Text2, Text1))>>))>>),
  B0(<<SetC(L312), SetB(ListE(<<Call1("sum", <<C>>), Call1("max", <<A, K(3), K(2)>>), Call1("min", <<A, K(3)>>), Call1("abs", <<Un("-", A)>>),
       Call1("any", <<ListE(<<K(0), B>>)>>), Call1("all", <<C>>), Call1("list", <<Call1("range", <<K(5), K(0), Un("-", K(2))>>)>>),
       Call1("tuple", <<C>>), Call1("len", <<Call1("set", <<C>>)>>), Call1("isinstance", <<A, G("list")>>),
       Call1("type", <<C>>)>>))>>),
  \* callbacks
  B0(<<SetC(L312), Do(Meth(C, "sort", <<>>)), SetB(ListE(<<C, Call1("sorted", <<C, Fn1(Bin("*", X1, M1))>>)>>))>>),
  B0(<<SetB(Call1("sorted_by", <<Five, Fn1(Bin("%", Plus(X1, A), K(2))), [k |-> "const", v |-> Bool(TRUE)]>>)),
       Do(Meth(B, "sort_by", <<Fn1(Bin("%", X1, K(3)))>>))>>),
  B0(<<SetB(Call1("map", <<Fn1(Plus(X1, A)), Call1("range", <<K(3)>>)>>)), SetC(Call1("filter", <<Fn1(Less(X1, K(3))), B>>)),
       SetB(ListE(<<B, C>>))>>),
  B0(<<SetC(K(0)), SetB(Meth(Five, "map", <<Lambda(<<"x">>, <<Nonlocal("c"), Inc("c", X1), Ret(<<C>>)>>)>>)), SetB(ListE(<<B, C>>))>>),
  B0(<<SetB(Meth(Five, "reduce", <<Lambda(<<"x", "y">>, <<Ret(<<Plus(Mul(X1, K(2)), V("y"))>>)>>), A>>)),
       SetC(Meth(Five, "reduce", <<Lambda(<<"x", "y">>, <<Ret(<<Plus(X1, V("y"))>>)>>)>>)), SetB(ListE(<<B, C>>))>>),
  B0(<<SetC(Fn1(Meth(ListE(<<X1, A>>), "filter", <<Fn1(Less(X1, K(2)))>>))), SetB(Meth(L312, "map", <<C>>))>>),
  B0(<<CatchE(<<Do(Call1("map", <<Lambda(<<"x">>, <<ThrowS(1)>>), ListE(<<A>>)>>))>>, "Error", <<SetB(Field(E1, "message"))>>)>>),
  B0(<<CatchE(<<Do(Call1("sorted", <<Five, Lambda(<<"x">>, <<IfS(Less(K(2), X1), <<ThrowS(1)>>, <<>>), Ret(<<X1>>)>>)>>))>>,
              "RuntimeError", <<SetB(Field(E1, "message"))>>)>>),
  B0(<<SetB(Call1("map", <<Lambda(<<"x">>, <<CatchE(<<IfS(Less(X1, K(3)), <<ThrowE(Call1("ValueError", <<X1>>))>>, <<>>)>>, "ValueError",
       <<Ret(<<Field(E1, "message")>>)>>), Ret(<<K(0)>>)>>), Five>>))>>),
  B0(<<SetB(Call1("map", <<Lambda(<<"x">>, <<DeferS(Lambda(<<"y">>, <<GlobalS("g"), Var("g", V("y"))>>), <<X1>>), Ret(<<G("g")>>)>>), Five>>))>>),
  \* iteration
  But(B0(<<ForS(<<"i", "j">>, Call1("enumerate", <<L312>>), <<Inc("b", Mul(V("i"), V("j")))>>)>>), {"loop"}),
  But(B0(<<ForS(<<"i", "j">>, Call1("zip", <<Five, Call1("range", <<A, K(4)>>)>>), <<Inc("b", Mul(V("i"), V("j")))>>),
       ForS(<<"w">>, Call1("reversed", <<L312>>), <<SetC(V("w"))>>), SetB(ListE(<<B, C>>))>>), {"loop"}),
  But(B0(<<ForS(<<"i">>, DictE(<<<<A, K(2)>>, <<K(5), K(6)>>>>), <<Inc("b", V("i"))>>),
       ForS(<<"w">>, Plus(Text1, Text2), <<SetC(V("w"))>>), SetB(ListE(<<B, C>>))>>), {"loop"}),
  B0(<<SetC([k |-> "setcomp", e |-> Bin("%", X1, K(2)), clauses |-> <<For1("x", Five)>>, cond |-> <<>>]), SetB(Call1("len", <<C>>))>>),
  B0(<<SetB([k |-> "dictcomp", e |-> <<X1, Mul(X1, A)>>, clauses |-> <<For1("x", Five)>>, cond |-> <<Less(X1, K(3))>>])>>),
  But(B0(<<ForS(<<"i">>, [k |-> "gencomp", e |-> Mul(X1, K(3)), clauses |-> <<For1("x", Five)>>, cond |-> <<Less(K(1), X1)>>],
         <<Inc("b", V("i")), IfS(Less(K(10), B), <<BreakS>>, <<>>)>>)>>), {"loop"}),
  \* generators
  But(B0(<<ForS(<<"i">>, CallE(Lambda(<<"n">>, <<YieldFromS(ListE(<<V("n"), K(5)>>)), YieldFromS(CallE(Counter, <<V("n")>>)), YieldS(K(9))>>), <<A>>),
         <<SetB(Bin("+", ListE(<<V("i")>>), Tern(B, B, ListE(<<>>))))>>)>>), {"loop"}),
  B0(<<SetC(CallE(Counter, <<K(2)>>)), SetB(ListE(<<Meth(C, "__next__", <<>>), Meth(C, "__next__", <<>>)>>)),
       CatchE(<<SetB(ListE(<<B, Meth(C, "__next__", <<>>)>>))>>, "StopIteration", <<Inc("a", K(1))>>)>>),
  B0(<<SetC(CallE(Counter, <<K(2)>>)), SetB(Meth(C, "__next__", <<>>)), Do(Meth(C, "close", <<>>)), Do(Meth(C, "close", <<>>)),
       CatchE(<<SetB(Meth(C, "__next__", <<>>))>>, "StopIteration", <<Inc("a", K(1))>>)>>),
  B0(<<SetC(CallE(Counter, <<K(2)>>)), SetD(Meth(Meth(C, "__iter__", <<>>), "__next__", <<>>)),
       SetB(CallE(Lambda(<<"c", "x">>, <<Ret(<<Plus(X1, Meth(C, "__next__", <<>>))>>)>>), <<C, D>>))>>),
  \* classes
  S(<<ClassP, ClassQ>>, <<SetC(Call1("P", <<A>>)), SetD(Call1("Q", <<K(5)>>)),
       SetB(ListE(<<Meth(C, "get", <<>>), Meth(D, "get", <<>>), Meth(D, "twice", <<>>), Field(D, "k"), Field(G("P"), "k")>>))>>),
  S(<<ClassP>>, <<SetC(Call1("P", <<A>>)), Assigns(Field(C, "x"), K(4)), AssignS(Field(C, "y"), "=", Fn1(Plus(X1, A))),
       SetB(Meth(Meth(Meth(C, "put", <<K(1)>>), "put", <<K(2)>>), "get", <<>>)), SetD(Field(C, "get")),
       Do(Meth(C, "put", <<K(5)>>)), SetB(ListE(<<B, CallE(D, <<>>), Meth(C, "y", <<K(2)>>), Call1("isinstance", <<C, G("P")>>)>>))>>),
  S(<<ClassP>>, <<Assigns(Field(G("P"), "k"), K(8)), SetC(Call1("P", <<A>>)), SetB(ListE(<<Field(C, "k"), Bin("==", C, C), Bin("!=", C, C)>>))>>),
  S(<<ClassR>>, <<SetC(Plus(Call1("R", <<A>>), K(4))), SetB(ListE(<<Field(C, "x"), Bin("==", C, Call1("R", <<K(5)>>)), Less(C, Call1("R", <<A>>)),
       Item1(C, K(2)), Call1("len", <<C>>), Bin("in", K(5), C), CallE(C, <<K(3)>>)>>)), Assigns(Item1(C, K(1)), K(2)),
       AssignS(Item1(C, K(1)), "+=", K(2)), SetB(ListE(<<B, Field(C, "x")>>))>>),
  But(S(<<ClassR>>, <<ForS(<<"i">>, Call1("R", <<A>>), <<Inc("b", V("i"))>>)>>), {"loop"}),
  S(<<ClassP>>, <<SetC(Call1("P", <<A>>)), SetB(Call1("map", <<Field(C, "put"), ListE(<<K(1), K(2)>>)>>)), SetB(Meth(C, "get", <<>>))>>),
  S(<<ClassW>>, <<WithS(Call1("W", <<>>), "d", <<Inc("b", D)>>)>>),
  S(<<ClassW>>, <<WithS(Call1("W", <<>>), "", <<Inc("a", K(1)), ThrowS(3)>>), SetB(A)>>),
  S(<<ClassW, ClassN>>, <<CatchE(<<WithS(Call1("N", <<>>), "", <<ThrowE(Call1("ValueError", <<K(3)>>))>>)>>, "ValueError",
       <<SetB(Field(E1, "message"))>>)>>),
  S(<<FnS("by", <<"n">>, <<Ret(<<Lambda(<<"f">>, <<Ret(<<Fn1(Plus(CallE(V("f"), <<X1>>), V("n")))>>)>>)>>)>>),
      FnS("half", <<"f">>, <<Ret(<<Fn1(Bin("//", CallE(V("f"), <<X1>>), K(2)))>>)>>),
      Decorated(Call1("by", <<K(3)>>), Decorated(V("half"), FnS("h", <<"x">>, <<Ret(<<Mul(X1, K(5))>>)>>)))>>,
    <<SetB(Call1("h", <<A>>))>>),
  S(<<ClassP, ClassS("E", "P", <<>>, <<MethodS("__init__", <<"x", "y">>, <<Do(CallE([k |-> "super", name |-> "__init__"], <<Plus(X1, V("y"))>>)),
        DeferS(Lambda(<<>>, <<GlobalS("g"), Var("g", X1)>>), <<>>)>>)>>)>>, <<SetB(Meth(Call1("E", <<A, K(4)>>), "get", <<>>))>>),
  \* calls in calls
  S(<<FnS("fact", <<"n">>, <<Ret(<<Tern(Less(V("n"), K(2)), K(1), Bin("*", V("n"), Call1("fact", <<Bin("-", V("n"), K(1))>>)))>>)>>)>>,
    <<SetB(Call1("map", <<G("fact"), Call1("range", <<K(1), K(5)>>)>>))>>),
  B0(<<SetB(Call1("map", <<Lambda(<<"x">>, <<Ret(<<Call1("map", <<Lambda(<<"y">>, <<Nonlocal("a"), Var("a", Plus(A, X1)), Ret(<<Plus(X1, V("y"))>>)>>),
       ListE(<<A, X1>>)>>)>>)>>), L312>>))>>),
  S(<<ClassR>>, <<SetC(Call1("map", <<G("R"), L312>>)), SetD(Call1("sorted_by", <<C, Lambda(<<"x">>, <<Ret(<<Plus(Call1("len", <<X1>>), Field(X1, "x"))>>)>>)>>)),
       SetB(Comp(Field(X1, "x"), <<For1("x", D)>>, <<Bin("<", Item1(C, K(1)), X1)>>))>>),
  S(<<FnS("two", <<"x">>, <<TryS(<<IfS(Less(X1, K(2)), <<ThrowE(Call1("IndexError", <<X1>>))>>, <<>>), Ret(<<X1, K(2)>>)>>, <<>>,
                                 <<GlobalS("g"), Var("g", X1)>>)>>)>>,
    <<SetC(K(0)), CatchE(<<Unpacks(<<B, C>>, Call1("two", <<A>>))>>, "IndexError", <<Unpacks(<<B, C>>, Call1("two", <<Plus(A, K(2))>>))>>), SetB(ListE(<<B, C>>))>>),
  B0(<<SetC(DictE(<<<<K(1), Fn1(Plus(X1, A))>>, <<K(2), Lambda(<<>>, <<Ret(<<A>>)>>)>>>>)),
       SetB(ListE(<<CallE(Item1(C, K(1)), <<K(4)>>), AndE(A, CallE(Item1(C, K(2)), <<>>)), OrE(K(0), B)>>))>>),
  S(<<FnS("abs", <<"x">>, <<Ret(<<K(77)>>)>>), ClassS("F", "", <<>>, <<
        [MethodS("m", <<"x", "y">>, <<Ret(<<X1, V("y")>>)>>) EXCEPT !.params[2].default = <<K(6)>>, !.params[3].rest = TRUE]>>)>>,
    <<SetC(Call1("F", <<>>)), SetB(ListE(<<Call1("abs", <<A>>), Meth(C, "m", <<>>), Meth(C, "m", <<K(1), A, A>>)>>))>>),
  S(<<ClassS("H", "", <<>>, <<MethodS("__iter__", <<>>, <<Var("i", K(1)), WhileS(Less(V("i"), K(4)), <<YieldS(V("i")), Inc("i", K(1))>>)>>)>>)>>,
    <<SetB(Comp(Mul(X1, A), <<For1("x", Call1("H", <<>>))>>, <<>>))>>),
  B0(<<SetC(CallE(Lambda(<<"n">>, <<YieldFromS(CallE(Counter, <<V("n")>>)), YieldS(K(8))>>), <<A>>)), SetB(Meth(C, "__next__", <<>>)),
       SetD(Meth(C, "__next__", <<>>)), Do(Meth(C, "close", <<>>)), SetB(ListE(<<B, D>>))>>),
  B0(<<CatchE(<<Do(CallE(Lambda(<<"x">>, <<DeferS(Lambda(<<>>, <<GlobalS("g"), Var("g", ListE(<<G("g"), X1>>))>>), <<>>),
         Do(CallE(Lambda(<<>>, <<DeferS(Lambda(<<"y">>, <<GlobalS("g"), Var("g", V("y"))>>), <<X1>>), ThrowS(1)>>), <<>>))>>), <<A>>))>>,
              "Error", <<SetB(G("g"))>>)>>),
  B0(<<SetC(ListE(<<>>)), CatchE(<<Do(CallE(Lambda(<<"x">>, <<DeferS(Field(X1, "push"), <<K(4)>>), DeferS(G("set"), <<>>), ThrowS(2)>>), <<C>>))>>,
              "Error", <<>>), SetB(C)>>),
  B0(<<CatchE(<<Do(Call1("map", <<Lambda(<<"x">>, <<IfS(Less(X1, K(2)), <<ThrowS(2)>>, <<>>), Ret(<<Item1(ListE(<<>>), X1)>>)>>), Five>>))>>,
              "Error", <<SetB(Field(E1, "message"))>>)>>),
  B0(<<SetC(DictE(<<>>)), Do(Meth(C, "set", <<A, L312>>)), SetD(Meth(Item1(C, A), "pop", <<K(1)>>)), Do(Meth(Item1(C, A), "insert", <<M1, D>>)),
       SetB(ListE(<<C, Meth(C, "length", <<>>), Meth(C, "contains", <<A>>), Bin("<=", A, K(1)), Bin(">=", Text1, Text2), Bin(">", A, K(0)),
                    Bin("in", K(3), TupleE(<<A, K(3)>>)), Meth(SetE(<<A>>), "contains", <<K(1)>>)>>))>>),
  B0(<<IfS(Bin("==", A, K(1)), <<SetB(Binary2("and", Binary2("<", A, K(2)), Binary2("<", K(2), K(3))))>>, <<SetB(Bin("!=", ListE(<<A>>), L312))>>)>>),
  \* strings and the native modules
  B0(<<SetC(Said(" a,b c ")), SetD(Meth(C, "strip", <<>>)),
       SetB(ListE(<<Meth(C, "split", <<>>), Meth(C, "split", <<Said(",")>>), Meth(D, "upper", <<>>), Meth(Said("aZ1"), "lower", <<>>),
                    Meth(D, "replace", <<Said("b"), Call1("str", <<A>>)>>), Meth(D, "replace", <<Said(""), Said("-")>>),
                    Meth(D, "contains", <<Said("b c")>>), Meth(D, "startswith", <<Said("b")>>), Meth(D, "endswith", <<Said("c")>>),
                    Meth(D, "index", <<Said("b")>>), Meth(D, "slice", <<K(1), M1>>), Meth(D, "length", <<>>),
                    Meth(Said(", "), "join", <<Meth(D, "split", <<Said(",")>>)>>)>>))>>),
  B0(<<SetC(ListE(<<Said("ab"), Said("aB1"), Said(" "), Said("")>>)),
       SetD(Call1("map", <<Lambda(<<"x">>, <<Ret(<<InString("is_alpha", <<X1>>), InString("is_digit", <<X1>>), InString("is_alnum", <<X1>>),
                                                 InString("is_space", <<X1>>), InString("is_upper", <<X1>>),
                                                 InString("is_lower", <<X1>>)>>)>>), C>>)),
       SetB(ListE(<<Call1("map", <<Field(G("string"), "capitalize"), C>>), D, InString("title", <<Said("to be or-not x1y")>>),
                    InString("reverse", <<Meth(Said("-"), "join", <<C>>)>>)>>))>>),
  B0(<<SetC(Said("-42")), SetB(ListE(<<InString("pad_start", <<C, K(5)>>), InString("pad_end", <<C, K(5), Said("*.")>>),
       InString("center", <<C, K(6), Said("=")>>), InString("center", <<C, K(2), K(9)>>), InString("zfill", <<C, K(6)>>),
       InString("format", <<Said("{}: {{{:.2f}}} {}"), C, A, ListE(<<C, TupleE(<<A>>)>>)>>),
       InString("repeat", <<Said("ab"), Plus(A, K(1))>>)>>))>>),
  B0(<<SetC(Said("a=b=c")), SetB(ListE(<<InString("cut", <<C, Said("=")>>), InString("cut", <<C, Said(":")>>), InString("count", <<C, Said("=")>>),
       InString("find", <<C, Said("b=")>>), InString("find", <<C, Said("z")>>), InString("fields", <<Said(" to  be ")>>),
       InString("split_lines", <<Said("a\n\nb\r\nc\r")>>), InString("join", <<C, ListE(<<Said("x"), Said("y")>>)>>),
       InString("trim_start", <<Said(" a ")>>), InString("trim_end", <<Said(" a ")>>)>>))>>),
  B0(<<SetC(Call1("str", <<ListE(<<A, Said("x"), TupleE(<<K(1), DictE(<<<<Said("k"), ListE(<<>>)>>>>)>>),
                                  [k |-> "const", v |-> Bool(TRUE)], [k |-> "const", v |-> Nil]>>)>>)),
       SetB(ListE(<<C, Plus(Call1("int", <<Said("-12")>>), Call1("int", <<[k |-> "const", v |-> Bool(TRUE)]>>)), Call1("bool", <<C>>),
                    Call1("bool", <<Said("")>>), Call1("isinstance", <<C, G("str")>>), Call1("round", <<A, K(2)>>),
                    Call1("str", <<SetE(<<K(1)>>)>>)>>)), SetB(Plus(B, ListE(<<Call1("int", <<Said("2048")>>)>>)))>>),
  B0(<<SetC(Five), Do(Meth(C, "reverse", <<>>)), Do(InHeapq("heapify", <<C>>)), SetD(Call1("copy", <<C>>)), Do(InHeapq("heap_push", <<D, A>>)),
       SetB(ListE(<<C, D, InHeapq("heap_pop", <<D>>), InHeapq("push_pop", <<C, K(3)>>), InHeapq("push_pop", <<C, K(0)>>),
                    InHeapq("n_largest", <<C, K(2)>>), InHeapq("n_smallest", <<C, K(9)>>), InHeapq("n_smallest", <<C, K(0)>>), C, D>>)),
       SetC(Call1("map", <<Lambda(<<"x">>, <<Ret(<<InHeapq("heap_pop", <<D>>)>>)>>), L312>>)), SetB(ListE(<<B, C>>))>>),
  \* a heap that cannot be
  B0(<<SetD(ListE(<<Said("z"), K(3), K(4), K(1), A>>)), SetB(K(1)), SetB(InHeapq("heapify", <<D>>))>>),
  B0(<<SetB(ListE(<<InMath("abs", <<Un("-", A)>>), InMath("sign", <<Un("-", K(7))>>), InMath("gcd", <<K(12), Un("-", K(18))>>),
                    InMath("lcm", <<K(4), K(6)>>), InMath("factorial", <<K(5)>>), InMath("comb", <<K(6), K(4)>>),
                    InMath("perm", <<K(6), K(2)>>), InMath("isqrt", <<K(99)>>)>>)), SetC(InMath("factorial", <<K(7)>>))>>),
  B0(<<CatchE(<<SetB(Field(G("heapq"), "absent"))>>, "NameError", <<SetB(Field(E1, "type"))>>),
       SetC(Field(G("heapq"), "heap_push")), SetD(ListE(<<>>)), Do(CallE(C, <<D, A>>)), SetB(ListE(<<B, D>>)), Do(InHeapq("heap_pop", <<>>))>>),
  \* exceptions
  B0(<<CatchE(<<ThrowE(Call1("KeyError", <<A>>))>>, "Error", <<SetB(ListE(<<Field(E1, "message"), Field(E1, "type")>>))>>)>>),
  B0(<<CatchE(<<CatchE(<<ThrowE(Call1("KeyError", <<A>>))>>, "ValueError", <<SetB(K(1))>>)>>, "KeyError", <<SetB(K(2))>>)>>),
  B0(<<TryS(<<Do(CallE(Lambda(<<>>, <<CatchE(<<ThrowS(1)>>, "Error", <<ThrowS(2)>>)>>), <<>>))>>, <<Except("Error", "e", <<SetB(Field(E1, "message"))>>)>>, <<Inc("a", K(1))>>)>>),
  B0(<<SetC(CallE(Closing, <<>>)), SetB(Meth(C, "__next__", <<>>)), Do(Meth(C, "close", <<>>))>>),
  B0(<<Do(Call1("assert", <<A>>)), SetB(Call1("len", <<ListE(<<Call1("dict", <<>>)>>)>>))>>),
  B0(<<SetB(Item1(Five, K(7)))>>),
  B0(<<Do(Call1("map", <<Lambda(<<"x">>, <<ThrowS(1)>>), ListE(<<A>>)>>))>>),
  But(S(<<ClassS("I", "", <<>>, <<MethodS("__init__", <<>>, <<ThrowS(4)>>)>>)>>, <<SetB(Call1("I", <<>>))>>), {"try"}),
  S(<<ClassP>>, <<Var("p", Call1("P", <<A>>)), DeferS(Field(V("p"), "put"), <<K(3)>>), Var("q", ListE(<<K(1)>>)), DeferS(Field(V("q"), "push"), <<A>>), SetB(V("q")),
       DeferS(Lambda(<<>>, <<GlobalS("g"), Var("g", Meth(V("p"), "get", <<>>))>>), <<>>)>>)
>>

-----------------------------------------------------------------------------
(* Where a snippet can stand, by name: a program of the statements before  *)
(* main and of main's own.                                                 *)
Program1(top, body) ==
  top \o <<FnS("main", <<"a">>, <<Var("b", K(0)), Var("c", Lambda(<<"r">>, <<Ret(<<V("r")>>)>>))>> \o body
                                \o <<Ret(<<A, B, V("g")>>)>>),
           Var("result", Call1("main", <<K(1)>>))>>
(* The snippet in a function of its own.                                   *)
Locals == <<SetB(K(0)), SetC(K(0))>>
AB == Ret(<<A, B>>)
Own(s, names, end) == Lambda(names, Locals \o s.body \o end)
InContext(s, context) ==
  CASE context = "main" -> Program1(s.top, s.body)
    [] context = "try" -> Program1(s.top, <<TryS(s.body, <<Except("Error", "z", <<SetC(Field(V("z"), "type"))>>)>>, <<Inc("a", K(1))>>)>>)
    [] context = "loop" -> Program1(s.top, <<Var("w", K(0)), WhileS(Less(V("w"), K(2)), <<Inc("w", K(1))>> \o s.body)>>)
    [] context = "defer" ->
         Program1(s.top, <<DeferS(Own(s, <<"a">>, <<GlobalS("g"), Var("g", ListE(<<A, B>>))>>), <<K(2)>>), Ret(<<K(5)>>)>>)
    [] context = "callback" -> Program1(s.top, <<SetB(Call1("map", <<Own(s, <<"a">>, <<AB>>), ListE(<<A, K(4)>>)>>))>>)
    [] context = "generator" ->
         Program1(s.top, <<ForS(<<"i">>, CallE(Own(s, <<"a">>, <<YieldS(B), YieldS(A)>>), <<A>>), <<SetC(B), SetB(V("i"))>>)>>)
    [] context = "method" ->
         Program1(s.top \o <<ClassS("Z", "", <<>>, <<FnS("__add__", <<"self", "a">>, Locals \o s.body \o <<AB>>)>>)>>,
                  <<SetB(Plus(Call1("Z", <<>>), A))>>)
Contexts == <<"main", "try", "loop", "defer", "callback", "generator", "method">>

(* The code is what the compiler makes of what the parser reads.           *)
Compiled(tree) ==
  LET read == Parse(Lines(LinesText(tree)))
      code == Compile(read.tree)
  IN  [fns |-> code.fns, bad |-> read.bad \/ code.bad, means |-> Means(tree), written |-> <<>>, read |-> <<>>,
       handles |-> FALSE]

(* Phrases are only read.                                                  *)
Reading(tree) ==
  [fns |-> Compile(<<>>).fns, bad |-> FALSE, means |-> Means(<<>>), written |-> [bad |-> FALSE, tree |-> tree],
   read |-> Readings(tree), handles |-> FALSE]
Misreading(text) ==
  [Reading(<<>>) EXCEPT !.written = [bad |-> TRUE, tree |-> <<>>], !.read = <<Read(<<"a = " \o text>>)>>]

Unfit == [fns |-> <<>>, bad |-> TRUE, means |-> <<>>, written |-> <<>>, read |-> <<>>, handles |-> FALSE]

(* A value of each type, some that are equal or the same, for C.           *)
True == [k |-> "const", v |-> Bool(TRUE)]
False == [k |-> "const", v |-> Bool(FALSE)]
NilK == [k |-> "const", v |-> Nil]
Embedded == <<
  ClassP, Var("p", Call1("P", <<K(1)>>)), Var("d", ListE(<<K(2), Text1, K(2)>>)),
  Var("result", ListE(<<NilK, True, False, K(0), K(2), Text1, Plus(Text1, Plus(Text2, Text1)), Text2,
                        TupleE(<<>>), TupleE(<<K(2), Text1>>), TupleE(<<D>>), ListE(<<>>), D, ListE(<<K(2), Text1, K(2)>>),
                        DictE(<<>>), DictE(<<<<Text1, D>>, <<Text2, NilK>>>>), SetE(<<K(2), K(3)>>),
                        V("p"), G("P"), G("Error"), CallOf(G("Error"), <<Text1>>), Fn1(X1), G("len"), Call1("range", <<K(2)>>)>>))>>
ForC == [Compiled(Embedded) EXCEPT !.handles = TRUE]

(* Pairs of the first snippets.  Not those that the README lists as        *)
(* divergences: a defer before a throw that is caught, and a comprehension *)
(* where the stack holds more, or less, than the locals declared so far.   *)
Deferring == {22, 23}
Catching == {18, 36, 41}
Unbalancing == {10, 14}
Comprehending == {31, 32}
Fits(i, j) == /\ ~(i \in Deferring /\ j \in Catching)
              /\ ~(i \in Unbalancing /\ j \in Comprehending)
OldInstance(p) == IF Fits(p[1], p[2]) THEN Compiled(Program1(<<>>, <<Old[p[1]], Old[p[2]]>>)) ELSE Unfit
DataInstance(s, context) == IF context \in s.unfit THEN Unfit ELSE Compiled(InContext(s, context))

(* Each of Data before the Near that follow it.                            *)
Near == 10
Neighbours(p) ==
  LET s == Data[p[1]]
      t == Data[1 + ((p[1] + p[2] - 1) % Len(Data))]
  IN  Compiled(Program1(s.top \o t.top, s.body \o <<Var("o", B), SetB(K(0))>> \o t.body \o <<SetB(ListE(<<V("o"), B>>))>>))

(* What is of a kind is numbered one after the other.                      *)
NumPairs == Len(Old) * Len(Old)
NumData == Len(Data) * Len(Contexts)
NumNear == Len(Data) * Near
NumInstances == NumPairs + NumData + NumNear + NumPhrases + Len(Misspelt) + 1
Instance(i) ==
  LET m == i - NumPairs
      n == m - NumData
      o == n - NumNear
      p == Pair(m, Len(Contexts))
  IN  CASE i <= NumPairs -> OldInstance(Pair(i, Len(Old)))
        [] i > NumPairs /\ m <= NumData -> DataInstance(Data[p[1]], Contexts[p[2]])
        [] m > NumData /\ n <= NumNear -> Neighbours(Pair(n, Near))
        [] n > NumNear /\ o <= NumPhrases -> Reading(Phrase(o))
        [] o > NumPhrases /\ o <= NumPhrases + Len(Misspelt) -> Misreading(Misspelt[o - NumPhrases])
        [] OTHER -> ForC
=============================================================================
