------------------------------ MODULE Phrases ------------------------------
(* Trees that try the grammar: each operator as an operand of each other,  *)
(* each statement after each other in a block.                             *)
EXTENDS Grammar

X(name) == [k |-> "name", name |-> name]
LiteralOf(type, v) == [k |-> "const", v |-> [t |-> type, v |-> v]]
NumberE(n) == LiteralOf("int", n)
Body == <<[k |-> "expr", e |-> CallOf(X("f"), <<>>)]>>
FnE == [k |-> "fn", params |-> <<[name |-> "p", default |-> <<NumberE(1)>>, rest |-> FALSE],
                                 [name |-> "q", default |-> <<>>, rest |-> TRUE]>>, body |-> Body]

(* Operators: the operators of a level bind alike, so that two of each do. *)
BinarySymbols == <<"or", "and", "==", "in", "|", "^", "&", "<<", ">>", "+", "-", "*", "%", "**">>
UnarySymbols == <<"not", "-", "~", "<-">>

(* The operators on given operands, n of them to choose from.              *)
NumOps == Len(BinarySymbols) + Len(UnarySymbols) + 16
Operator(n, a, b) ==
  LET m == n - Len(BinarySymbols) - Len(UnarySymbols)
  IN  CASE n <= Len(BinarySymbols) -> Bin(BinarySymbols[n], a, b)
        [] m <= 0 -> Un(UnarySymbols[n - Len(BinarySymbols)], a)
        [] m = 1 -> Tern(a, b, X("c"))
        [] m = 2 -> Tern(X("c"), a, b)
        [] m = 3 -> AssignOf(X("c"), "+=", a)
        [] m = 4 -> AssignOf(ItemOf(X("c"), a), "=", b)
        [] m = 5 -> SendOf(a, b)
        [] m = 6 -> AwaitOf(a)
        [] m = 7 -> GoOf(CallOf(a, <<b>>))
        [] m = 8 -> CallOf(a, <<X("c"), b>>)
        [] m = 9 -> SliceOf(a, <<b>>, <<>>, <<X("c")>>)
        [] m = 10 -> MemberOf(a, "c")
        [] m = 11 -> [k |-> "tuple", es |-> <<a, b>>]
        [] m = 12 -> [k |-> "dict", pairs |-> <<<<a, b>>, <<b, a>>>>]
        [] m = 13 -> CompOf("comp", a, <<[names |-> <<"x">>, e |-> b]>>, <<a>>)
        [] m = 14 -> CompOf("dictcomp", <<a, b>>, <<[names |-> <<"x", "y">>, e |-> X("c")],
                                                   [names |-> <<"z">>, e |-> a]>>, <<>>)
        [] m = 15 -> CompOf("gencomp", b, <<[names |-> <<"x">>, e |-> a]>>, <<b>>)
        [] m = 16 -> [k |-> "yield", e |-> <<a>>]
A1 == X("a")
B1 == X("b")
Assigned(e) == [k |-> "var", name |-> "v", e |-> e]
Nestings(n, m) ==
  <<Assigned(Operator(n, Operator(m, A1, B1), B1)), Assigned(Operator(n, A1, Operator(m, A1, B1))),
    Assigned(Operator(n, Operator(m, A1, B1), Operator(m, B1, A1)))>>

(* a < b == c: the operand between is in both comparisons.                 *)
Chain == Binary2("and", Binary2("<", A1, B1), Binary2("==", B1, X("c")))

(* Statements, each the last or not the last of its block.                 *)
Statement == <<
  Assigned(A1), Assigned(FnE), Assigned([k |-> "set", es |-> <<A1>>]),
  Assigned([k |-> "tuple", es |-> <<A1>>]), Assigned([k |-> "nil"]),
  Assigned([k |-> "list", es |-> [n \in 1..6 |-> NumberE(<<0, 8, 10, 255, 1023, MaxLiteral>>[n])]]),
  Assigned([k |-> "list", es |-> <<LiteralOf("float", <<"1", "50", "">>), LiteralOf("float", <<"0", "25", "-03">>),
                                   LiteralOf("float", <<"10", "", "+9">>), LiteralOf("bool", 1), LiteralOf("bool", 0)>>]),
  Assigned(Bin("+", LiteralOf("str", <<"a", " ", "\"", "\\", "#", "{">>), LiteralOf("str", <<"\n", "\t", "\r", "NUL">>))),
  [k |-> "expr", e |-> CallOf(MemberOf(X("x_1"), "match"), <<LiteralOf("str", <<>>)>>)],
  [k |-> "const", name |-> "K", e |-> NumberE(1)],
  AssignOf(X("a"), "+=", B1), AssignOf(MemberOf(X("self"), "a"), "=", B1),
  AssignOf([k |-> "tuple", es |-> <<X("a"), ItemOf(X("b"), NumberE(0))>>], "=", X("c")),
  Body[1],
  [k |-> "expr", e |-> CallOf([k |-> "super", name |-> "m"], <<A1>>)],
  [k |-> "expr", e |-> SendOf(A1, B1)],
  [k |-> "expr", e |-> [k |-> "yieldfrom", e |-> A1]],
  [k |-> "expr", e |-> GoOf(CallOf(A1, <<>>))],
  [k |-> "if", arms |-> <<[c |-> Bin("<", A1, B1), body |-> Body]>>, other |-> <<>>],
  [k |-> "if", arms |-> <<[c |-> A1, body |-> Body], [c |-> Chain, body |-> <<>>]>>, other |-> Body],
  [k |-> "while", c |-> Un("not", A1), body |-> <<[k |-> "break"]>>],
  [k |-> "for", names |-> <<"x", "y">>, e |-> X("xs"), body |-> <<[k |-> "continue"], Body[1]>>],
  [k |-> "return", es |-> <<A1, B1>>],
  [k |-> "return", es |-> <<FnE>>],
  [k |-> "throw", e |-> <<Tern(A1, B1, A1)>>],
  [k |-> "defer", e |-> CallOf(FnE, <<>>)],
  [k |-> "nonlocal", names |-> {"a", "b"}],
  [k |-> "fn", name |-> "g", params |-> FnE.params, body |-> Body],
  [k |-> "asyncfn", name |-> "g", params |-> <<>>, body |-> <<[k |-> "expr", e |-> AwaitOf(A1)]>>],
  [k |-> "try", body |-> Body, clauses |-> <<[type |-> <<"m", "E">>, alias |-> "x", body |-> Body],
     [type |-> <<>>, alias |-> "", body |-> <<[k |-> "throw", e |-> <<>>]>>]>>, finally |-> Body],
  [k |-> "try", body |-> <<>>, clauses |-> <<>>, finally |-> Body],
  [k |-> "with", e |-> CallOf(A1, <<>>), alias |-> "x", body |-> Body],
  [k |-> "class", name |-> "C", parent |-> "D", vars |-> <<<<"x", FnE>>, <<"y", Bin("+", A1, B1)>>>>,
     methods |-> <<[k |-> "fn", name |-> "m", params |-> <<[name |-> "self", default |-> <<>>, rest |-> FALSE]>>,
                    body |-> Body]>>],
  [k |-> "decorated", by |-> CallOf(X("d"), <<A1>>),
     target |-> [k |-> "decorated", by |-> X("d"), target |-> [k |-> "fn", name |-> "g", params |-> <<>>, body |-> <<>>]]],
  [k |-> "import", path |-> <<"m", "n">>, alias |-> "x", std |-> TRUE],
  [k |-> "fromimport", path |-> <<"m">>, targets |-> <<<<"x", "y">>, <<"z", "">>>>, std |-> FALSE],
  [k |-> "select", cases |-> <<[op |-> [k |-> "receive", ch |-> "c", target |-> "x"], body |-> Body],
     [op |-> [k |-> "send", ch |-> "c", e |-> FnE], body |-> <<>>]>>, default |-> <<Body>>]
>>

(* A statement and another one, in a block and not.  None begins as an     *)
(* operator would go on: see the README.                                   *)
InBlock(n, m) ==
  LET body == <<Statement[n], Statement[m]>>
  IN  Append(body, [k |-> "while", c |-> A1, body |-> body])

(* What 01-lexical.md:48-102 does not allow.                               *)
Misspelt == <<"007", "00.5", "0x", "0xg", "0b", "0b2", "0o8", "1e", "1.5e+", ".5", "5.", "2048", "0x800", "\"b", "\"b\\",
              "\"\\q\"", "\"\r\"", "'b'", "!b", "b $ c", "match", "a b\\c">>

(* The i-th pair of numbers in 1..n.                                       *)
Pair(i, n) == <<1 + ((i - 1) \div n), 1 + ((i - 1) % n)>>

NumNestings == NumOps * NumOps
NumPhrases == NumNestings + Len(Statement) * Len(Statement)
Phrase(i) ==
  IF i <= NumNestings THEN LET p == Pair(i, NumOps) IN Nestings(p[1], p[2])
  ELSE LET p == Pair(i - NumNestings, Len(Statement)) IN InBlock(p[1], p[2])
=============================================================================
