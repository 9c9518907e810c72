------------------------------ MODULE Grammar ------------------------------
(***************************************************************************)
(* How a tree is written: what the language's documentation says of        *)
(* precedence (docs/mslang/03-syntax.md:569-589) and of the end of a line  *)
(* (03-syntax.md:3-14), as the reference that Parser is checked against.   *)
(*                                                                         *)
(* Trees are made so that an operand that binds weaker than its place asks *)
(* for stands in parentheses.  A text is a sequence of [t, v] that has     *)
(* Break where a line ends.                                                *)
(***************************************************************************)
EXTENDS Parser

(* The table of precedences.  await and go, which it does not have, bind   *)
(* like a power, yield like an assignment.                                 *)
BinaryPrec(op) ==
  CASE op = "or" -> 3 [] op = "and" -> 4 [] op \in Comparisons -> 6
    [] op = "|" -> 7 [] op = "^" -> 8 [] op = "&" -> 9 [] op \in {"<<", ">>"} -> 10
    [] op \in {"+", "-"} -> 11 [] op \in {"*", "/", "//", "%"} -> 12 [] op = "**" -> 14
Prec(e) ==
  CASE e.k \in {"assign", "send", "yield", "yieldfrom"} -> 1
    [] e.k = "ternary" -> 2
    [] e.k \in {"and", "or"} -> BinaryPrec(e.k)
    [] e.k = "binary" -> BinaryPrec(e.op)
    [] e.k = "unary" -> IF e.op = "not" THEN 5 ELSE 13
    [] e.k \in {"await", "go"} -> 14
    [] OTHER -> 15
Tight(e, p) == IF Prec(e) >= p THEN e ELSE [k |-> "group", e |-> e]

(* Binary operators associate to the left, power to the right; a chain of  *)
(* comparisons has its own tree, so that an operand is never one.          *)
Bin(op, l, r) ==
  LET p == BinaryPrec(op)
  IN  Binary2(op, Tight(l, IF op = "**" THEN 15 ELSE IF op \in Comparisons THEN 7 ELSE p),
                  Tight(r, IF op = "**" THEN 13 ELSE p + 1))
Un(op, e) == Unary1(op, Tight(e, IF op = "not" THEN 5 ELSE 13))
Tern(c, y, n) == [k |-> "ternary", c |-> Tight(c, 3), y |-> Tight(y, 3), n |-> Tight(n, 2)]
AssignOf(target, op, e) == [k |-> "assign", target |-> target, op |-> op, e |-> e]
SendOf(ch, e) == [k |-> "send", ch |-> Tight(ch, 2), e |-> e]
AwaitOf(e) == [k |-> "await", e |-> Tight(e, 14)]
GoOf(e) == [k |-> "go", e |-> Tight(e, 15)]
CallOf(f, args) == [k |-> "call", f |-> Tight(f, 15), args |-> args]
ItemOf(e, i) == [k |-> "index", e |-> Tight(e, 15), i |-> i]
MemberOf(e, name) == [k |-> "dot", e |-> Tight(e, 15), name |-> name]
SliceOf(e, start, stop, step) == [k |-> "slice", e |-> Tight(e, 15), start |-> start, stop |-> stop, step |-> step]
CompOf(k, e, clauses, cond) ==
  [k |-> k, e |-> e,
   clauses |-> [i \in DOMAIN clauses |-> [clauses[i] EXCEPT !.e = Tight(@, 3)]],
   cond |-> [i \in DOMAIN cond |-> Tight(cond[i], 3)]]

-----------------------------------------------------------------------------
(* The text of a tree.                                                     *)
Item(t, v) == [t |-> t, v |-> v]
Mark(t) == <<Item(t, 0)>>
NameText(name) == IF name = "self" THEN Mark("self") ELSE <<Item("name", name)>>
Break == Item("end of line", 0)

RECURSIVE Separated(_, _)
Separated(texts, by) ==
  IF Len(texts) <= 1 THEN FlattenSeq(texts) ELSE Head(texts) \o Mark(by) \o Separated(Tail(texts), by)
Within(open, text, close) == Mark(open) \o text \o Mark(close)
NamesText(names, by) == Separated([i \in DOMAIN names |-> NameText(names[i])], by)
Alias(name) == IF name = "" THEN <<>> ELSE Mark("as") \o NameText(name)

RECURSIVE TextOf(_), BlockText(_), StatementText(_)
Texts(es) == [i \in DOMAIN es |-> TextOf(es[i])]
Maybe(before, e) == IF e = <<>> THEN <<>> ELSE before \o TextOf(e[1])
CommaTexts(es) == Separated(Texts(es), ",")
(* One element alone, in braces or parentheses, would be grouped.          *)
Listed(es) == CommaTexts(es) \o (IF Len(es) = 1 THEN Mark(",") ELSE <<>>)
TupleText(es) == Within("(", Listed(es), ")")

ParamText(p) ==
  (IF p.rest THEN Mark("*") ELSE <<>>) \o NameText(p.name) \o Maybe(Mark("="), p.default)
FunctionText(f) ==
  Within("(", Separated([i \in DOMAIN f.params |-> ParamText(f.params[i])], ","), ")") \o BlockText(f.body)

ClausesText(e) ==
  FlattenSeq([i \in DOMAIN e.clauses |->
    Mark("for") \o NamesText(e.clauses[i].names, ",") \o Mark("in") \o TextOf(e.clauses[i].e)])
  \o Maybe(Mark("if"), e.cond)
PairText(pair) == TextOf(pair[1]) \o Mark(":") \o TextOf(pair[2])

TextOf(e) ==
  CASE e.k = "const" -> <<Item("value", e.v)>>
    [] e.k = "nil" -> Mark("nil")
    [] e.k = "name" -> NameText(e.name)
    [] e.k = "super" -> Mark("super") \o Mark(".") \o NameText(e.name)
    [] e.k = "group" -> Within("(", TextOf(e.e), ")")
    [] e.k = "binary" -> TextOf(e.l) \o Mark(e.op) \o TextOf(e.r)
    [] e.k \in {"and", "or"} -> TextOf(e.l) \o Mark(e.k) \o TextOf(e.r)
    [] e.k = "unary" -> Mark(e.op) \o TextOf(e.e)
    [] e.k = "ternary" -> TextOf(e.y) \o Mark("if") \o TextOf(e.c) \o Mark("else") \o TextOf(e.n)
    [] e.k = "assign" -> TextOf(e.target) \o Mark(e.op) \o TextOf(e.e)
    [] e.k = "send" -> TextOf(e.ch) \o Mark("<-") \o TextOf(e.e)
    [] e.k \in {"await", "go"} -> Mark(e.k) \o TextOf(e.e)
    [] e.k = "yield" -> Mark("yield") \o Maybe(<<>>, e.e)
    [] e.k = "yieldfrom" -> Mark("yield") \o Mark("from") \o TextOf(e.e)
    [] e.k = "call" -> TextOf(e.f) \o Within("(", CommaTexts(e.args), ")")
    [] e.k = "index" -> TextOf(e.e) \o Within("[", TextOf(e.i), "]")
    [] e.k = "dot" -> TextOf(e.e) \o Mark(".") \o NameText(e.name)
    [] e.k = "slice" ->
         TextOf(e.e) \o Within("[", Maybe(<<>>, e.start) \o Mark(":") \o Maybe(<<>>, e.stop)
                                  \o Maybe(Mark(":"), e.step), "]")
    [] e.k = "list" -> Within("[", CommaTexts(e.es), "]")
    [] e.k = "set" -> Within("{", Listed(e.es), "}")
    [] e.k = "tuple" -> TupleText(e.es)
    [] e.k = "dict" -> Within("{", Separated([i \in DOMAIN e.pairs |-> PairText(e.pairs[i])], ","), "}")
    [] e.k = "fn" -> Mark("fn") \o FunctionText(e)
    [] e.k = "comp" -> Within("[", TextOf(e.e) \o ClausesText(e), "]")
    [] e.k = "setcomp" -> Within("{", TextOf(e.e) \o ClausesText(e), "}")
    [] e.k = "dictcomp" -> Within("{", PairText(e.e) \o ClausesText(e), "}")
    [] e.k = "gencomp" -> Within("(", TextOf(e.e) \o ClausesText(e), ")")

(* Each statement of a block ends its line.                                *)
LinesText(stmts) == FlattenSeq([i \in DOMAIN stmts |-> StatementText(stmts[i]) \o <<Break>>])
BlockText(stmts) == Mark("{") \o <<Break>> \o LinesText(stmts) \o Mark("}")

ExceptText(clause) ==
  Mark("except") \o NamesText(clause.type, ".") \o Alias(clause.alias) \o BlockText(clause.body)
CaseText(case) ==
  Mark("case")
  \o (IF case.op.k = "send" THEN NameText(case.op.ch) \o Mark("<-") \o TextOf(case.op.e)
      ELSE NameText(case.op.target) \o Mark("=") \o Mark("<-") \o NameText(case.op.ch))
  \o BlockText(case.body) \o <<Break>>
ModuleText(s) == (IF s.std THEN Mark("@") \o NameText("std") ELSE <<>>) \o NamesText(s.path, ".")
TargetText(target) == NameText(target[1]) \o Alias(target[2])
ClassText(s) ==
  Mark("class") \o NameText(s.name) \o (IF s.parent = "" THEN <<>> ELSE Mark("<") \o NameText(s.parent))
  \o Mark("{") \o <<Break>>
  \o FlattenSeq([i \in DOMAIN s.vars |-> NameText(s.vars[i][1]) \o Mark("=") \o TextOf(s.vars[i][2]) \o <<Break>>])
  \o LinesText(s.methods) \o Mark("}")

StatementText(s) ==
  CASE s.k = "expr" -> TextOf(s.e)
    [] s.k = "assign" /\ s.target.k = "tuple" -> CommaTexts(s.target.es) \o Mark("=") \o TextOf(s.e)
    [] s.k = "assign" -> TextOf(s)
    [] s.k = "var" -> NameText(s.name) \o Mark("=") \o TextOf(s.e)
    [] s.k = "const" -> Mark("const") \o NameText(s.name) \o Mark("=") \o TextOf(s.e)
    [] s.k = "if" ->
         Mark("if") \o Separated([i \in DOMAIN s.arms |-> TextOf(s.arms[i].c) \o BlockText(s.arms[i].body)], "elif")
         \o (IF s.other = <<>> THEN <<>> ELSE Mark("else") \o BlockText(s.other))
    [] s.k = "while" -> Mark("while") \o TextOf(s.c) \o BlockText(s.body)
    [] s.k = "for" -> Mark("for") \o NamesText(s.names, ",") \o Mark("in") \o TextOf(s.e) \o BlockText(s.body)
    [] s.k \in {"break", "continue"} -> Mark(s.k)
    [] s.k = "return" -> Mark("return") \o CommaTexts(s.es)
    [] s.k = "throw" -> Mark("throw") \o Maybe(<<>>, s.e)
    [] s.k = "defer" -> Mark("defer") \o TextOf(s.e)
    [] s.k \in {"nonlocal", "global"} -> Mark(s.k) \o NamesText(SetToSeq(s.names), ",")
    [] s.k = "fn" -> Mark("fn") \o NameText(s.name) \o FunctionText(s)
    [] s.k = "asyncfn" -> Mark("async") \o Mark("fn") \o NameText(s.name) \o FunctionText(s)
    [] s.k = "try" ->
         Mark("try") \o BlockText(s.body) \o FlattenSeq([i \in DOMAIN s.clauses |-> ExceptText(s.clauses[i])])
         \o (IF s.finally = <<>> THEN <<>> ELSE Mark("finally") \o BlockText(s.finally))
    [] s.k = "with" -> Mark("with") \o TextOf(s.e) \o Alias(s.alias) \o BlockText(s.body)
    [] s.k = "class" -> ClassText(s)
    [] s.k = "decorated" -> Mark("@") \o TextOf(s.by) \o <<Break>> \o StatementText(s.target)
    [] s.k = "import" -> Mark("import") \o ModuleText(s) \o Alias(s.alias)
    [] s.k = "fromimport" ->
         Mark("from") \o ModuleText(s) \o Mark("import")
         \o Separated([i \in DOMAIN s.targets |-> TargetText(s.targets[i])], ",")
    [] s.k = "select" ->
         Mark("select") \o Mark("{") \o <<Break>> \o FlattenSeq([i \in DOMAIN s.cases |-> CaseText(s.cases[i])])
         \o (IF s.default = <<>> THEN <<>> ELSE Mark("default") \o BlockText(s.default[1]) \o <<Break>>) \o Mark("}")

-----------------------------------------------------------------------------
(* The lines of a text; line breaks after operators, commas and opening    *)
(* brackets, and empty lines, change nothing.                              *)
RECURSIVE LinesFrom(_, _, _), EndOfLine(_, _)
EndOfLine(text, i) == IF text[i].t = Break.t THEN i ELSE EndOfLine(text, i + 1)
LinesFrom(text, i, n) ==
  IF i > Len(text) THEN <<>>
  ELSE LET end == EndOfLine(text, i)
           line == [j \in 1..(end - i) |-> [t |-> text[i + j - 1].t, v |-> text[i + j - 1].v, line |-> n]]
       IN  <<line>> \o LinesFrom(text, end + 1, n + 1)
Lines(text) == LinesFrom(text, 1, 1)
Unfinished == AssignOps \cup Arithmetic \cup Comparisons \cup {"and", "or", "not", ",", Break.t} \cup Opens
RECURSIVE Stretched(_, _)
Stretched(text, i) ==
  IF i > Len(text) THEN <<>>
  ELSE <<text[i]>> \o (IF text[i].t \in Unfinished THEN <<Break>> ELSE <<>>) \o Stretched(text, i + 1)

-----------------------------------------------------------------------------
(* The characters of a text (docs/mslang/01-lexical.md).  Two words need a *)
(* space between them, two symbols where the longest match (303-311) would *)
(* run on into the second.  A style is plain, numbers in decimal and only  *)
(* the spaces that are needed, or not: other bases, spaces, comments.      *)
Symbols == AssignOps \cup Arithmetic \cup (Comparisons \ {"in", "is"})
             \cup {"~", "..", "...", "(", ")", "[", "]", "{", "}", ",", ".", ":", ";", "->", "@", "<-", ":="}
RunsOn(a, b) ==
  \/ CharAt(a, Len(a)) \in WordChars /\ CharAt(b, 1) \in WordChars
  \/ {a, b} \subseteq Symbols
     /\ \E op \in Symbols : Len(op) > Len(a) /\ Slice(op, 1, Len(a) + 2) = a \o CharAt(b, 1)

RECURSIVE InBase(_, _), SpeltString(_), SpeltLine(_, _, _, _)
InBase(n, base) == (IF n < base THEN "" ELSE InBase(n \div base, base)) \o CharAt(HexDigits, (n % base) + 1)
SpeltInt(n, plain) ==
  IF plain THEN InBase(n, 10)
  ELSE CASE n % 3 = 0 -> "0x" \o InBase(n, 16) [] n % 3 = 1 -> "0B" \o InBase(n, 2) [] n % 3 = 2 -> "0o" \o InBase(n, 8)
SpeltFloat(f, plain) ==
  f[1] \o (IF f[2] = "" THEN "" ELSE "." \o f[2]) \o (IF f[3] = "" THEN "" ELSE (IF plain THEN "e" ELSE "E") \o f[3])
SpeltChar(c) ==
  CASE c = "\n" -> "\\n" [] c = "\t" -> "\\t" [] c = "\r" -> "\\r" [] c = "NUL" -> "\\0"
    [] c \in {"\"", "\\"} -> "\\" \o c [] OTHER -> c
SpeltString(chars) == IF chars = <<>> THEN "\"" ELSE SpeltString(Front(chars)) \o SpeltChar(Last(chars))
Spelt(item, plain) ==
  CASE item.t = "name" -> item.v
    [] item.t = "value" ->
         (CASE item.v.t = "int" -> SpeltInt(item.v.v, plain)
            [] item.v.t = "float" -> SpeltFloat(item.v.v, plain)
            [] item.v.t = "bool" -> (IF item.v.v = 1 THEN "true" ELSE "false")
            [] item.v.t = "str" -> SpeltString(item.v.v) \o "\"")
    [] OTHER -> item.t

SpeltLine(line, i, before, plain) ==
  IF i > Len(line) THEN IF plain THEN "" ELSE " # \"(!"
  ELSE LET word == Spelt(line[i], plain)
           space == IF ~plain THEN " \t" ELSE IF i > 1 /\ RunsOn(before, word) THEN " " ELSE ""
       IN  space \o word \o SpeltLine(line, i + 1, word, plain)
RECURSIVE SpeltLines(_, _)
SpeltLines(lines, plain) ==
  IF lines = <<>> THEN <<>> ELSE <<SpeltLine(Head(lines), 1, "", plain)>> \o SpeltLines(Tail(lines), plain)

(* What is read of the two ways to write a tree.                           *)
Readings(tree) ==
  LET text == LinesText(tree)
  IN  <<Read(SpeltLines(Lines(text), TRUE)), Read(SpeltLines(Lines(Stretched(text, 1)), FALSE))>>
=============================================================================
