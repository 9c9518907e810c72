------------------------------- MODULE Parser -------------------------------
(***************************************************************************)
(* The parser: from the tokens of a program to the syntax trees that       *)
(* Codegen compiles.                                                       *)
(*                                                                         *)
(* A parse function takes the tokens and a position and returns where it   *)
(* stopped and what it found.  At position 0 no token stands, so that      *)
(* whatever goes on from an error stays there.  An optional part of a tree *)
(* is a sequence of none or one.                                           *)
(***************************************************************************)
EXTENDS Lexer

(* Reading tokens.                                                         *)
Kind(ts, i) == IF i \in DOMAIN ts THEN ts[i].t ELSE IF i = 0 THEN "error" ELSE "eof"
Check(ts, i, t) == Kind(ts, i) = t
Expect(ts, i, t) == IF Check(ts, i, t) THEN i + 1 ELSE 0
Match(ts, i, t) == IF Check(ts, i, t) THEN i + 1 ELSE i
ExpectName(ts, i) == IF Check(ts, i, "name") THEN Found(i + 1, ts[i].v) ELSE Error
(* The name of a member may be a reserved word.                            *)
MemberName(ts, i) == IF Check(ts, i, "reserved") THEN Found(i + 1, ts[i].v) ELSE ExpectName(ts, i)

RECURSIVE SkipNewlines(_, _)
SkipNewlines(ts, i) == IF Check(ts, i, Newline) THEN SkipNewlines(ts, i + 1) ELSE i
ConsumeNewline(ts, i) == Match(ts, i, Newline)

(* A statement may end here without a value: return, yield, throw.         *)
EndsStatement(ts, i) == Kind(ts, i) \in {Newline, "}", "eof"}

RECURSIVE ParseNames(_, _)
ParseNames(ts, i) ==
  LET first == ExpectName(ts, i)
      more == ParseNames(ts, first.at + 1)
  IN  IF Check(ts, first.at, ",") THEN Found(more.at, <<first.e>> \o more.e) ELSE Found(first.at, <<first.e>>)

-----------------------------------------------------------------------------
(* Expressions, from the lowest precedence to the highest.                 *)
RECURSIVE ParseAssignment(_, _), ParseTernary(_, _), ParseLevel(_, _, _), ParseMore(_, _, _),
          ParseChain(_, _, _), ParseUnary(_, _), ParsePower(_, _), ParsePostfix(_, _),
          ParseOperators(_, _), ParsePrimary(_, _), ParseElements(_, _, _), ParsePairs(_, _),
          ParseMorePairs(_, _),
          ParseBlock(_, _), ParseStatements(_, _, _), ParseStatement(_, _), ParseClauses(_, _),
          ParseParams(_, _), ParseDecorated(_, _), ParseArguments(_, _)
ParseExpression(ts, i) == ParseAssignment(ts, i)

Binary2(op, l, r) == IF op \in {"and", "or"} THEN [k |-> op, l |-> l, r |-> r]
                     ELSE [k |-> "binary", op |-> op, l |-> l, r |-> r]
Unary1(op, e) == [k |-> "unary", op |-> op, e |-> e]

(* Assignments and sends associate to the right.                           *)
ParseAssignment(ts, i) ==
  LET left == ParseTernary(ts, i)
      op == Kind(ts, left.at)
      right == ParseAssignment(ts, left.at + 1)
  IN  IF op \in AssignOps THEN Found(right.at, [k |-> "assign", target |-> left.e, op |-> op, e |-> right.e])
      ELSE IF op = "<-" THEN Found(right.at, [k |-> "send", ch |-> left.e, e |-> right.e])
      ELSE left

(* The if of a ternary stands on the line of the token before it: inside   *)
(* of a block no newline says that a statement begins there.               *)
SameLine(ts, i) == ts[i].line = ts[i - 1].line
ParseTernary(ts, i) ==
  LET yes == ParseLevel(ts, i, 1)
      test == ParseLevel(ts, yes.at + 1, 1)
      no == ParseTernary(ts, Expect(ts, test.at, "else"))
  IN  IF Check(ts, yes.at, "if") /\ SameLine(ts, yes.at)
        THEN Found(no.at, [k |-> "ternary", c |-> test.e, y |-> yes.e, n |-> no.e])
      ELSE yes

(* The levels of binary operators, which associate to the left; the third  *)
(* is not, the fourth the comparisons, above the last are the unary ones.  *)
(* The functions of the levels, each of which calls that of the next one   *)
(* for its operands, are one here: what binds at least as strong as n.     *)
Levels == <<{"or"}, {"and"}, {}, Comparisons, {"|"}, {"^"}, {"&"}, {"<<", ">>"}, {"+", "-"},
            {"*", "/", "//", "%"}>>
LevelOf(op) == SelectInSeq(Levels, LAMBDA ops : op \in ops)
ParseOr(ts, i) == ParseLevel(ts, i, 1)
ParseLevel(ts, i, n) ==
  LET negated == ParseLevel(ts, i + 1, 3)
  IN  IF n <= 3 /\ Check(ts, i, "not") THEN ParseMore(ts, Found(negated.at, Unary1("not", negated.e)), n)
      ELSE ParseMore(ts, ParseUnary(ts, i), n)
ParseMore(ts, left, n) ==
  LET op == Kind(ts, left.at)
      right == ParseLevel(ts, left.at + 1, LevelOf(op) + 1)
      both == Found(right.at, Binary2(op, left.e, right.e))
  IN  IF LevelOf(op) < n THEN left
      ELSE ParseMore(ts, IF op \in Comparisons THEN ParseChain(ts, both, right.e) ELSE both, n)

(* a < b < c is a < b and b < c: the operand between is there twice.       *)
ParseChain(ts, left, between) ==
  LET op == Kind(ts, left.at)
      right == ParseLevel(ts, left.at + 1, LevelOf(op) + 1)
  IN  IF op \notin Comparisons THEN left
      ELSE ParseChain(ts, Found(right.at, Binary2("and", left.e, Binary2(op, between, right.e))), right.e)

ParseUnary(ts, i) ==
  LET operand == ParseUnary(ts, i + 1)
  IN  IF Kind(ts, i) \in {"-", "~", "<-"} THEN Found(operand.at, Unary1(Kind(ts, i), operand.e))
      ELSE ParsePower(ts, i)

(* The exponent is a unary expression, and so may be a power itself.       *)
ParsePower(ts, i) ==
  LET base == ParsePostfix(ts, i)
      exponent == ParseUnary(ts, base.at + 1)
  IN  IF Check(ts, base.at, "**") THEN Found(exponent.at, Binary2("**", base.e, exponent.e)) ELSE base

(* A slice has a colon before the bracket that closes it.                  *)
RECURSIVE IsSlice(_, _, _)
IsSlice(ts, i, depth) ==
  CASE Kind(ts, i) \in {"eof", "error"} -> FALSE
    [] Kind(ts, i) \in Opens -> IsSlice(ts, i + 1, depth + 1)
    [] Check(ts, i, "]") /\ depth = 0 -> FALSE
    [] Kind(ts, i) \in Closes -> IsSlice(ts, i + 1, IF depth = 0 THEN 0 ELSE depth - 1)
    [] Check(ts, i, ":") /\ depth = 0 -> TRUE
    [] OTHER -> IsSlice(ts, i + 1, depth)

Optional(ts, i, ends) ==
  LET e == ParseExpression(ts, i)
  IN  IF Kind(ts, i) \in ends THEN Found(i, <<>>) ELSE Found(e.at, <<e.e>>)
ParseSlice(ts, i, object) ==
  LET start == Optional(ts, i, {":"})
      stop == Optional(ts, Expect(ts, start.at, ":"), {"]", ":"})
      step == IF Check(ts, stop.at, ":") THEN Optional(ts, stop.at + 1, {"]"}) ELSE Found(stop.at, <<>>)
  IN  Found(Expect(ts, step.at, "]"),
            [k |-> "slice", e |-> object, start |-> start.e, stop |-> stop.e, step |-> step.e])

ParsePostfix(ts, i) == ParseOperators(ts, ParsePrimary(ts, i))
ParseOperators(ts, left) ==
  LET i == left.at
      args == ParseArguments(ts, SkipNewlines(ts, i + 1))
      index == ParseExpression(ts, i + 1)
      name == MemberName(ts, i + 1)
  IN  CASE Check(ts, i, "(") -> ParseOperators(ts, Found(Expect(ts, args.at, ")"),
                                                        [k |-> "call", f |-> left.e, args |-> args.e]))
        [] Check(ts, i, "[") -> ParseOperators(ts,
             IF IsSlice(ts, i + 1, 0) THEN ParseSlice(ts, i + 1, left.e)
             ELSE Found(Expect(ts, index.at, "]"), [k |-> "index", e |-> left.e, i |-> index.e]))
        [] Check(ts, i, ".") -> ParseOperators(ts, Found(name.at, [k |-> "dot", e |-> left.e, name |-> name.e]))
        [] OTHER -> left

(* Elements, the last of which a comma may follow if `closing` is next;    *)
(* arguments have no such comma.                                           *)
ParseElements(ts, i, closing) ==
  LET one == ParseExpression(ts, i)
      next == SkipNewlines(ts, one.at)
      more == ParseElements(ts, SkipNewlines(ts, next + 1), closing)
  IN  IF Check(ts, i, closing) THEN Found(i, <<>>)
      ELSE IF Check(ts, next, ",") THEN Found(more.at, <<one.e>> \o more.e)
      ELSE Found(next, <<one.e>>)
ParseArguments(ts, i) == IF Check(ts, i, ")") THEN Found(i, <<>>) ELSE ParseElements(ts, i, "none")
(* What follows the first element of a list, a tuple or a set.             *)
ParseRest(ts, first, closing) ==
  LET more == ParseElements(ts, SkipNewlines(ts, first.at + 1), closing)
  IN  IF Check(ts, first.at, ",") THEN Found(more.at, <<first.e>> \o more.e)
      ELSE Found(SkipNewlines(ts, first.at), <<first.e>>)
ParsePairs(ts, i) ==
  LET key == ParseExpression(ts, i)
      value == ParseExpression(ts, Expect(ts, key.at, ":"))
  IN  IF Check(ts, i, "}") THEN Found(i, <<>>) ELSE ParseMorePairs(ts, Found(value.at, <<key.e, value.e>>))
ParseMorePairs(ts, pair) ==
  LET next == SkipNewlines(ts, pair.at)
      more == ParsePairs(ts, SkipNewlines(ts, next + 1))
  IN  IF Check(ts, next, ",") THEN Found(more.at, <<pair.e>> \o more.e) ELSE Found(next, <<pair.e>>)

(* Comprehensions: what is iterated and the condition are or-expressions,  *)
(* since a ternary would take the condition's if.                          *)
ParseClauses(ts, i) ==
  LET names == ParseNames(ts, i + 1)
      over == ParseOr(ts, Expect(ts, names.at, "in"))
      more == ParseClauses(ts, over.at)
  IN  IF Check(ts, i, "for") THEN Found(more.at, <<[names |-> names.e, e |-> over.e]>> \o more.e)
      ELSE Found(i, <<>>)
ParseComprehension(ts, i, k, e, closing) ==
  LET clauses == ParseClauses(ts, i)
      test == ParseOr(ts, clauses.at + 1)
      cond == IF Check(ts, clauses.at, "if") THEN Found(test.at, <<test.e>>) ELSE Found(clauses.at, <<>>)
  IN  Found(Expect(ts, SkipNewlines(ts, cond.at), closing),
            [k |-> k, e |-> e, clauses |-> clauses.e, cond |-> cond.e])

ParseGroupingOrTuple(ts, i) ==
  LET begin == SkipNewlines(ts, i + 1)
      one == ParseExpression(ts, begin)
      first == Found(SkipNewlines(ts, one.at), one.e)
      es == ParseRest(ts, first, ")")
  IN  CASE Check(ts, begin, ")") -> Found(begin + 1, [k |-> "tuple", es |-> <<>>])
        [] Check(ts, first.at, "for") -> ParseComprehension(ts, first.at, "gencomp", first.e, ")")
        [] Check(ts, first.at, ",") -> Found(Expect(ts, es.at, ")"), [k |-> "tuple", es |-> es.e])
        [] OTHER -> Found(Expect(ts, first.at, ")"), [k |-> "group", e |-> first.e])

ParseListLiteral(ts, i) ==
  LET begin == SkipNewlines(ts, i + 1)
      first == ParseExpression(ts, begin)
      es == ParseRest(ts, first, "]")
  IN  CASE Check(ts, begin, "]") -> Found(begin + 1, [k |-> "list", es |-> <<>>])
        [] Check(ts, first.at, "for") -> ParseComprehension(ts, first.at, "comp", first.e, "]")
        [] OTHER -> Found(Expect(ts, es.at, "]"), [k |-> "list", es |-> es.e])

(* {} is a dict, {e} is e.                                                 *)
ParseDictOrSet(ts, i) ==
  LET begin == SkipNewlines(ts, i + 1)
      first == ParseExpression(ts, begin)
      value == ParseExpression(ts, first.at + 1)
      pairs == ParseMorePairs(ts, Found(value.at, <<first.e, value.e>>))
      es == ParseRest(ts, first, "}")
  IN  CASE Check(ts, begin, "}") -> Found(begin + 1, [k |-> "dict", pairs |-> <<>>])
        [] Check(ts, first.at, ":") /\ Check(ts, value.at, "for") ->
             ParseComprehension(ts, value.at, "dictcomp", <<first.e, value.e>>, "}")
        [] Check(ts, first.at, ":") -> Found(Expect(ts, pairs.at, "}"), [k |-> "dict", pairs |-> pairs.e])
        [] Check(ts, first.at, "for") -> ParseComprehension(ts, first.at, "setcomp", first.e, "}")
        [] Check(ts, first.at, ",") -> Found(Expect(ts, es.at, "}"), [k |-> "set", es |-> es.e])
        [] OTHER -> Found(Expect(ts, es.at, "}"), [k |-> "group", e |-> first.e])

(* fn(...) is a literal, fn name(...) a declaration.                       *)
IsFnLiteral(ts, i) == Check(ts, i, "fn") /\ Check(ts, i + 1, "(")
ParamName(ts, i) == IF Check(ts, i, "self") THEN Found(i + 1, "self") ELSE ExpectName(ts, i)
ParseParams(ts, i) ==
  LET rest == Check(ts, i, "*")
      name == IF rest THEN ExpectName(ts, i + 1) ELSE ParamName(ts, i)
      value == ParseExpression(ts, name.at + 1)
      default == IF ~rest /\ Check(ts, name.at, "=") THEN Found(value.at, <<value.e>>) ELSE Found(name.at, <<>>)
      more == ParseParams(ts, default.at + 1)
      one == [name |-> name.e, default |-> default.e, rest |-> rest]
  IN  IF Check(ts, default.at, ",") THEN Found(more.at, <<one>> \o more.e) ELSE Found(default.at, <<one>>)
ParseParamList(ts, i) == IF Check(ts, i, ")") THEN Found(i, <<>>) ELSE ParseParams(ts, i)
ParseFunction(ts, i) ==
  LET params == ParseParamList(ts, Expect(ts, i, "("))
      body == ParseBlock(ts, Expect(ts, params.at, ")"))
  IN  Found(body.at, [params |-> params.e, body |-> body.e])
ParseFnLiteral(ts, i) ==
  LET f == ParseFunction(ts, i + 1)
  IN  Found(f.at, [k |-> "fn", params |-> f.e.params, body |-> f.e.body])

ParseYield(ts, i) ==
  LET over == ParseExpression(ts, i + 2)
      value == ParseExpression(ts, i + 1)
  IN  IF Check(ts, i + 1, "from") THEN Found(over.at, [k |-> "yieldfrom", e |-> over.e])
      ELSE IF EndsStatement(ts, i + 1) THEN Found(i + 1, [k |-> "yield", e |-> <<>>])
      ELSE Found(value.at, [k |-> "yield", e |-> <<value.e>>])

ParsePrimary(ts, i) ==
  LET awaited == ParsePower(ts, i + 1)
      started == ParsePostfix(ts, i + 1)
      method == MemberName(ts, Expect(ts, i + 1, "."))
  IN  CASE Check(ts, i, "value") -> Found(i + 1, [k |-> "const", v |-> ts[i].v])
        [] Check(ts, i, "nil") -> Found(i + 1, [k |-> "nil"])
        [] Check(ts, i, "name") -> Found(i + 1, [k |-> "name", name |-> ts[i].v])
        [] Kind(ts, i) \in {"self", "async"} -> Found(i + 1, [k |-> "name", name |-> ts[i].t])
        [] Check(ts, i, "super") -> Found(method.at, [k |-> "super", name |-> method.e])
        [] Check(ts, i, "(") -> ParseGroupingOrTuple(ts, i)
        [] Check(ts, i, "[") -> ParseListLiteral(ts, i)
        [] Check(ts, i, "{") -> ParseDictOrSet(ts, i)
        [] IsFnLiteral(ts, i) -> ParseFnLiteral(ts, i)
        [] Check(ts, i, "yield") -> ParseYield(ts, i)
        [] Check(ts, i, "await") -> Found(awaited.at, [k |-> "await", e |-> awaited.e])
        [] Check(ts, i, "go") -> Found(started.at, [k |-> "go", e |-> started.e])
        [] OTHER -> Error

-----------------------------------------------------------------------------
(* Statements.                                                             *)
ParseStatements(ts, i, sofar) ==
  LET begin == SkipNewlines(ts, i)
      one == ParseStatement(ts, begin)
  IN  IF Kind(ts, begin) \in {"}", "eof", "error"} THEN Found(begin, sofar)
      ELSE ParseStatements(ts, one.at, Append(sofar, one.e))
ParseBlock(ts, i) ==
  LET body == ParseStatements(ts, Expect(ts, i, "{"), <<>>)
  IN  Found(Expect(ts, body.at, "}"), body.e)

(* A statement that a newline, if there is one, ends.                      *)
Ended(ts, at, s) == Found(ConsumeNewline(ts, at), s)

ParseDeclaration(ts, i, k) ==
  LET name == ExpectName(ts, i + 1)
      e == ParseExpression(ts, Expect(ts, name.at, "="))
  IN  Ended(ts, e.at, [k |-> k, name |-> name.e, e |-> e.e])

RECURSIVE ParseTargets(_, _), ParseValues(_, _)
ParseTargets(ts, first) ==
  LET more == ParseTargets(ts, ParseTernary(ts, first.at + 1))
  IN  IF Check(ts, first.at, ",") THEN Found(more.at, <<first.e>> \o more.e) ELSE Found(first.at, <<first.e>>)
ParseValues(ts, i) ==
  LET first == ParseExpression(ts, i)
      more == ParseValues(ts, first.at + 1)
  IN  IF Check(ts, first.at, ",") THEN Found(more.at, <<first.e>> \o more.e) ELSE Found(first.at, <<first.e>>)

IsLvalue(e) == e.k \in {"name", "dot", "index"}
ParseMultiAssign(ts, first) ==
  LET targets == ParseTargets(ts, first)
      values == ParseValues(ts, Expect(ts, targets.at, "="))
      value == IF Len(values.e) = 1 THEN values.e[1] ELSE [k |-> "tuple", es |-> values.e]
  IN  IF values.at = 0 \/ \E j \in DOMAIN targets.e : ~IsLvalue(targets.e[j]) THEN Error
      ELSE Ended(ts, values.at, [k |-> "assign", target |-> [k |-> "tuple", es |-> targets.e],
                                 op |-> "=", e |-> value])

(* name = e is a declaration, like var and :=.                             *)
VarOf(name, e) == [k |-> "var", name |-> name, e |-> e]
ParseExprOrAssignment(ts, i) ==
  LET first == ParseExpression(ts, i)
      short == ParseExpression(ts, first.at + 1)
  IN  CASE first.at = 0 -> Error
        [] Check(ts, first.at, ",") -> ParseMultiAssign(ts, first)
        [] Check(ts, first.at, ":=") ->
             IF first.e.k # "name" THEN Error ELSE Ended(ts, short.at, VarOf(first.e.name, short.e))
        [] first.e.k = "assign" ->
             IF ~IsLvalue(first.e.target) THEN Error
             ELSE IF first.e.op = "=" /\ first.e.target.k = "name"
               THEN Ended(ts, first.at, VarOf(first.e.target.name, first.e.e))
             ELSE Ended(ts, first.at, first.e)
        [] OTHER -> Ended(ts, first.at, [k |-> "expr", e |-> first.e])

RECURSIVE ParseArms(_, _)
ParseArms(ts, i) ==
  LET c == ParseExpression(ts, i + 1)
      body == ParseBlock(ts, c.at)
      next == SkipNewlines(ts, body.at)
      more == ParseArms(ts, next)
  IN  IF Check(ts, next, "elif") THEN Found(more.at, <<[c |-> c.e, body |-> body.e]>> \o more.e)
      ELSE Found(next, <<[c |-> c.e, body |-> body.e]>>)
ParseIf(ts, i) ==
  LET arms == ParseArms(ts, i)
      other == ParseBlock(ts, arms.at + 1)
  IN  IF Check(ts, arms.at, "else")
        THEN Found(SkipNewlines(ts, other.at), [k |-> "if", arms |-> arms.e, other |-> other.e])
      ELSE Found(arms.at, [k |-> "if", arms |-> arms.e, other |-> <<>>])
ParseWhile(ts, i) ==
  LET c == ParseExpression(ts, i + 1)
      body == ParseBlock(ts, c.at)
  IN  Found(body.at, [k |-> "while", c |-> c.e, body |-> body.e])
ParseFor(ts, i) ==
  LET names == ParseNames(ts, i + 1)
      e == ParseExpression(ts, Expect(ts, names.at, "in"))
      body == ParseBlock(ts, e.at)
  IN  IF Len(names.e) > 2 THEN Error
      ELSE Found(body.at, [k |-> "for", names |-> names.e, e |-> e.e, body |-> body.e])

ParseReturn(ts, i) ==
  LET values == IF EndsStatement(ts, i + 1) THEN Found(i + 1, <<>>) ELSE ParseValues(ts, i + 1)
  IN  Ended(ts, values.at, [k |-> "return", es |-> values.e])
ParseThrow(ts, i) ==
  LET e == ParseExpression(ts, i + 1)
  IN  IF EndsStatement(ts, i + 1) THEN Ended(ts, i + 1, [k |-> "throw", e |-> <<>>])
      ELSE Ended(ts, e.at, [k |-> "throw", e |-> <<e.e>>])
ParseDefer(ts, i) ==
  LET e == ParseExpression(ts, i + 1) IN Ended(ts, e.at, [k |-> "defer", e |-> e.e])
ParseNameList(ts, i, k) ==
  LET names == ParseNames(ts, i + 1) IN Ended(ts, names.at, [k |-> k, names |-> ToSet(names.e)])

ParseFnDecl(ts, i, k) ==
  LET name == ExpectName(ts, i + 1)
      f == ParseFunction(ts, name.at)
  IN  Found(f.at, [k |-> k, name |-> name.e, params |-> f.e.params, body |-> f.e.body])

(* The optional name after as.                                             *)
ParseAlias(ts, i) ==
  LET name == ExpectName(ts, i + 1)
  IN  IF Check(ts, i, "as") THEN name ELSE Found(i, "")
RECURSIVE ParsePath(_, _), TypePath(_, _, _), ParseExcepts(_, _), ParseMembers(_, _, _), ParseCases(_, _, _), ParseImports(_, _)
ParsePath(ts, i) ==
  LET name == IF Check(ts, i, "async") THEN Found(i + 1, "async") ELSE ExpectName(ts, i)
      more == ParsePath(ts, name.at + 1)
  IN  IF Check(ts, name.at, ".") THEN Found(more.at, <<name.e>> \o more.e) ELSE Found(name.at, <<name.e>>)
TypePath(ts, i, path) ==
  IF Check(ts, i, "name") THEN TypePath(ts, Match(ts, i + 1, "."), Append(path, ts[i].v)) ELSE Found(i, path)
ParseExcepts(ts, i) ==
  LET type == TypePath(ts, i + 1, <<>>)
      alias == ParseAlias(ts, type.at)
      body == ParseBlock(ts, alias.at)
      more == ParseExcepts(ts, SkipNewlines(ts, body.at))
  IN  IF ~Check(ts, i, "except") THEN Found(i, <<>>)
      ELSE Found(more.at, <<[type |-> type.e, alias |-> alias.e, body |-> body.e]>> \o more.e)
ParseTry(ts, i) ==
  LET body == ParseBlock(ts, i + 1)
      clauses == ParseExcepts(ts, SkipNewlines(ts, body.at))
      finally == IF Check(ts, clauses.at, "finally") THEN ParseBlock(ts, clauses.at + 1)
                 ELSE Found(clauses.at, <<>>)
  IN  Found(finally.at, [k |-> "try", body |-> body.e, clauses |-> clauses.e, finally |-> finally.e])
ParseWith(ts, i) ==
  LET e == ParseExpression(ts, i + 1)
      alias == ParseAlias(ts, e.at)
      body == ParseBlock(ts, alias.at)
  IN  Found(body.at, [k |-> "with", e |-> e.e, alias |-> alias.e, body |-> body.e])

(* The members of a class: methods, and variables with or without var.     *)
ParseMembers(ts, i, sofar) ==
  LET begin == SkipNewlines(ts, i)
      method == ParseFnDecl(ts, begin, "fn")
      name == ExpectName(ts, Match(ts, begin, "var"))
      value == ParseExpression(ts, Expect(ts, name.at, "="))
  IN  CASE Kind(ts, begin) \in {"}", "eof", "error"} -> Found(begin, sofar)
        [] Check(ts, begin, "fn") -> ParseMembers(ts, method.at, [sofar EXCEPT !.methods = Append(@, method.e)])
        [] OTHER -> ParseMembers(ts, value.at, [sofar EXCEPT !.vars = Append(@, <<name.e, value.e>>)])
ParseClass(ts, i) ==
  LET name == ExpectName(ts, i + 1)
      parent == IF Check(ts, name.at, "<") THEN ExpectName(ts, name.at + 1) ELSE Found(name.at, "")
      members == ParseMembers(ts, Expect(ts, parent.at, "{"), [methods |-> <<>>, vars |-> <<>>])
  IN  Found(Expect(ts, members.at, "}"),
            [k |-> "class", name |-> name.e, parent |-> parent.e,
             methods |-> members.e.methods, vars |-> members.e.vars])

ParseDecorated(ts, i) ==
  LET by == ParseExpression(ts, i + 1)
      next == ConsumeNewline(ts, by.at)
      target == CASE Check(ts, next, "@") -> ParseDecorated(ts, next)
                  [] Check(ts, next, "fn") -> ParseFnDecl(ts, next, "fn")
                  [] Check(ts, next, "class") -> ParseClass(ts, next)
                  [] OTHER -> Error
  IN  Found(target.at, [k |-> "decorated", by |-> by.e, target |-> target.e])

(* Imports, of @std or not.                                                *)
Std(ts, i) ==
  IF ~Check(ts, i, "@") THEN Found(i, FALSE)
  ELSE LET name == ExpectName(ts, i + 1) IN Found(IF name.e = "std" THEN name.at ELSE 0, TRUE)
ParseImport(ts, i) ==
  LET std == Std(ts, i + 1)
      path == ParsePath(ts, std.at)
      alias == ParseAlias(ts, path.at)
  IN  Ended(ts, alias.at, [k |-> "import", path |-> path.e, alias |-> alias.e, std |-> std.e])
ParseImports(ts, i) ==
  LET name == ExpectName(ts, i)
      alias == ParseAlias(ts, name.at)
      more == ParseImports(ts, alias.at + 1)
  IN  IF Check(ts, alias.at, ",") THEN Found(more.at, <<<<name.e, alias.e>>>> \o more.e)
      ELSE Found(alias.at, <<<<name.e, alias.e>>>>)
ParseFromImport(ts, i) ==
  LET std == Std(ts, i + 1)
      path == ParsePath(ts, std.at)
      targets == ParseImports(ts, Expect(ts, path.at, "import"))
  IN  Ended(ts, targets.at, [k |-> "fromimport", path |-> path.e, targets |-> targets.e, std |-> std.e])

(* The cases of a select: target = <- channel, or channel <- value.        *)
ParseCase(ts, i) ==
  LET name == ExpectName(ts, i)
      channel == ExpectName(ts, Expect(ts, name.at + 1, "<-"))
      value == ParseExpression(ts, name.at + 1)
  IN  CASE Check(ts, name.at, "=") -> Found(channel.at, [k |-> "receive", ch |-> channel.e, target |-> name.e])
        [] Check(ts, name.at, "<-") -> Found(value.at, [k |-> "send", ch |-> name.e, e |-> value.e])
        [] OTHER -> Found(0, [k |-> "none"])
ParseCases(ts, i, sofar) ==
  LET begin == SkipNewlines(ts, i)
      op == ParseCase(ts, begin + 1)
      body == ParseBlock(ts, IF Check(ts, begin, "case") THEN op.at ELSE begin + 1)
  IN  CASE Kind(ts, begin) \in {"}", "eof", "error"} -> Found(begin, sofar)
        [] Check(ts, begin, "case") ->
             ParseCases(ts, body.at, [sofar EXCEPT !.cases = Append(@, [op |-> op.e, body |-> body.e])])
        [] Check(ts, begin, "default") -> ParseCases(ts, body.at, [sofar EXCEPT !.default = <<body.e>>])
        [] OTHER -> Found(0, sofar)
ParseSelect(ts, i) ==
  LET all == ParseCases(ts, Expect(ts, i + 1, "{"), [cases |-> <<>>, default |-> <<>>])
  IN  Found(Expect(ts, all.at, "}"), [k |-> "select", cases |-> all.e.cases, default |-> all.e.default])

ParseStatement(ts, i) ==
  LET t == Kind(ts, i)
  IN  CASE t = "@" -> ParseDecorated(ts, i)
        [] t \in {"var", "const"} -> ParseDeclaration(ts, i, t)
        [] t = "async" /\ Check(ts, i + 1, "fn") -> ParseFnDecl(ts, i + 1, "asyncfn")
        [] t = "fn" /\ ~IsFnLiteral(ts, i) -> ParseFnDecl(ts, i, "fn")
        [] t = "fn" /\ IsFnLiteral(ts, i) ->
             LET e == ParseExpression(ts, i) IN Ended(ts, e.at, [k |-> "expr", e |-> e.e])
        [] t = "if" -> ParseIf(ts, i)
        [] t = "while" -> ParseWhile(ts, i)
        [] t = "for" -> ParseFor(ts, i)
        [] t \in {"break", "continue"} -> Ended(ts, i + 1, [k |-> t])
        [] t = "return" -> ParseReturn(ts, i)
        [] t \in {"nonlocal", "global"} -> ParseNameList(ts, i, t)
        [] t = "import" -> ParseImport(ts, i)
        [] t = "from" -> ParseFromImport(ts, i)
        [] t = "class" -> ParseClass(ts, i)
        [] t = "defer" -> ParseDefer(ts, i)
        [] t = "try" -> ParseTry(ts, i)
        [] t = "with" -> ParseWith(ts, i)
        [] t = "throw" -> ParseThrow(ts, i)
        [] t = "select" -> ParseSelect(ts, i)
        [] OTHER -> ParseExprOrAssignment(ts, i)

(* The statements of a program, or an error.                               *)
Parse(lines) ==
  LET ts == NextTokens(lines)
      all == ParseStatements(ts, 1, <<>>)
  IN  IF all.at > Len(ts) THEN [bad |-> FALSE, tree |-> all.e] ELSE [bad |-> TRUE, tree |-> <<>>]

(* A source: nothing is parsed of one that has a token misread.            *)
Read(lines) ==
  LET tokens == ReadText(lines, 1)
      misread == \E n \in DOMAIN tokens : \E i \in DOMAIN tokens[n] : tokens[n][i].t = Misread
  IN  IF misread THEN [bad |-> TRUE, tree |-> <<>>] ELSE Parse(tokens)
=============================================================================
