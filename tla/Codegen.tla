------------------------------ MODULE Codegen ------------------------------
(***************************************************************************)
(* The compiler: from the syntax tree of a program to the code of its      *)
(* functions.                                                              *)
(*                                                                         *)
(* A tree is a record, its node's kind in the field k.  An instruction is  *)
(* [op, x, to]: an opcode, its operand and, of a jump, the instruction it  *)
(* goes to (the code has distances in bytes).  The state of the compiler is*)
(* a record c: the units that are open, innermost last, the finished       *)
(* functions, and what a statement has to know of those around it.  A      *)
(* compile error only sets c.bad.                                          *)
(***************************************************************************)
EXTENDS Integers, Sequences, FiniteSets, SequencesExt, TLC

None == -1  \* no slot, no upvalue

Local(name, depth) == [name |-> name, depth |-> depth, captured |-> FALSE]
Param(name) == [name |-> name, default |-> <<>>, rest |-> FALSE]

(* A unit is the function being compiled; slot 0 is its closure, or a      *)
(* method's receiver, its first parameter.                                 *)
MethodUnit(params) ==
  [code |-> <<>>, upvalues |-> <<>>, depth |-> 0, generator |-> FALSE,
   locals |-> [i \in DOMAIN params |-> Local(params[i].name, 0)]]
Unit(params) == MethodUnit(<<Param("<self>")>> \o params)

NewCompiler ==
  [units |-> <<Unit(<<>>)>>, fns |-> <<>>, loops |-> <<>>, tries |-> 0, finallys |-> <<>>,
   nonlocals |-> {}, globals |-> {}, class |-> "", withs |-> 0, bad |-> FALSE]

Level(c) == Len(c.units)
This(c) == Last(c.units)
AtTop(c) == Level(c) = 1
Bad(c) == [c EXCEPT !.bad = TRUE]

-----------------------------------------------------------------------------
(* Emitting code and patching jumps.                                       *)
Offset(c) == Len(This(c).code) + 1
Emit(c, op, x) ==
  [c EXCEPT !.units[Level(c)].code = Append(@, [op |-> op, x |-> x, to |-> 0])]
EmitOp(c, op) == Emit(c, op, 0)
EmitBack(c, op, start) ==
  [c EXCEPT !.units[Level(c)].code = Append(@, [op |-> op, x |-> 0, to |-> start])]
EmitReturn(c) == EmitOp(EmitOp(c, "EXEC_DEFER"), "RETURN")

(* The jump at the instruction `at` goes to what is emitted next.          *)
Patch(c, at) == [c EXCEPT !.units[Level(c)].code[at].to = Offset(c)]
PatchAll(c, ats) == FoldLeft(Patch, c, ats)

-----------------------------------------------------------------------------
(* Names: locals by slot, upvalues by index.                               *)
ResolveLocal(u, name) ==
  LET found == {i \in DOMAIN u.locals : u.locals[i].name = name}
  IN  IF found = {} THEN None ELSE Max(found) - 1

DeclareLocal(c, name) ==
  LET u == This(c)
      again == \E i \in DOMAIN u.locals : u.locals[i].name = name /\ u.locals[i].depth = u.depth
  IN  IF again THEN Bad(c)
      ELSE [c EXCEPT !.units[Level(c)].locals = Append(@, Local(name, u.depth))]

(* The slot of a name that is declared if it has none.                     *)
Declared(c, name) == IF ResolveLocal(This(c), name) # None THEN c ELSE DeclareLocal(c, name)
Slot(c, name) == ResolveLocal(This(c), name)

ReserveSlot(c, name) ==
  LET u == This(c)
      known == \E i \in DOMAIN u.locals : u.locals[i].name = name /\ u.locals[i].depth = u.depth
  IN  IF known THEN c ELSE DeclareLocal(EmitOp(c, "NIL"), name)

AddUpvalue(units, level, up) ==
  LET ups == units[level].upvalues
      known == {i \in DOMAIN ups : ups[i] = up}
  IN  IF known # {} THEN [units |-> units, index |-> Min(known) - 1]
      ELSE [units |-> [units EXCEPT ![level].upvalues = Append(@, up)], index |-> Len(ups)]

RECURSIVE ResolveUpvalue(_, _, _)
ResolveUpvalue(units, level, name) ==
  IF level = 1 THEN [units |-> units, index |-> None]
  ELSE LET slot == ResolveLocal(units[level - 1], name)
           outer == ResolveUpvalue(units, level - 1, name)
       IN  IF slot # None THEN AddUpvalue(units, level, [index |-> slot, local |-> TRUE])
           ELSE IF outer.index = None THEN outer
           ELSE AddUpvalue(outer.units, level, [index |-> outer.index, local |-> FALSE])

(* Where a name is: one of global declarations, locals, upvalues, globals, *)
(* in this order; resolving an upvalue adds it to the functions between.   *)
Resolve(c, name) ==
  LET up == ResolveUpvalue(c.units, Level(c), name)
      slot == ResolveLocal(This(c), name)
  IN  IF name \in c.globals THEN [c |-> c, kind |-> "GLOBAL", x |-> name]
      ELSE IF slot # None THEN [c |-> c, kind |-> "LOCAL", x |-> slot]
      ELSE IF up.index # None
        THEN [c |-> [c EXCEPT !.units = up.units], kind |-> "UPVALUE", x |-> up.index]
      ELSE [c |-> c, kind |-> "GLOBAL", x |-> name]

LoadOf == [LOCAL |-> "LOAD_LOCAL", UPVALUE |-> "LOAD_UPVALUE", GLOBAL |-> "LOAD_GLOBAL"]
StoreOf == [LOCAL |-> "STORE_LOCAL", UPVALUE |-> "STORE_UPVALUE", GLOBAL |-> "STORE_GLOBAL"]
CompileIdentifier(c, name) == LET r == Resolve(c, name) IN Emit(r.c, LoadOf[r.kind], r.x)

StoreNonlocal(c, name) ==
  LET up == ResolveUpvalue(c.units, Level(c), name)
  IN  IF up.index = None THEN Bad(c)
      ELSE Emit([c EXCEPT !.units = up.units], "STORE_UPVALUE", up.index)

(* The name as the target of an assignment.                                *)
StoreName(c, name) ==
  IF name \in c.nonlocals THEN StoreNonlocal(c, name)
  ELSE LET r == Resolve(c, name) IN Emit(r.c, StoreOf[r.kind], r.x)

(* The target of name = e, := and var: a local unless declared otherwise.  *)
StoreVar(c, name) ==
  IF name \in c.nonlocals THEN StoreNonlocal(c, name)
  ELSE IF name \in c.globals \/ AtTop(c) THEN Emit(c, "STORE_GLOBAL", name)
  ELSE LET d == Declared(c, name) IN Emit(d, "STORE_LOCAL", Slot(d, name))

-----------------------------------------------------------------------------
(* Scopes: a comprehension has one of its own.                             *)
BeginScope(c) == [c EXCEPT !.units[Level(c)].depth = @ + 1]
RECURSIVE DropLocals(_)
DropLocals(c) ==
  LET local == Last(This(c).locals)
  IN  IF local.depth <= This(c).depth THEN c
      ELSE DropLocals(EmitOp([c EXCEPT !.units[Level(c)].locals = Front(@)],
                             IF local.captured THEN "CLOSE_UPVALUE" ELSE "POP"))
EndScope(c) == DropLocals([c EXCEPT !.units[Level(c)].depth = @ - 1])

(* What a constant may be initialised with: arithmetic on literals.        *)
IsLiteral(e) == e.k \in {"const", "nil"}
ConstantOps == {"+", "-", "*", "/", "//", "%", "**", "&", "|", "^", "<<", ">>"}
RECURSIVE IsConstant(_)
IsConstant(e) ==
  \/ IsLiteral(e)
  \/ e.k = "unary" /\ e.op \in {"-", "~"} /\ IsConstant(e.e)
  \/ e.k = "binary" /\ e.op \in ConstantOps /\ IsConstant(e.l) /\ IsConstant(e.r)

-----------------------------------------------------------------------------
RECURSIVE CompileExpression(_, _), CompileStatement(_, _), CompileAll(_, _), CompileBlock(_, _),
          CompileClause(_, _, _), CompileStoreTarget(_, _), CompileTargets(_, _)

CompileAll(c, exprs) ==
  IF exprs = <<>> \/ c.bad THEN c ELSE CompileAll(CompileExpression(c, Head(exprs)), Tail(exprs))
CompileBlock(c, stmts) ==
  IF stmts = <<>> \/ c.bad THEN c ELSE CompileBlock(CompileStatement(c, Head(stmts)), Tail(stmts))

(* A function: its unit is compiled with nothing known of the statements   *)
(* around it; what it captured is marked in the unit it is written in.     *)
MarkCaptured(u, ups) ==
  [u EXCEPT !.locals = [i \in DOMAIN @ |->
     [@[i] EXCEPT !.captured = @ \/ [index |-> i - 1, local |-> TRUE] \in Range(ups)]]]
(* A default is a literal; parameters with one come after those without,   *)
(* the rest comes last.                                                    *)
EvalDefault(e) == IF e.k = "const" THEN e.v ELSE [t |-> "nil", v |-> 0]
Defaults(params) == FlattenSeq([i \in DOMAIN params |-> params[i].default])
ValidParams(params) ==
  /\ \A i \in DOMAIN Defaults(params) : IsLiteral(Defaults(params)[i])
  /\ \A i, j \in DOMAIN params : i < j =>
       /\ params[i].rest => params[j].rest
       /\ params[i].default # <<>> => params[j].default # <<>> \/ params[j].rest
Function(u, params) ==
  [code |-> u.code, upvalues |-> u.upvalues, generator |-> u.generator,
   arity |-> Len(SelectSeq(params, LAMBDA p : ~p.rest)),
   required |-> Len(SelectSeq(params, LAMBDA p : ~p.rest /\ p.default = <<>>)),
   defaults |-> [i \in DOMAIN Defaults(params) |-> EvalDefault(Defaults(params)[i])],
   variadic |-> \E i \in DOMAIN params : params[i].rest]
Finish(c, done, params) ==
  LET u == This(done)
      n == Level(c)
  IN  Emit([c EXCEPT !.units = [SubSeq(done.units, 1, n) EXCEPT ![n] = MarkCaptured(@, u.upvalues)],
                     !.fns = Append(done.fns, Function(u, params)), !.withs = done.withs, !.bad = done.bad],
           "CLOSURE", Len(done.fns) + 1)
Nested(c, unit) ==
  [c EXCEPT !.units = Append(@, unit), !.nonlocals = {}, !.globals = {},
            !.tries = 0, !.finallys = <<>>, !.loops = <<>>]
CompileClosure(c, unit, f) ==
  IF ~ValidParams(f.params) THEN Bad(c)
  ELSE Finish(c, EmitReturn(EmitOp(CompileBlock(Nested(c, unit), f.body), "NIL")), f.params)
CompileFunction(c, f) == CompileClosure(c, Unit(f.params), f)

(* The targets of a loop, from the element on the stack.                   *)
StoreSlots(c, names) ==
  LET targets == FoldLeft(LAMBDA d, name : Emit(d, "STORE_LOCAL", Slot(d, name)), c, names)
      unpacked == Emit(c, "UNPACK", Len(names))
  IN  IF Len(names) = 1 THEN targets
      ELSE FoldLeft(LAMBDA d, name : Emit(d, "STORE_LOCAL", Slot(d, name)), unpacked, names)

(* A value on the stack, tested: JUMP_IF_FALSE leaves it there, each way   *)
(* pops it.  `test` is the offset of that jump.                            *)
IfTrue(c) == EmitOp(EmitOp(c, "JUMP_IF_FALSE"), "POP")
Otherwise(c, test) == EmitOp(Patch(EmitOp(c, "JUMP"), test), "POP")

(* The loop of for ... in: from `start`, an element, its targets, back.    *)
SetIterator(c, iter) == Emit(EmitOp(c, "ITERATOR"), "STORE_LOCAL", Slot(c, iter))
NextElement(c, iter, names) == StoreSlots(Emit(c, "FOR_ITER", Slot(c, iter)), names)
Again(c, start) == Patch(EmitBack(c, "JUMP_BACK", start), start)

(* The clauses of a comprehension, from the i-th on; innermost its         *)
(* condition and the element.  The first iterable of a generator           *)
(* expression is its argument.                                             *)
BuildOf == [comp |-> "BUILD_LIST", setcomp |-> "BUILD_SET", dictcomp |-> "BUILD_DICT"]
InsertOf == [comp |-> "LIST_APPEND", setcomp |-> "SET_ADD", dictcomp |-> "DICT_INSERT"]
IterName(comp, i) == (IF comp.k = "gencomp" THEN "__gen_iter_" ELSE "__comp_iter_") \o ToString(i - 1)
Collect(c, comp) ==
  LET element == IF comp.k = "dictcomp" THEN CompileAll(c, comp.e) ELSE CompileExpression(c, comp.e)
  IN  IF comp.k = "gencomp" THEN EmitOp(element, "YIELD")
      ELSE Emit(element, InsertOf[comp.k], Slot(c, "__comp_container"))
CollectIf(c, comp) ==
  LET test == CompileExpression(c, comp.cond[1])
      yes == Collect(IfTrue(test), comp)
  IN  Patch(Otherwise(yes, Offset(test)), Offset(yes))
CompileClause(c, comp, i) ==
  LET source == IF comp.k = "gencomp" /\ i = 1 THEN Emit(c, "LOAD_LOCAL", 1)
                ELSE CompileExpression(c, comp.clauses[i].e)
      set == SetIterator(source, IterName(comp, i))
      each == NextElement(set, IterName(comp, i), comp.clauses[i].names)
      filled == IF i < Len(comp.clauses) THEN CompileClause(each, comp, i + 1)
                ELSE IF comp.cond = <<>> THEN Collect(each, comp) ELSE CollectIf(each, comp)
  IN  Again(filled, Offset(set))
CompileLoops(c, comp) ==
  LET reserve(d, name) == DeclareLocal(EmitOp(d, "NIL"), name)
      reserved == FoldLeft(reserve, c,
        FlattenSeq([i \in DOMAIN comp.clauses |-> <<IterName(comp, i)>> \o comp.clauses[i].names]))
  IN  CompileClause(reserved, comp, 1)
CompileComprehension(c, comp) ==
  LET opened == DeclareLocal(Emit(BeginScope(c), BuildOf[comp.k], 0), "__comp_container")
      filled == CompileLoops(opened, comp)
  IN  EndScope(Emit(filled, "LOAD_LOCAL", Slot(filled, "__comp_container")))

(* A generator expression is a generator function that is called.          *)
CompileGenerator(c, comp) ==
  LET params == <<Param("iter")>>
      inside == [c EXCEPT !.units = Append(@, [Unit(params) EXCEPT !.generator = TRUE]), !.nonlocals = {}, !.globals = {}]
      made == Finish(c, EmitReturn(EmitOp(CompileLoops(inside, comp), "NIL")), params)
  IN  Emit(CompileExpression(made, comp.clauses[1].e), "CALL", 1)

(* Of and, or: the left value stays when it decides.                       *)
ShortCircuit(c, jump, right) ==
  Patch(CompileExpression(EmitOp(EmitOp(c, jump), "POP"), right), Offset(c))

CompileTernary_KeepsTest(c, e) ==
  LET test == CompileExpression(c, e.c)
      yes == CompileExpression(IfTrue(test), e.y)
      no == CompileExpression(Patch(EmitOp(yes, "JUMP"), Offset(test)), e.n)
  IN  Patch(no, Offset(yes))
CompileTernary(c, e) ==
  LET test == CompileExpression(c, e.c)
      yes == CompileExpression(IfTrue(test), e.y)
      no == CompileExpression(Otherwise(yes, Offset(test)), e.n)
  IN  Patch(no, Offset(yes))

(* Operators, also those of assignments.                                   *)
BinaryOpcode(op) ==
  CASE op \in {"+", "+="} -> "ADD" [] op \in {"-", "-="} -> "SUBTRACT" [] op \in {"*", "*="} -> "MULTIPLY"
    [] op \in {"//", "//="} -> "FLOOR_DIVIDE" [] op \in {"%", "%="} -> "MODULO" [] op \in {"**", "**="} -> "POWER"
    [] op \in {"&", "&="} -> "BIT_AND" [] op \in {"|", "|="} -> "BIT_OR" [] op \in {"^", "^="} -> "BIT_XOR"
    [] op \in {"<<", "<<="} -> "LEFT_SHIFT" [] op \in {">>", ">>="} -> "RIGHT_SHIFT"
    [] op = "==" -> "EQUAL" [] op = "!=" -> "NOT_EQUAL" [] op = "<" -> "LESS" [] op = ">" -> "GREATER"
    [] op = "<=" -> "LESS_EQUAL" [] op = ">=" -> "GREATER_EQUAL" [] op = "in" -> "IN" [] op = "is" -> "IS"
UnaryOpcode(op) == CASE op = "-" -> "NEGATE" [] op = "not" -> "NOT" [] op = "~" -> "BIT_NOT"
CompileBinary(c, e) == EmitOp(CompileAll(c, <<e.l, e.r>>), BinaryOpcode(e.op))
CompileIndex(c, e) == EmitOp(CompileAll(c, <<e.e, e.i>>), "GET_INDEX")
CompileDot(c, e) == Emit(CompileExpression(c, e.e), "GET_ATTR", e.name)
CompileSlice(c, e) ==
  Emit(CompileAll(c, <<e.e>> \o e.start \o e.stop \o e.step), "GET_SLICE",
       <<e.start # <<>>, e.stop # <<>>, e.step # <<>>>>)

(* An assignment leaves its value; a compound one loads its target first,  *)
(* and compiles the operands of an index twice.                            *)
CompileLoadTarget(c, target) ==
  IF target.k \in {"name", "index", "dot"} THEN CompileExpression(c, target) ELSE Bad(c)
CompileTargets(c, targets) ==
  IF targets = <<>> \/ c.bad THEN c ELSE CompileTargets(CompileStoreTarget(c, Head(targets)), Tail(targets))
CompileStoreTarget(c, target) ==
  CASE target.k = "name" -> StoreName(c, target.name)
    [] target.k = "index" -> EmitOp(CompileAll(c, <<target.e, target.i>>), "SET_INDEX")
    [] target.k = "dot" -> Emit(CompileExpression(c, target.e), "SET_ATTR", target.name)
    [] target.k = "tuple" -> CompileTargets(Emit(c, "UNPACK", Len(target.es)), target.es)
    [] OTHER -> Bad(c)
CompileAssignment(c, e) ==
  LET value == IF e.op = "=" THEN CompileExpression(c, e.e)
               ELSE EmitOp(CompileExpression(CompileLoadTarget(c, e.target), e.e), BinaryOpcode(e.op))
  IN  CompileStoreTarget(EmitOp(value, "DUP"), e.target)

Yielding(c) == [c EXCEPT !.units[Level(c)].generator = TRUE]
CompileExpression(c, e) ==
  CASE e.k = "const" -> Emit(c, "CONSTANT", e.v)
    [] e.k = "nil" -> EmitOp(c, "NIL")
    [] e.k = "name" -> CompileIdentifier(c, e.name)
    [] e.k = "group" -> CompileExpression(c, e.e)
    [] e.k = "binary" -> CompileBinary(c, e)
    [] e.k = "unary" -> EmitOp(CompileExpression(c, e.e), UnaryOpcode(e.op))
    [] e.k = "assign" -> CompileAssignment(c, e)
    [] e.k = "and" -> ShortCircuit(CompileExpression(c, e.l), "JUMP_IF_FALSE", e.r)
    [] e.k = "or" -> ShortCircuit(CompileExpression(c, e.l), "JUMP_IF_TRUE", e.r)
    [] e.k = "ternary" -> CompileTernary(c, e)
    [] e.k = "call" -> Emit(CompileAll(c, <<e.f>> \o e.args), "CALL", Len(e.args))
    [] e.k = "index" -> CompileIndex(c, e)
    [] e.k = "dot" -> CompileDot(c, e)
    [] e.k = "slice" -> CompileSlice(c, e)
    [] e.k = "list" -> Emit(CompileAll(c, e.es), "BUILD_LIST", Len(e.es))
    [] e.k = "tuple" -> Emit(CompileAll(c, e.es), "BUILD_TUPLE", Len(e.es))
    [] e.k = "set" -> Emit(CompileAll(c, e.es), "BUILD_SET", Len(e.es))
    [] e.k = "dict" -> Emit(CompileAll(c, FlattenSeq(e.pairs)), "BUILD_DICT", Len(e.pairs))
    [] e.k = "fn" -> CompileFunction(c, e)
    [] e.k \in DOMAIN BuildOf -> CompileComprehension(c, e)
    [] e.k = "gencomp" -> CompileGenerator(c, e)
    [] e.k = "super" -> IF c.class = "" THEN Bad(c) ELSE Emit(c, "GET_SUPER", <<c.class, e.name>>)
    [] e.k = "yield" ->
         EmitOp(Yielding(IF e.e = <<>> THEN EmitOp(c, "NIL") ELSE CompileExpression(c, e.e[1])), "YIELD")
    [] e.k = "yieldfrom" ->
         EmitOp(EmitOp(Yielding(CompileExpression(c, e.e)), "YIELD_FROM"), "YIELD_FROM_RESUME")

-----------------------------------------------------------------------------
(* Statements.                                                             *)
CompileDefer(c, s) ==
  IF s.e.k # "call" THEN Bad(c)
  ELSE EmitOp(Emit(CompileAll(CompileExpression(c, s.e.f), s.e.args), "BUILD_TUPLE", Len(s.e.args) + 1),
              "DEFER")

RECURSIVE CompileArms(_, _, _)
CompileArms(c, arms, other) ==
  IF arms = <<>> THEN CompileBlock(c, other)
  ELSE LET test == CompileExpression(c, arms[1].c)
           yes == CompileBlock(IfTrue(test), arms[1].body)
           no == CompileArms(Otherwise(yes, Offset(test)), Tail(arms), other)
       IN  Patch(no, Offset(yes))

(* Loops: breaks are patched to the loop's exit.                           *)
EnterLoop(c, start) ==
  [c EXCEPT !.loops = Append(@, [start |-> start, breaks |-> <<>>, tries |-> c.tries])]
LeaveLoop(c, at) == PatchAll([c EXCEPT !.loops = SubSeq(@, 1, at)], c.loops[at + 1].breaks)

CompileWhile(c, s) ==
  LET test == CompileExpression(c, s.c)
      body == CompileBlock(EnterLoop(IfTrue(test), Offset(c)), s.body)
      back == EmitBack(body, "JUMP_BACK", Offset(c))
  IN  LeaveLoop(EmitOp(Patch(back, Offset(test)), "POP"), Len(c.loops))

(* The slots of a for are reserved where it stands, hidden iterator first. *)
CompileFor(c, s) ==
  LET iter == "__for_iter_" \o s.names[1]
      reserved == FoldLeft(ReserveSlot, c, <<iter>> \o s.names)
      set == SetIterator(CompileExpression(reserved, s.e), iter)
      body == CompileBlock(EnterLoop(NextElement(set, iter, s.names), Offset(set)), s.body)
  IN  LeaveLoop(Again(body, Offset(set)), Len(c.loops))

(* Early exits: the handlers inside the exit are taken off, then each      *)
(* finally inside it is compiled again, in place, innermost first.         *)
TryExits(c, n) == FoldLeft(LAMBDA d, i : EmitOp(d, "TRY_EXIT"), c, [i \in 1..n |-> i])
Inlined(c, base) ==
  LET inside == SelectSeq(c.finallys, LAMBDA f : f.depth > base)
  IN  FlattenSeq(Reverse([i \in DOMAIN inside |-> inside[i].body]))
EarlyExit(c, base) == CompileBlock(TryExits(c, c.tries - base), Inlined(c, base))

CompileReturn(c, s) ==
  LET values == CompileAll(c, s.es)
      value == CASE Len(s.es) = 0 -> EmitOp(c, "NIL")
                 [] Len(s.es) = 1 -> values
                 [] OTHER -> Emit(values, "BUILD_TUPLE", Len(s.es))
  IN  EmitReturn(EarlyExit(value, 0))
CompileBreak(c) ==
  LET left == EarlyExit(c, Last(c.loops).tries)
  IN  [EmitOp(left, "BREAK") EXCEPT !.loops[Len(c.loops)].breaks = Append(@, Offset(left))]
CompileContinue(c) ==
  EmitBack(EarlyExit(c, Last(c.loops).tries), "CONTINUE", Last(c.loops).start)

(* The dispatcher: each clause tests the exception on the stack; `jumps`   *)
(* are those to the finally, or the end.                                   *)
BindException(c, alias) ==
  IF alias = "" THEN EmitOp(c, "POP")
  ELSE LET d == Declared(c, alias) IN Emit(d, "STORE_LOCAL", Slot(d, alias))
CompileExcept(acc, clause) ==
  LET type == IF clause.type = <<>> THEN <<"Error">> ELSE clause.type
      test == EmitOp(Emit(acc.c, "CATCH", type), "JUMP_IF_FALSE")
      bound == BindException(EmitOp(test, "POP"), clause.alias)
      body == EmitOp(CompileBlock(bound, clause.body), "CLEAR_CURRENT_EXC")
  IN  [c |-> EmitOp(Patch(EmitOp(body, "JUMP"), Offset(acc.c) + 1), "POP"),
       jumps |-> Append(acc.jumps, Offset(body))]

CompileTry(c, s) ==
  LET hasFinally == s.finally # <<>>
      inside == [EmitOp(c, "TRY_ENTER") EXCEPT !.tries = @ + 1,
                   !.finallys = IF hasFinally THEN Append(@, [depth |-> c.tries + 1, body |-> s.finally])
                                ELSE @]
      body == [EmitOp(CompileBlock(inside, s.body), "TRY_EXIT") EXCEPT !.tries = c.tries]
      clauses == FoldLeft(CompileExcept, [c |-> Patch(EmitOp(body, "JUMP"), Offset(c)),
                                          jumps |-> <<Offset(body)>>], s.clauses)
      unmatched == EmitOp(clauses.c, "POP")
      joined == IF hasFinally THEN PatchAll(EmitOp(unmatched, "JUMP"), Append(clauses.jumps, Offset(unmatched)))
                ELSE PatchAll(EmitOp(unmatched, "RETHROW"), clauses.jumps)
  IN  IF ~hasFinally THEN joined
      ELSE EmitOp(CompileBlock([joined EXCEPT !.finallys = c.finallys], s.finally), "FINALLY_END")

(* with: __enter__, the body, and __exit__ with what the frame handles;    *)
(* unless that gives something true, the exception is thrown again.        *)
LoadSlot(c, name) == Emit(c, "LOAD_LOCAL", Slot(c, name))
CallMethod(c, tmp, name, loads) ==
  LET args == FoldLeft(EmitOp, LoadSlot(Emit(LoadSlot(c, tmp), "GET_ATTR", name), tmp), loads)
  IN  Emit(args, "CALL", Len(loads) + 1)
CompileWith(c, s) ==
  LET tmp == "_with_ctx_" \o ToString(c.withs)
      made == DeclareLocal([CompileExpression(c, s.e) EXCEPT !.withs = @ + 1], tmp)
      entered == BindException(CallMethod(Emit(made, "STORE_LOCAL", Slot(made, tmp)), tmp, "__enter__", <<>>), s.alias)
      body == CompileBlock([EmitOp(entered, "TRY_ENTER") EXCEPT !.tries = @ + 1], s.body)
      normal == EmitOp(EmitOp([body EXCEPT !.tries = c.tries], "TRY_EXIT"), "JUMP")
      handler == Patch(EmitOp(Patch(normal, Offset(entered)), "POP"), Offset(normal) - 1)
      exited == CallMethod(handler, tmp, "__exit__", <<"LOAD_EXC_TYPE", "LOAD_EXC_MSG", "LOAD_EXC_TB">>)
      tested == EmitOp(exited, "LOAD_CURRENT_EXC")
      inspected == IfTrue(tested)
      suppressed == EmitOp(EmitOp(IfTrue(inspected), "CLEAR_CURRENT_EXC"), "JUMP")
      again == FoldLeft(EmitOp, Patch(suppressed, Offset(inspected)), <<"POP", "LOAD_CURRENT_EXC", "THROW">>)
      done == EmitOp(EmitOp(Patch(again, Offset(tested)), "POP"), "POP")
  IN  Patch(done, Offset(suppressed) - 1)

(* fn name: a global at the top, a local of the function it stands in.     *)
StoreFound(c, name) ==
  IF Slot(c, name) = None THEN Emit(c, "STORE_GLOBAL", name) ELSE Emit(c, "STORE_LOCAL", Slot(c, name))
LoadFound(c, name) == IF Slot(c, name) = None THEN Emit(c, "LOAD_GLOBAL", name) ELSE LoadSlot(c, name)
CompileFnDecl(c, s) ==
  LET made == CompileFunction(c, s)
  IN  IF AtTop(c) THEN Emit(made, "STORE_GLOBAL", s.name) ELSE StoreFound(Declared(made, s.name), s.name)

(* class: a global that its attributes and methods can refer to.           *)
ClassAttr(c, name, attr) ==
  LET value == EmitOp(CompileExpression(c, attr[2]), "DUP")
  IN  EmitOp(Emit(Emit(value, "LOAD_GLOBAL", name), "SET_ATTR", attr[1]), "POP")
ClassMethod(c, name, method) ==
  LET made == CompileClosure(Emit(c, "LOAD_GLOBAL", name), MethodUnit(method.params), method)
  IN  IF method.params = <<>> THEN Bad(c)
      ELSE IF method.params[1].name # "self" THEN Bad(c)
      ELSE EmitOp(Emit(made, "METHOD", method.name), "POP")
CompileClass(c, s) ==
  LET made == Emit(c, "CLASS", s.name)
      parent == IF s.parent = "" THEN made ELSE EmitOp(Emit(made, "LOAD_GLOBAL", s.parent), "INHERIT")
      attrs == FoldLeft(LAMBDA d, attr : ClassAttr(d, s.name, attr), Emit(parent, "STORE_GLOBAL", s.name), s.vars)
      methods == FoldLeft(LAMBDA d, method : ClassMethod(d, s.name, method), [attrs EXCEPT !.class = s.name], s.methods)
  IN  IF AtTop(c) THEN [methods EXCEPT !.class = c.class] ELSE Bad(c)

(* Decorators are applied from the last one on.                            *)
RECURSIVE DeclName(_)
DeclName(s) == IF s.k = "decorated" THEN DeclName(s.target) ELSE s.name
CompileDecorated(c, s) ==
  LET made == CompileExpression(CompileStatement(c, s.target), s.by)
      name == DeclName(s.target)
  IN  StoreFound(Emit(LoadFound(made, name), "CALL", 1), name)

CompileStatement(c, s) ==
  CASE s.k = "var" -> StoreVar(CompileExpression(c, s.e), s.name)
    [] s.k = "const" -> IF IsConstant(s.e) THEN StoreVar(CompileExpression(c, s.e), s.name) ELSE Bad(c)
    [] s.k = "assign" -> EmitOp(CompileAssignment(c, s), "POP")
    [] s.k = "expr" -> EmitOp(CompileExpression(c, s.e), "POP")
    [] s.k = "if" -> CompileArms(c, s.arms, s.other)
    [] s.k = "while" -> CompileWhile(c, s)
    [] s.k = "for" -> CompileFor(c, s)
    [] s.k = "break" -> IF c.loops = <<>> THEN Bad(c) ELSE CompileBreak(c)
    [] s.k = "continue" -> IF c.loops = <<>> THEN Bad(c) ELSE CompileContinue(c)
    [] s.k = "return" -> CompileReturn(c, s)
    [] s.k = "nonlocal" -> [c EXCEPT !.nonlocals = @ \cup s.names, !.bad = @ \/ s.names \cap c.globals # {}]
    [] s.k = "global" -> [c EXCEPT !.globals = @ \cup s.names, !.bad = @ \/ s.names \cap c.nonlocals # {}]
    [] s.k = "defer" -> CompileDefer(c, s)
    [] s.k = "try" -> CompileTry(c, s)
    [] s.k = "throw" -> IF s.e = <<>> THEN EmitOp(c, "RETHROW")
                        ELSE EmitOp(CompileExpression(c, s.e[1]), "THROW")
    [] s.k = "with" -> CompileWith(c, s)
    [] s.k = "fn" -> CompileFnDecl(c, s)
    [] s.k = "class" -> CompileClass(c, s)
    [] s.k = "decorated" -> CompileDecorated(c, s)

(* The functions of a program; the last is the script.                     *)
Compile(program) ==
  LET c == EmitOp(EmitOp(CompileBlock(NewCompiler, program), "EXEC_DEFER"), "HALT")
  IN  [fns |-> Append(c.fns, Function(This(c), <<>>)), bad |-> c.bad]
=============================================================================
