------------------------------ MODULE Meaning ------------------------------
(***************************************************************************)
(* What a program means, from its syntax tree alone: variables are cells   *)
(* that functions share, a block opens no scope, an exception or an early  *)
(* exit is a way for a statement to end.  A generator is run when it is    *)
(* made, so that it must not share variables that change while it waits.   *)
(*                                                                         *)
(* A result is [m, sig, v]: the memory, how it ended ("next" if normally)  *)
(* and the value.  Memory: cells, the environments of calls (variables,    *)
(* and the environment outside, 0 for none), globals, objects, what the    *)
(* running generator has yielded, and what is left of all that is iterated.*)
(***************************************************************************)
EXTENDS Natives

Result(m, sig, v) == [m |-> m, sig |-> sig, v |-> v]
Normal(m, v) == Result(m, "next", v)
Failure(m) == Result(m, "fail", Nil)
Then(r, next(_)) == IF r.sig = "next" THEN next(r) ELSE r
(* Of an operation on data.                                                *)
After(m, r) == IF r.h = <<>> THEN m ELSE [m EXCEPT !.objects = r.h]
ResultOf(m, r) == IF r.ok THEN Normal(After(m, r), r.v) ELSE Failure(After(m, r))

NewEnv(outer, class) ==
  [vars |-> << >>, outer |-> outer, nonlocals |-> {}, globals |-> {}, defers |-> <<>>, exc |-> <<>>, class |-> class]
FunctionOf(f, e, class) == Value("fn", [params |-> f.params, body |-> f.body, env |-> e, class |-> class])

RECURSIVE Find(_, _, _)
Find(m, e, name) ==
  IF e = 0 THEN 0
  ELSE IF name \in DOMAIN m.envs[e].vars THEN m.envs[e].vars[name]
  ELSE Find(m, m.envs[e].outer, name)

SetGlobal(m, name, v) == [m EXCEPT !.globals = With(@, name, v)]
Lookup(m, e, name) ==
  LET cell == IF e = 0 THEN 0 ELSE IF name \in m.envs[e].globals THEN 0 ELSE Find(m, e, name)
  IN  IF cell # 0 THEN m.cells[cell]
      ELSE IF name \in DOMAIN m.globals THEN m.globals[name]
      ELSE IF name \in Builtins THEN Builtin(name) ELSE Nil

(* A variable of the call itself, made when it has none.                   *)
SetOwn(m, e, name, v) ==
  IF name \in DOMAIN m.envs[e].vars THEN [m EXCEPT !.cells[m.envs[e].vars[name]] = v]
  ELSE [m EXCEPT !.cells = Append(@, v), !.envs[e].vars = With(@, name, Len(m.cells) + 1)]
(* The variable that the name means here: of the call or outside it.       *)
SetFound(m, e, name, v) ==
  LET cell == Find(m, e, name)
  IN  IF cell = 0 THEN SetGlobal(m, name, v) ELSE [m EXCEPT !.cells[cell] = v]
SetVar(m, e, name, v) ==
  IF e = 0 THEN SetGlobal(m, name, v)
  ELSE IF name \in m.envs[e].globals THEN SetGlobal(m, name, v)
  ELSE IF name \in m.envs[e].nonlocals THEN SetFound(m, m.envs[e].outer, name, v)
  ELSE SetOwn(m, e, name, v)
AssignTo(m, e, name, v) ==
  IF e = 0 THEN SetGlobal(m, name, v)
  ELSE IF name \in m.envs[e].globals THEN SetGlobal(m, name, v) ELSE SetFound(m, e, name, v)

RECURSIVE Yields(_)
YieldsIn(stmts) == \E i \in DOMAIN stmts : Yields(stmts[i])
Yields(s) ==
  \/ s.k \in {"expr", "var"} /\ s.e.k \in {"yield", "yieldfrom"}
  \/ s.k \in {"for", "while", "try", "with"} /\ YieldsIn(s.body)
  \/ s.k = "if" /\ \E i \in DOMAIN s.arms : YieldsIn(s.arms[i].body)

RECURSIVE Eval(_, _, _), Exec(_, _, _), Apply(_, _, _, _), RunWhile(_, _, _), RunFor(_, _, _, _),
          EvalClauses(_, _, _, _), RunArms(_, _, _, _), RunDefers(_, _), EvalCall(_, _, _), Store(_, _, _, _),
          RunJob(_, _), EvalOn(_, _, _), RunOn(_, _, _), EvalEach(_, _, _, _, _), StoreEach(_, _, _, _)
EvalOn(r, e, xs) ==
  IF xs = <<>> \/ r.sig # "next" THEN r
  ELSE LET one == Eval(r.m, e, Head(xs))
       IN  EvalOn(Result(one.m, one.sig, IF one.sig = "next" THEN Append(r.v, one.v) ELSE one.v), e, Tail(xs))
RunOn(r, e, stmts) ==
  IF stmts = <<>> \/ r.sig # "next" THEN r ELSE RunOn(Exec(r.m, e, Head(stmts)), e, Tail(stmts))
EvalAll(m, e, xs) == EvalOn(Normal(m, <<>>), e, xs)
RunAll(m, e, stmts) == RunOn(Normal(m, Nil), e, stmts)

(* The targets of a loop: one takes the element, more share it out.        *)
SetAll(m, e, names, s) == FoldLeft(LAMBDA n, i : SetOwn(n, e, names[i], s[i]), m, [i \in DOMAIN names |-> i])
Unpackable(m, n, v) == v.t \in {"list", "tuple"} /\ Len(Elements(m.objects, v)) = n
SetTargets(m, e, names, v) ==
  IF Len(names) = 1 THEN SetOwn(m, e, names[1], v) ELSE SetAll(m, e, names, Elements(m.objects, v))

(* What is left of what is iterated is m.iters[it].                        *)
Iterated(m, v, next(_, _)) ==
  IF v.t = "gen" THEN next(m, v.v)
  ELSE IF ~Iterates(v) THEN Failure(m)
  ELSE next([m EXCEPT !.iters = Append(@, CollectIter(m.objects, v))], Len(m.iters) + 1)
Iterating(m, v, next(_, _)) ==
  LET method == MethodOf(m.objects, v, "__iter__")
  IN  IF method = <<>> THEN Iterated(m, v, next)
      ELSE Then(Apply(m, method[1], <<v>>, FALSE), LAMBDA q : Iterated(q.m, q.v, next))
Left(m, it) == m.iters[it]
Taken(m, it) == [m EXCEPT !.iters[it] = Tail(@)]

-----------------------------------------------------------------------------
(* Comprehensions: r.v holds the elements so far.                          *)
EvalEach(r, e, comp, i, it) ==
  IF r.sig # "next" \/ Left(r.m, it) = <<>> THEN r
  ELSE LET names == comp.clauses[i].names
           next == Left(r.m, it)[1]
           m == SetTargets(Taken(r.m, it), e, names, next)
       IN  IF Len(names) > 1 /\ ~Unpackable(r.m, Len(names), next) THEN Failure(r.m)
           ELSE EvalEach(EvalClauses(Normal(m, r.v), e, comp, i), e, comp, i, it)
ElementOf(m, e, comp) ==
  IF comp.k = "dictcomp" THEN EvalAll(m, e, comp.e) ELSE Eval(m, e, comp.e)
EvalClauses(r, e, comp, i) ==
  IF i < Len(comp.clauses)
    THEN Then(Eval(r.m, e, comp.clauses[i + 1].e), LAMBDA q :
           Iterating(q.m, q.v, LAMBDA m, it : EvalEach(Normal(m, r.v), e, comp, i + 1, it)))
  ELSE LET kept == IF i = 0 \/ comp.cond = <<>> THEN Normal(r.m, Bool(TRUE))
                   ELSE Eval(r.m, e, comp.cond[1])
       IN  Then(kept, LAMBDA q : IF ~Truthy(q.m.objects, q.v) THEN Normal(q.m, r.v)
             ELSE Then(ElementOf(q.m, e, comp), LAMBDA w : Normal(w.m, Append(r.v, w.v))))
DictOfPairs(h, s) == FoldLeft(LAMBDA d, pair : Put(h, d, pair[1], pair[2]), <<>>, s)
Container(m, k, s) ==
  LET keys == IF k = "dict" THEN {s[i][1] : i \in DOMAIN s} ELSE IF k = "set" THEN Range(s) ELSE {}
      h == m.objects
  IN  IF \E key \in keys : ~Hashable(key) THEN Failure(m)
      ELSE ResultOf(m, CASE k = "list" -> NewList(h, s)
                         [] k = "tuple" -> Fine(h, Tuple(s))
                         [] k = "set" -> New(h, "set", Union(h, <<>>, s))
                         [] k = "dict" -> New(h, "dict", DictOfPairs(h, s)))
GeneratorOf(m, s) == Normal([m EXCEPT !.iters = Append(@, s)], Value("gen", Len(m.iters) + 1))
ContainerOf == [comp |-> "list", setcomp |-> "set", dictcomp |-> "dict"]
EvalComp(m, e, x) ==
  LET inner == [m EXCEPT !.envs = Append(@, NewEnv(e, IF e = 0 THEN "" ELSE m.envs[e].class))]
  IN  Then(EvalClauses(Normal(inner, <<>>), Len(inner.envs), x, 0), LAMBDA q :
        IF x.k = "gencomp" THEN GeneratorOf(q.m, q.v) ELSE Container(q.m, ContainerOf[x.k], q.v))

-----------------------------------------------------------------------------
(* Calls: parameters with defaults and rest, the body, the defers.  A      *)
(* method may have arguments too many.                                     *)
Arguments(m, params, args) ==
  [i \in DOMAIN params |->
     IF params[i].rest THEN Value("list", Len(m.objects) + 1)
     ELSE IF i <= Len(args) THEN args[i] ELSE LET d == params[i].default[1] IN IF d.k = "nil" THEN Nil ELSE d.v]
Accepts(params, n, exact) ==
  /\ \A i \in DOMAIN params : i > n => params[i].rest \/ params[i].default # <<>>
  /\ ~exact \/ n <= Len(params) \/ \E i \in DOMAIN params : params[i].rest
RunDefers(r, e) ==
  LET left == r.m.envs[e].defers
  IN  IF left = <<>> THEN r
      ELSE LET d == Last(left)
               one == EvalCall([r.m EXCEPT !.envs[e].defers = Front(@)], d[1], Tail(d))
           IN  RunDefers(IF one.sig = "next" THEN [r EXCEPT !.m = one.m] ELSE one, e)
Apply(m, f, args, exact) ==
  LET e == Len(m.envs) + 1
      params == f.v.params
      made == [m EXCEPT !.envs = Append(@, NewEnv(f.v.env, f.v.class)), !.yielded = <<>>]
      begun == SetAll(made, e, [i \in DOMAIN params |-> params[i].name], Arguments(m, params, args))
      rest == IF params # <<>> /\ Last(params).rest
                THEN [begun EXCEPT !.objects = Append(@, SubSeq(args, Len(params), Len(args)))] ELSE begun
      body == RunDefers(RunAll(rest, e, f.v.body), e)
      after == [body.m EXCEPT !.yielded = m.yielded]
  IN  IF ~Accepts(params, Len(args), exact) THEN Failure(m)
      ELSE IF body.sig \in {"throw", "fail"} THEN Result(after, body.sig, body.v)
      ELSE IF YieldsIn(f.v.body) THEN GeneratorOf(after, body.m.yielded)
      ELSE Normal(after, IF body.sig = "return" THEN body.v ELSE Nil)

RunJob(m, job) ==
  IF job.left = <<>> THEN ResultOf(m, FinishJob(m.objects, job))
  ELSE Then(EvalCall(m, job.fn, CallbackArgs(job)), LAMBDA q : RunJob(q.m, Advance(q.m.objects, job, q.v)))
EvalNative(m, name, args) ==
  LET job == StartJob(m.objects, name, args)
      method == MethodOf(m.objects, args[1], "__len__")
  IN  IF WrongArity(name, Len(args)) THEN Failure(m)
      ELSE IF name = "len" /\ args[1].t = "instance"
        THEN IF method = <<>> THEN Failure(m)
             ELSE Then(Apply(m, method[1], args, FALSE), LAMBDA q : IF q.v.t = "int" THEN q ELSE Failure(q.m))
      ELSE IF name \in Jobs /\ ~CallsBack(m.objects, name, args) THEN Failure(m)
      ELSE IF job # <<>> THEN RunJob(m, job[1])
      ELSE ResultOf(m, NativeResult(m.objects, name, args))
EvalNew(m, class, args) ==
  LET made == New(m.objects, "instance", [class |-> class.v, fields |-> << >>])
      init == FindMethod(m.objects, class.v, "__init__")
      n == [m EXCEPT !.objects = made.h]
  IN  IF init # <<>> THEN Then(Apply(n, init[1], <<made.v>> \o args, FALSE), LAMBDA q : Normal(q.m, made.v))
      ELSE IF args = <<>> THEN Normal(n, made.v) ELSE Failure(m)
(* Of a generator, what has not been asked for yet is left.                *)
EvalGenerator(m, it, name) ==
  CASE name = "__iter__" -> Normal(m, Value("gen", it))
    [] name = "close" -> Normal([m EXCEPT !.iters[it] = <<>>], Nil)
    [] name = "__next__" -> IF Left(m, it) = <<>> THEN Result(m, "throw", Exhausted) ELSE Normal(Taken(m, it), Left(m, it)[1])
    [] OTHER -> Failure(m)
EvalCall(m, f, args) ==
  LET call == MethodOf(m.objects, f, "__call__")
  IN  CASE f.t = "fn" -> Apply(m, f, args, TRUE)
        [] f.t = "native" -> EvalNative(m, f.v, args)
        [] f.t = "bound" ->
             IF f.v.method.t = "native" THEN EvalNative(m, f.v.method.v, <<f.v.self>> \o args)
             ELSE Apply(m, f.v.method, <<f.v.self>> \o args, FALSE)
        [] f.t = "class" -> EvalNew(m, f, args)
        [] f.t = "instance" -> IF call = <<>> THEN Failure(m) ELSE Apply(m, call[1], <<f>> \o args, FALSE)
        [] f.t = "excclass" -> Normal(m, Exception(f.v, IF args = <<>> THEN Nil ELSE args[1]))
        [] f.t = "genmethod" -> EvalGenerator(m, f.v[1], f.v[2])
        [] OTHER -> Failure(m)

(* A method of the instance's class where there is one, else of the data.  *)
Overridden(m, subject, name, args, r) ==
  LET method == MethodOf(m.objects, subject, name)
  IN  IF method # <<>> THEN EvalCall(m, Bound(subject, method[1]), args) ELSE ResultOf(m, r)

-----------------------------------------------------------------------------
(* Operators, by their names in the source.                                *)
OperatorOf ==
  ("+" :> <<"ADD", "__add__">>) @@ ("-" :> <<"SUBTRACT", "__sub__">>) @@ ("*" :> <<"MULTIPLY", "__mul__">>)
  @@ ("//" :> <<"FLOOR_DIVIDE", "__floordiv__">>) @@ ("%" :> <<"MODULO", "__mod__">>) @@ ("**" :> <<"POWER", "__pow__">>)
  @@ ("==" :> <<"EQUAL", "__eq__">>) @@ ("!=" :> <<"NOT_EQUAL", "__ne__">>) @@ ("<" :> <<"LESS", "__lt__">>)
  @@ (">" :> <<"GREATER", "__gt__">>) @@ ("<=" :> <<"LESS_EQUAL", "__le__">>) @@ (">=" :> <<"GREATER_EQUAL", "__ge__">>)
  @@ ("&" :> <<"BIT_AND", "">>) @@ ("|" :> <<"BIT_OR", "">>) @@ ("^" :> <<"BIT_XOR", "">>) @@ ("<<" :> <<"LEFT_SHIFT", "">>)
  @@ (">>" :> <<"RIGHT_SHIFT", "">>) @@ ("is" :> <<"IS", "">>) @@ ("in" :> <<"IN", "">>)
Calculated(m, op, l, r) ==
  IF op = "in" THEN Overridden(m, r, "__contains__", <<l>>, In(m.objects, r, l))
  ELSE Overridden(m, l, OperatorOf[op][2], <<r>>, Operation(m.objects, OperatorOf[op][1], l, r))
UnaryResult(h, op, v) ==
  CASE op = "not" -> Fine(h, Bool(~Truthy(h, v))) [] op = "-" -> Negate(h, v) [] op = "~" -> BitNot(h, v)

ItemOf1(m, object, key) == Overridden(m, object, "__getitem__", <<key>>, GetItem(m.objects, object, key))
EvalDot(m, object, name) ==
  LET found == Attribute(m.objects, object, name)
  IN  IF object.t = "gen" THEN Normal(m, Value("genmethod", <<object.v, name>>))
      ELSE IF found # <<>> THEN Normal(m, found[1])
      ELSE IF object.t = "module" THEN Result(m, "throw", NoSuchName(name)) ELSE Failure(m)
EvalSuper(m, e, name) ==
  LET method == IF e = 0 THEN <<>> ELSE SuperMethod(m.objects, m.globals, m.envs[e].class, name)
  IN  IF method = <<>> THEN Failure(m) ELSE Normal(m, Bound(Lookup(m, e, "self"), method[1]))
EvalSlice(m, e, x) ==
  Then(EvalAll(m, e, <<x.e>> \o x.start \o x.stop \o x.step), LAMBDA q :
    LET bound(present, i) == IF present = <<>> THEN <<>> ELSE <<q.v[i].v>>
        stop == 2 + Len(x.start)
        step == bound(x.step, stop + Len(x.stop))
    IN  IF \E i \in 2..Len(q.v) : q.v[i].t # "int" THEN Failure(q.m)
        ELSE ResultOf(q.m, SliceObject(q.m.objects, q.v[1], bound(x.start, 2), bound(x.stop, stop),
                                       IF step = <<>> THEN 1 ELSE step[1])))

(* An assignment: to what the target is, or, of a tuple, to each.          *)
StoreEach(m, e, targets, s) ==
  IF targets = <<>> THEN Normal(m, Nil)
  ELSE Then(Store(m, e, Head(targets), Head(s)), LAMBDA q : StoreEach(q.m, e, Tail(targets), Tail(s)))
Store(m, e, target, v) ==
  CASE target.k = "name" -> Normal(AssignTo(m, e, target.name, v), Nil)
    [] target.k = "index" ->
         Then(EvalAll(m, e, <<target.e, target.i>>), LAMBDA q :
           Overridden(q.m, q.v[1], "__setitem__", <<q.v[2], v>>, SetItem(q.m.objects, q.v[1], q.v[2], v)))
    [] target.k = "dot" ->
         Then(Eval(m, e, target.e), LAMBDA q : ResultOf(q.m, SetAttribute(q.m.objects, q.v, target.name, v)))
    [] target.k = "tuple" ->
         IF Unpackable(m, Len(target.es), v) THEN StoreEach(m, e, target.es, Elements(m.objects, v)) ELSE Failure(m)
CompoundOf(op) == CHOOSE b \in DOMAIN OperatorOf : b \o "=" = op
Assign(m, e, x) ==
  LET value == IF x.op = "=" THEN Eval(m, e, x.e)
               ELSE Then(EvalAll(m, e, <<x.target, x.e>>), LAMBDA q : Calculated(q.m, CompoundOf(x.op), q.v[1], q.v[2]))
  IN  Then(value, LAMBDA q : Then(Store(q.m, e, x.target, q.v), LAMBDA w : Normal(w.m, q.v)))

YieldAll(m, v) == Iterating(m, v, LAMBDA n, it : Normal([n EXCEPT !.yielded = @ \o Left(n, it), !.iters[it] = <<>>], Nil))
Eval(m, e, x) ==
  CASE x.k = "const" -> Normal(m, x.v)
    [] x.k = "nil" -> Normal(m, Nil)
    [] x.k = "name" -> Normal(m, Lookup(m, e, x.name))
    [] x.k = "group" -> Eval(m, e, x.e)
    [] x.k = "fn" -> Normal(m, FunctionOf(x, e, IF e = 0 THEN "" ELSE m.envs[e].class))
    [] x.k \in {"and", "or"} ->
         Then(Eval(m, e, x.l), LAMBDA q : IF Truthy(q.m.objects, q.v) = (x.k = "or") THEN q ELSE Eval(q.m, e, x.r))
    [] x.k = "ternary" ->
         Then(Eval(m, e, x.c), LAMBDA q : Eval(q.m, e, IF Truthy(q.m.objects, q.v) THEN x.y ELSE x.n))
    [] x.k = "binary" -> Then(EvalAll(m, e, <<x.l, x.r>>), LAMBDA q : Calculated(q.m, x.op, q.v[1], q.v[2]))
    [] x.k = "unary" -> Then(Eval(m, e, x.e), LAMBDA q : ResultOf(q.m, UnaryResult(q.m.objects, x.op, q.v)))
    [] x.k = "assign" -> Assign(m, e, x)
    [] x.k = "call" -> Then(EvalAll(m, e, <<x.f>> \o x.args), LAMBDA q : EvalCall(q.m, q.v[1], Tail(q.v)))
    [] x.k = "index" -> Then(EvalAll(m, e, <<x.e, x.i>>), LAMBDA q : ItemOf1(q.m, q.v[1], q.v[2]))
    [] x.k = "slice" -> EvalSlice(m, e, x)
    [] x.k = "dot" -> Then(Eval(m, e, x.e), LAMBDA q : EvalDot(q.m, q.v, x.name))
    [] x.k = "super" -> EvalSuper(m, e, x.name)
    [] x.k \in {"list", "tuple", "set"} -> Then(EvalAll(m, e, x.es), LAMBDA q : Container(q.m, x.k, q.v))
    [] x.k = "dict" ->
         Then(EvalAll(m, e, FlattenSeq(x.pairs)), LAMBDA q :
           Container(q.m, "dict", [i \in DOMAIN x.pairs |-> <<q.v[2 * i - 1], q.v[2 * i]>>]))
    [] x.k = "yield" ->
         Then(EvalAll(m, e, x.e), LAMBDA q :
           Normal([q.m EXCEPT !.yielded = Append(@, IF q.v = <<>> THEN Nil ELSE q.v[1])], Nil))
    [] x.k = "yieldfrom" -> Then(Eval(m, e, x.e), LAMBDA q : YieldAll(q.m, q.v))
    [] x.k \in {"comp", "setcomp", "dictcomp", "gencomp"} -> EvalComp(m, e, x)

-----------------------------------------------------------------------------
(* Statements.                                                             *)
RunArms(m, e, arms, other) ==
  IF arms = <<>> THEN RunAll(m, e, other)
  ELSE Then(Eval(m, e, arms[1].c), LAMBDA q :
         IF Truthy(q.m.objects, q.v) THEN RunAll(q.m, e, arms[1].body) ELSE RunArms(q.m, e, Tail(arms), other))

RunWhile(m, e, s) ==
  Then(Eval(m, e, s.c), LAMBDA q :
    IF ~Truthy(q.m.objects, q.v) THEN Normal(q.m, Nil)
    ELSE LET body == RunAll(q.m, e, s.body)
         IN  IF body.sig \in {"next", "continue"} THEN RunWhile(body.m, e, s)
             ELSE IF body.sig = "break" THEN Normal(body.m, Nil) ELSE body)
RunFor(m, e, s, it) ==
  IF Left(m, it) = <<>> THEN Normal(m, Nil)
  ELSE IF Len(s.names) > 1 /\ ~Unpackable(m, Len(s.names), Left(m, it)[1]) THEN Failure(m)
  ELSE LET body == RunAll(SetTargets(Taken(m, it), e, s.names, Left(m, it)[1]), e, s.body)
       IN  IF body.sig \in {"next", "continue"} THEN RunFor(body.m, e, s, it)
           ELSE IF body.sig = "break" THEN Normal(body.m, Nil) ELSE body

Handling(r, e, s) ==
  LET name(clause) == IF clause.type = <<>> THEN "Error" ELSE Last(clause.type)
      matching == SelectSeq(s.clauses, LAMBDA clause : Catches(r.v, name(clause)))
  IN  IF r.sig # "throw" THEN r
      ELSE IF matching = <<>> THEN r
      ELSE LET bound == IF matching[1].alias = "" THEN r.m ELSE SetOwn(r.m, e, matching[1].alias, r.v)
               body == RunAll([bound EXCEPT !.envs[e].exc = <<r.v>>], e, matching[1].body)
           IN  [body EXCEPT !.m.envs[e].exc = r.m.envs[e].exc]
RunTry(m, e, s) ==
  LET r == Handling(RunAll(m, e, s.body), e, s)
      after == RunAll(r.m, e, s.finally)
  IN  IF r.sig = "fail" THEN r
      ELSE IF after.sig = "next" THEN [r EXCEPT !.m = after.m] ELSE after

(* with: __exit__ is told of an exception of the body, and may stop it.    *)
ExitWith(body, e, context) ==
  LET thrown == body.sig = "throw"
      part(name) == IF thrown THEN Attribute(body.m.objects, body.v, name)[1] ELSE Nil
      exit == EvalDot(body.m, context, "__exit__")
      done == Then(exit, LAMBDA q : EvalCall(q.m, q.v, <<context, part("type"), part("message"), part("traceback")>>))
  IN  IF body.sig = "fail" THEN body
      ELSE Then(done, LAMBDA q : IF thrown /\ Truthy(q.m.objects, q.v) THEN Normal(q.m, Nil) ELSE [body EXCEPT !.m = q.m])
RunWith(m, e, s) ==
  Then(Eval(m, e, s.e), LAMBDA q :
    Then(EvalDot(q.m, q.v, "__enter__"), LAMBDA enter :
      Then(EvalCall(enter.m, enter.v, <<q.v>>), LAMBDA w :
        ExitWith(RunAll(IF s.alias = "" THEN w.m ELSE SetOwn(w.m, e, s.alias, w.v), e, s.body), e, q.v))))

(* class: the global is there before its attributes and methods.           *)
Declare(m, e, name, v) == IF e = 0 THEN SetGlobal(m, name, v) ELSE SetOwn(m, e, name, v)
ClassVar(name, var) ==
  [k |-> "assign", target |-> [k |-> "dot", e |-> [k |-> "name", name |-> name], name |-> var[1]], op |-> "=", e |-> var[2]]
ExecClass(m, e, s) ==
  LET parent == IF s.parent = "" THEN Value("class", ObjectClass) ELSE Lookup(m, e, s.parent)
      made == New(m.objects, "class", NewClass(s.name, parent.v))
      known == SetGlobal([m EXCEPT !.objects = made.h], s.name, made.v)
      vars == [i \in DOMAIN s.vars |-> ClassVar(s.name, s.vars[i])]
      method(n, f) == [n EXCEPT !.objects[made.v.v].methods = With(@, f.name, FunctionOf(f, e, s.name))]
  IN  IF parent.t # "class" THEN Failure(m)
      ELSE Then(RunAll(known, e, vars), LAMBDA q : Normal(FoldLeft(method, q.m, s.methods), Nil))
RECURSIVE NameOf(_)
NameOf(s) == IF s.k = "decorated" THEN NameOf(s.target) ELSE s.name
ExecDecorated(m, e, s) ==
  Then(Exec(m, e, s.target), LAMBDA q :
    Then(Eval(q.m, e, s.by), LAMBDA by :
      Then(EvalCall(by.m, by.v, <<Lookup(by.m, e, NameOf(s))>>), LAMBDA w : Normal(Declare(w.m, e, NameOf(s), w.v), Nil))))

Thrown(v) == IF v.t = "str" THEN Exception("RuntimeError", v) ELSE v
Exec(m, e, s) ==
  CASE s.k \in {"var", "const"} -> Then(Eval(m, e, s.e), LAMBDA q : Normal(SetVar(q.m, e, s.name, q.v), Nil))
    [] s.k = "assign" -> Then(Assign(m, e, s), LAMBDA q : Normal(q.m, Nil))
    [] s.k = "expr" -> Then(Eval(m, e, s.e), LAMBDA q : Normal(q.m, Nil))
    [] s.k = "if" -> RunArms(m, e, s.arms, s.other)
    [] s.k = "while" -> RunWhile(m, e, s)
    [] s.k = "for" ->
         Then(Eval(m, e, s.e), LAMBDA q : Iterating(q.m, q.v, LAMBDA n, it : RunFor(n, e, s, it)))
    [] s.k \in {"break", "continue"} -> Result(m, s.k, Nil)
    [] s.k = "return" ->
         Then(EvalAll(m, e, s.es), LAMBDA q :
           Result(q.m, "return", CASE q.v = <<>> -> Nil [] Len(q.v) = 1 -> q.v[1] [] OTHER -> Tuple(q.v)))
    [] s.k = "nonlocal" -> Normal([m EXCEPT !.envs[e].nonlocals = @ \cup s.names], Nil)
    [] s.k = "global" -> Normal([m EXCEPT !.envs[e].globals = @ \cup s.names], Nil)
    [] s.k = "defer" ->
         Then(EvalAll(m, e, <<s.e.f>> \o s.e.args),
              LAMBDA q : Normal([q.m EXCEPT !.envs[e].defers = Append(@, q.v)], Nil))
    [] s.k = "try" -> RunTry(m, e, s)
    [] s.k = "with" -> RunWith(m, e, s)
    [] s.k = "throw" ->
         IF s.e = <<>>
           THEN Result(m, "throw", IF e = 0 \/ m.envs[e].exc = <<>> THEN NothingToRethrow ELSE m.envs[e].exc[1])
         ELSE Then(Eval(m, e, s.e[1]), LAMBDA q :
                IF Thrown(q.v).t = "exc" THEN Result(q.m, "throw", Thrown(q.v)) ELSE Failure(q.m))
    [] s.k = "fn" -> Normal(Declare(m, e, s.name, FunctionOf(s, e, IF e = 0 THEN "" ELSE m.envs[e].class)), Nil)
    [] s.k = "class" -> ExecClass(m, e, s)
    [] s.k = "decorated" -> ExecDecorated(m, e, s)

-----------------------------------------------------------------------------
NewMemory == [cells |-> <<>>, envs |-> <<>>, globals |-> << >>, objects |-> FirstHeap, yielded |-> <<>>, iters |-> <<>>]
Means(program) ==
  LET r == RunAll(NewMemory, 0, program)
  IN  Seen(CASE r.sig = "next" -> "ended" [] r.sig = "throw" -> "uncaught" [] OTHER -> "failed",
           r.m.objects, r.m.globals)
=============================================================================
