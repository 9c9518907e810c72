------------------------------ MODULE Machine ------------------------------
(***************************************************************************)
(* The interpreter's loop, drive_unwind and what nested loops return to,   *)
(* running what Codegen makes of one of the programs.  An instruction that *)
(* cannot do what it should ends the program.                              *)
(***************************************************************************)
EXTENDS Calls

Depth == Len(frames)
Top == frames[Depth]
Height == Len(stack)
Peek == stack[Height]
Below(n) == stack[Height - n]
Args(n) == SubSeq(stack, Height - n + 1, Height)
At(slot) == Top.base + slot

(* At the top of a loop: it returns, an unwinding that waited for a defer  *)
(* goes on, or an instruction is executed.  When such an unwinding ends,   *)
(* one instruction follows before the loop can return ("late").            *)
Leaves == nested # <<>> /\ Depth <= Last(nested).depth
Resumes == exc # <<>> /\ Top.flushing
Runs == (mode = "run" /\ ~Leaves /\ ~Resumes) \/ mode = "late"
Op == Fn(Top.fn).code[Top.ip]
Executes(ops) == Runs /\ Op.op \in ops

Now == Advance1(Here)
GoTo(ip) == JumpBy(Here, ip - Top.ip)
TopIs(frame) == WithTop(Here, frame)

(* What an instruction takes from the stack has to be there.               *)
Takes ==
  CASE Op.op \in {"BUILD_LIST", "BUILD_TUPLE", "BUILD_SET"} -> Op.x
    [] Op.op = "BUILD_DICT" -> 2 * Op.x
    [] Op.op = "CALL" -> Op.x + 1
    [] Op.op = "GET_SLICE" -> 1 + Len(SelectSeq(Op.x, LAMBDA present : present))
    [] Op.op = "SET_INDEX" -> 3
    [] Op.op \in {"ADD", "SUBTRACT", "MULTIPLY", "FLOOR_DIVIDE", "MODULO", "POWER", "LESS", "GREATER", "LESS_EQUAL",
                  "GREATER_EQUAL", "EQUAL", "NOT_EQUAL", "IN", "IS", "BIT_AND", "BIT_OR", "BIT_XOR", "LEFT_SHIFT",
                  "RIGHT_SHIFT", "DICT_INSERT", "SET_ATTR", "METHOD", "INHERIT", "GET_INDEX"} -> 2
    [] Op.op \in {"CONSTANT", "NIL", "LOAD_LOCAL", "LOAD_GLOBAL", "LOAD_UPVALUE", "CLOSURE", "JUMP", "JUMP_BACK", "BREAK",
                  "CONTINUE", "FOR_ITER", "EXEC_DEFER", "HALT", "TRY_ENTER", "TRY_EXIT", "RETHROW", "FINALLY_END",
                  "CLEAR_CURRENT_EXC", "LOAD_CURRENT_EXC", "LOAD_EXC_TYPE", "LOAD_EXC_MSG", "LOAD_EXC_TB", "CLASS",
                  "GET_SUPER", "YIELD_FROM_RESUME"} -> 0
    [] OTHER -> 1
Does(m) == Becomes(IF Takes <= Height THEN m ELSE Failed(Here))

-----------------------------------------------------------------------------
(* Variables.                                                              *)
Push ==
  /\ Executes({"CONSTANT", "NIL", "DUP"})
  /\ Does(PushV(Now, CASE Op.op = "CONSTANT" -> Op.x [] Op.op = "NIL" -> Nil [] Op.op = "DUP" -> Peek))

(* CLOSE_UPVALUE closes what was captured of the slot that it pops.        *)
Pop ==
  /\ Executes({"POP", "CLOSE_UPVALUE"})
  /\ Does(Drop(IF Op.op = "POP" THEN Now ELSE CloseFrom(Now, Height), 1))

LoadLocal ==
  /\ Executes({"LOAD_LOCAL"})
  /\ Does(IF At(Op.x) <= Height THEN PushV(Now, stack[At(Op.x)]) ELSE Failed(Here))
(* A slot above the stack comes into being: nil up to it.                  *)
StoreLocal ==
  /\ Executes({"STORE_LOCAL"})
  /\ LET rest == Drop(Now, 1)
         padded == PushAll(rest, [i \in 1..(At(Op.x) - Height + 1) |-> Nil])
     IN  Does([padded EXCEPT !.stack[At(Op.x)] = Peek])

LoadGlobal ==
  /\ Executes({"LOAD_GLOBAL"})
  /\ Does(PushV(Now, CASE Op.x \in DOMAIN globals -> globals[Op.x]
                       [] Op.x \in Builtins \ DOMAIN globals -> Builtin(Op.x)
                       [] OTHER -> Nil))
StoreGlobal ==
  /\ Executes({"STORE_GLOBAL"})
  /\ Does([Drop(Now, 1) EXCEPT !.globals = With(@, Op.x, Peek)])

Closure ==
  /\ Executes({"CLOSURE"})
  /\ LET take(acc, u) ==
           IF ~u.local THEN [acc EXCEPT !.ids = Append(@, Top.upvalues[u.index + 1])]
           ELSE LET r == Capture(At(u.index), acc.ups, acc.cells)
                IN  [ups |-> r.ups, cells |-> r.cells, ids |-> Append(acc.ids, r.id)]
         all == FoldLeft(take, [ups |-> open, cells |-> cells, ids |-> <<>>], Fn(Op.x).upvalues)
     IN  Does(PushV([Now EXCEPT !.open = all.ups, !.cells = all.cells],
                    Value("fn", [fn |-> Op.x, upvalues |-> all.ids])))

Id == Top.upvalues[Op.x + 1]
Readable == cells[Id].open => Location(Id) <= Height
LoadUpvalue ==
  /\ Executes({"LOAD_UPVALUE"})
  /\ Does(IF ~Readable THEN Failed(Here)
          ELSE PushV(Now, IF cells[Id].open THEN stack[Location(Id)] ELSE cells[Id].v))
(* The value stays on the stack.                                           *)
StoreUpvalue ==
  /\ Executes({"STORE_UPVALUE"})
  /\ Does(IF ~Readable THEN Failed(Here)
          ELSE IF cells[Id].open THEN [Now EXCEPT !.stack[Location(Id)] = Peek]
          ELSE [Now EXCEPT !.cells[Id].v = Peek])

-----------------------------------------------------------------------------
(* Operators.  An instance's class may have a method for it.               *)
MagicName ==
  [ADD |-> "__add__", SUBTRACT |-> "__sub__", MULTIPLY |-> "__mul__", FLOOR_DIVIDE |-> "__floordiv__", MODULO |-> "__mod__",
   POWER |-> "__pow__", EQUAL |-> "__eq__", NOT_EQUAL |-> "__ne__", LESS |-> "__lt__", GREATER |-> "__gt__",
   LESS_EQUAL |-> "__le__", GREATER_EQUAL |-> "__ge__"] @@ ("IN" :> "__contains__")
PlainOps == {"IS", "BIT_AND", "BIT_OR", "BIT_XOR", "LEFT_SHIFT", "RIGHT_SHIFT"}
Magic(value, name) == MethodOf(objects, value, name)
Binary ==
  /\ Executes(DOMAIN MagicName \cup PlainOps)
  /\ LET subject == IF Op.op = "IN" THEN Peek ELSE Below(1)
         other == IF Op.op = "IN" THEN Below(1) ELSE Peek
         method == IF Op.op \in PlainOps THEN <<>> ELSE Magic(subject, MagicName[Op.op])
         rest == Drop(Now, 2)
     IN  Does(IF method # <<>> THEN Invoke(rest, method[1], subject, <<other>>, "keep", 0)
              ELSE Gives(rest, Operation(objects, Op.op, Below(1), Peek)))
Unary ==
  /\ Executes({"NEGATE", "NOT", "BIT_NOT"})
  /\ Does(Gives(Drop(Now, 1), CASE Op.op = "NEGATE" -> Negate(objects, Peek)
                                [] Op.op = "NOT" -> Fine(objects, Bool(~Truthy(objects, Peek)))
                                [] Op.op = "BIT_NOT" -> BitNot(objects, Peek)))

(* Containers.                                                             *)
DictFrom(s) ==
  FoldLeft(LAMBDA d, i : Put(objects, d, s[2 * i - 1], s[2 * i]), <<>>, [i \in 1..(Len(s) \div 2) |-> i])
Build ==
  /\ Executes({"BUILD_LIST", "BUILD_TUPLE", "BUILD_SET", "BUILD_DICT"})
  /\ LET rest == Drop(Now, Takes)
         s == Args(Takes)
         keys == IF Op.op = "BUILD_DICT" THEN {s[2 * i - 1] : i \in 1..Op.x} ELSE Range(s)
     IN  Does(CASE Op.op = "BUILD_LIST" -> Gives(rest, NewList(objects, s))
                [] Op.op = "BUILD_TUPLE" -> PushV(rest, Tuple(s))
                [] \E key \in keys : ~Hashable(key) -> Failed(Here)
                [] Op.op = "BUILD_SET" -> Gives(rest, New(objects, "set", Union(objects, <<>>, s)))
                [] Op.op = "BUILD_DICT" -> Gives(rest, New(objects, "dict", DictFrom(s))))
Unpack ==
  /\ Executes({"UNPACK"})
  /\ LET s == IF Peek.t \in {"list", "tuple"} THEN Elements(objects, Peek) ELSE <<>>
     IN  Does(IF Peek.t \in {"list", "tuple"} /\ Len(s) = Op.x THEN PushAll(Drop(Now, 1), Reverse(s)) ELSE Failed(Here))

(* A comprehension adds to the container in its slot.                      *)
Insert ==
  /\ Executes({"LIST_APPEND", "SET_ADD", "DICT_INSERT"})
  /\ LET c == stack[At(Op.x)]
         key == IF Op.op = "DICT_INSERT" THEN Below(1) ELSE Peek
         type == CASE Op.op = "LIST_APPEND" -> "list" [] Op.op = "SET_ADD" -> "set" [] Op.op = "DICT_INSERT" -> "dict"
         into == CASE Op.op = "LIST_APPEND" -> Append(objects[c.v], Peek)
                   [] Op.op = "SET_ADD" -> Included(objects, objects[c.v], Peek)
                   [] Op.op = "DICT_INSERT" -> Put(objects, objects[c.v], key, Peek)
     IN  Does(IF At(Op.x) > Height - Takes THEN Failed(Here)
              ELSE IF c.t # type \/ (type # "list" /\ ~Hashable(key)) THEN Failed(Here)
              ELSE [Drop(Now, Takes) EXCEPT !.objects = Changed(objects, c, into)])

GetIndex ==
  /\ Executes({"GET_INDEX"})
  /\ LET method == Magic(Below(1), "__getitem__")
         rest == Drop(Now, 2)
     IN  Does(IF method # <<>> THEN Invoke(rest, method[1], Below(1), <<Peek>>, "keep", 0)
              ELSE Gives(rest, GetItem(objects, Below(1), Peek)))
SetIndex ==
  /\ Executes({"SET_INDEX"})
  /\ LET method == Magic(Below(1), "__setitem__")
         r == SetItem(objects, Below(1), Peek, Below(2))
     IN  Does(IF method # <<>> THEN Invoke(Drop(Now, 3), method[1], Below(1), <<Peek, Below(2)>>, "drop", 0)
              ELSE IF r.ok THEN [Drop(Now, 3) EXCEPT !.objects = r.h] ELSE Failed(Here))
GetSlice ==
  /\ Executes({"GET_SLICE"})
  /\ LET s == Args(Takes)
         place(i) == 1 + Len(SelectSeq(SubSeq(Op.x, 1, i), LAMBDA present : present))
         bound(i) == IF Op.x[i] THEN <<s[place(i)].v>> ELSE <<>>
     IN  Does(IF \E i \in 2..Takes : s[i].t # "int" THEN Failed(Here)
              ELSE Gives(Drop(Now, Takes),
                         SliceObject(objects, s[1], bound(1), bound(2), IF Op.x[3] THEN s[Takes].v ELSE 1)))

-----------------------------------------------------------------------------
(* Classes and attributes.  Of a generator the method's name is left in    *)
(* the VM, for the call that follows.                                      *)
GeneratorMethods == {"__next__", "close", "__iter__"}
GetAttr ==
  /\ Executes({"GET_ATTR"})
  /\ LET found == Attribute(objects, Peek, Op.x)
     IN  Does(IF Peek.t = "gen"
                THEN IF Op.x \in GeneratorMethods THEN [Now EXCEPT !.slots.method = Op.x] ELSE Failed(Here)
              ELSE IF found # <<>> THEN PushV(Drop(Now, 1), found[1])
              ELSE IF Peek.t = "module" THEN Throws(Drop(Now, 1), NoSuchName(Op.x)) ELSE Failed(Here))
SetAttr ==
  /\ Executes({"SET_ATTR"})
  /\ LET r == SetAttribute(objects, Peek, Op.x, Below(1))
     IN  Does(IF r.ok THEN [Drop(Now, 2) EXCEPT !.objects = r.h] ELSE Failed(Here))
Class == Executes({"CLASS"}) /\ Does(Gives(Now, New(objects, "class", NewClass(Op.x, ObjectClass))))
Method ==
  /\ Executes({"METHOD"})
  /\ Does(IF Peek.t # "fn" \/ Below(1).t # "class" THEN Failed(Here)
          ELSE [Drop(Now, 1) EXCEPT !.objects[Below(1).v].methods = With(@, Op.x, Peek)])
Inherit ==
  /\ Executes({"INHERIT"})
  /\ Does(IF Peek.t # "class" \/ Below(1).t # "class" THEN Failed(Here)
          ELSE [Drop(Now, 1) EXCEPT !.objects[Below(1).v].parent = Peek.v])
(* The receiver is whatever is in the frame's slot 0.                      *)
GetSuper ==
  /\ Executes({"GET_SUPER"})
  /\ LET method == SuperMethod(objects, globals, Op.x[1], Op.x[2])
     IN  Does(IF method = <<>> THEN Failed(Here) ELSE PushV(Now, Bound(stack[Top.base], method[1])))

-----------------------------------------------------------------------------
(* The conditional jumps leave the value they test.                        *)
Jump ==
  /\ Executes({"JUMP", "JUMP_BACK", "BREAK", "CONTINUE", "JUMP_IF_FALSE", "JUMP_IF_TRUE"})
  /\ LET jumps == \/ Op.op \notin {"JUMP_IF_FALSE", "JUMP_IF_TRUE"}
                  \/ Truthy(objects, Peek) = (Op.op = "JUMP_IF_TRUE")
     IN  Does(IF jumps THEN GoTo(Op.to) ELSE Now)

Call == Executes({"CALL"}) /\ Does(CallValue(Now, Op.x))
Finished(m) == [m EXCEPT !.mode = IF nested = <<>> THEN "ended" ELSE "run"]
Return ==
  /\ Executes({"RETURN"})
  /\ Does(CASE Top.gen # 0 -> [PopGenerator(Drop(Now, 1), Top.gen, "exhausted") EXCEPT !.slots.outcome = <<>>]
            [] Top.gen = 0 /\ Depth > 1 -> PushV(PopFrameOf(Now), Peek)
            [] OTHER -> Finished(CloseFrom(Here, 1)))
Halt == Executes({"HALT"}) /\ Does(Finished(Drop(CloseFrom(Here, 1), 1)))

(* Iteration.                                                              *)
Iterator ==
  /\ Executes({"ITERATOR"})
  /\ LET method == Magic(Peek, "__iter__")
     IN  Does(IF method # <<>> THEN Invoke(Drop(Now, 1), method[1], Peek, <<>>, "iter", 0)
              ELSE PushIterator(Drop(Now, 1), Peek))
ForIter ==
  /\ Executes({"FOR_ITER"})
  /\ LET it == stack[At(Op.x)]
         next == NextOf(objects[it.v])
         moved(m) == [m EXCEPT !.objects = Changed(objects, it, next.it)]
     IN  Does(IF At(Op.x) > Height THEN Failed(Here)
              ELSE CASE it.t = "gen" -> Resumed(Now, it.v, "for", Op.to - (Top.ip + 1))
                     [] it.t = "iter" -> IF next.v = <<>> THEN moved(GoTo(Op.to)) ELSE PushV(moved(Now), next.v[1])
                     [] OTHER -> Failed(Here))

(* Generators.                                                             *)
Yield ==
  /\ Executes({"YIELD"})
  /\ Does(IF Top.gen = 0 THEN Failed(Here)
          ELSE [PopGenerator(PushV(Drop(Now, 1), Nil), Top.gen, "suspended") EXCEPT !.slots.outcome = <<Peek>>])
FromReceiver(m, again) ==
  LET receiver == m.gens[Top.gen].receiver[1]
      next == NextOf(m.objects[receiver.v])
  IN  IF receiver.t = "gen" THEN Resumed(m, receiver.v, "from", [gen |-> Top.gen, again |-> again])
      ELSE YieldFromStep([m EXCEPT !.objects = Changed(@, receiver, next.it)], Top.gen, next.v, again)
YieldFrom ==
  /\ Executes({"YIELD_FROM"})
  /\ LET rest == Drop(Now, 1)
         made == New(objects, "iter", ToIterator(objects, Peek))
         from(m, value) == FromReceiver([m EXCEPT !.gens[Top.gen].receiver = <<value>>], FALSE)
     IN  Does(IF Top.gen = 0 THEN Failed(Here)
              ELSE IF Peek.t \in {"gen", "iter"} THEN from(rest, Peek)
              ELSE IF Iterates(Peek) THEN from([rest EXCEPT !.objects = made.h], made.v)
              ELSE Failed(Here))
YieldFromResume ==
  /\ Executes({"YIELD_FROM_RESUME"})
  /\ Does(IF Top.gen = 0 THEN Failed(Here)
          ELSE IF gens[Top.gen].receiver = <<>> THEN Now ELSE FromReceiver(Here, TRUE))

(* Defers.  EXEC_DEFER is executed again after each; its result is dropped.*)
Defer ==
  /\ Executes({"DEFER"})
  /\ Does([Drop(Now, 1) EXCEPT !.defers = Append(@, Peek.v)])
HasDefers == Len(defers) > Top.deferBase
TakeDefer(m) ==
  CallValue(PushAll([m EXCEPT !.defers = Front(@)], Last(defers)), Len(Last(defers)) - 1)
ExecDefer ==
  /\ Executes({"EXEC_DEFER"})
  /\ LET flushed == IF Top.flushing THEN Drop(Here, 1) ELSE Here
     IN  Does(IF HasDefers THEN TakeDefer(WithTop(flushed, [Top EXCEPT !.flushing = TRUE]))
              ELSE WithTop(flushed, [Top EXCEPT !.flushing = FALSE, !.ip = @ + 1]))

-----------------------------------------------------------------------------
(* Exceptions.                                                             *)
TryEnter ==
  /\ Executes({"TRY_ENTER"})
  /\ Does([Now EXCEPT !.handlers = Append(@, [at |-> Op.to, frame |-> Depth, height |-> Height])])
TryExit ==
  /\ Executes({"TRY_EXIT"})
  /\ Does([Now EXCEPT !.handlers = IF @ = <<>> THEN @ ELSE Front(@)])
Catch ==
  /\ Executes({"CATCH"})
  /\ Does(PushV(Now, Bool(Len(Op.x) = 1 /\ Catches(Peek, Op.x[1]))))
Forgetting(m) == [m EXCEPT !.frames[Depth].exc = <<>>]
ClearCurrentExc == Executes({"CLEAR_CURRENT_EXC"}) /\ Does(Forgetting(Now))

Throw ==
  /\ Executes({"THROW", "RETHROW", "FINALLY_END"})
  /\ Does(CASE Op.op = "THROW" /\ Peek.t = "exc" -> Throws(Drop(Now, 1), Peek)
            [] Op.op = "THROW" /\ Peek.t = "str" -> Throws(Drop(Now, 1), Exception("RuntimeError", Peek))
            [] Op.op = "RETHROW" -> Throws(Now, IF Top.exc = <<>> THEN NothingToRethrow ELSE Top.exc[1])
            [] Op.op = "FINALLY_END" -> IF Top.exc = <<>> THEN Now ELSE Throws(Forgetting(Now), Top.exc[1])
            [] OTHER -> Failed(Here))

(* What the frame handles, for the __exit__ of a with.                     *)
CurrentExc ==
  /\ Executes({"LOAD_CURRENT_EXC", "LOAD_EXC_TYPE", "LOAD_EXC_MSG", "LOAD_EXC_TB"})
  /\ LET e == Top.exc[1]
     IN  Does(PushV(Now, CASE Top.exc = <<>> -> Nil
                           [] Top.exc # <<>> /\ Op.op = "LOAD_CURRENT_EXC" -> e
                           [] Top.exc # <<>> /\ Op.op = "LOAD_EXC_TYPE" -> Attribute(objects, e, "type")[1]
                           [] Top.exc # <<>> /\ Op.op = "LOAD_EXC_MSG" -> Attribute(objects, e, "message")[1]
                           [] Top.exc # <<>> /\ Op.op = "LOAD_EXC_TB" -> Attribute(objects, e, "traceback")[1]))

-----------------------------------------------------------------------------
(* drive_unwind, one turn of its loop per step: an exception does not      *)
(* leave a callback; else the frame's defers, then its handler, else the   *)
(* frame is popped.                                                        *)
Unwinding == mode \in {"unwind", "resumed"}
Stops(m) == [m EXCEPT !.mode = IF mode = "resumed" THEN "late" ELSE "run"]
Inside == Depth > Boundary(Here)
Resume == mode = "run" /\ ~Leaves /\ Resumes /\ Becomes([Here EXCEPT !.mode = "resumed"])
Escape ==
  /\ Unwinding /\ ~Inside
  /\ Becomes(Stops([Here EXCEPT !.slots.escaped = exc, !.exc = <<>>]))

(* A defer that is a function is left to the loop; what is called from     *)
(* Rust returns here.                                                      *)
FlushDefer ==
  /\ Unwinding /\ Inside /\ HasDefers
  /\ LET frame == [Top EXCEPT !.flushing = TRUE, !.exc = <<>>]
         inside == Nest([TopIs(frame) EXCEPT !.exc = <<>>], "defer", [exc |-> exc, mode |-> mode])
         parked == TakeDefer([TopIs(frame) EXCEPT !.mode = "run"])
     IN  Becomes(IF Len(parked.frames) > Depth /\ parked.nested = nested THEN Stops(parked) ELSE TakeDefer(inside))

Kept == Max({0} \cup {h \in DOMAIN handlers : handlers[h].frame <= Depth})
Handled == Kept > 0 /\ handlers[Kept].frame = Depth
Handle ==
  /\ Unwinding /\ Inside /\ ~HasDefers /\ Handled
  /\ LET h == handlers[Kept]
         caught == TopIs([Top EXCEPT !.exc = exc, !.ip = h.at, !.flushing = FALSE])
     IN  Becomes(Stops([caught EXCEPT !.handlers = SubSeq(@, 1, Kept - 1), !.exc = <<>>,
                                      !.stack = Append(SubSeq(@, 1, h.height), exc[1])]))

(* An exception that leaves a generator's frame, or the script's, ends the *)
(* program, but not the one of close().                                    *)
PopFrame ==
  /\ Unwinding /\ Inside /\ ~HasDefers /\ ~Handled
  /\ LET trimmed == [Here EXCEPT !.handlers = SubSeq(@, 1, Kept)]
         over == [trimmed EXCEPT !.exc = <<>>]
         generator == PopGenerator(over, Top.gen, "exhausted")
     IN  Becomes(CASE Top.gen # 0 /\ exc[1].v.class = "GeneratorExit" -> Stops(generator)
                   [] Top.gen # 0 /\ exc[1].v.class # "GeneratorExit" -> [generator EXCEPT !.mode = "uncaught"]
                   [] Top.gen = 0 /\ Depth > 1 -> [PopFrameOf(trimmed) EXCEPT !.mode = mode]
                   [] OTHER -> [over EXCEPT !.mode = "uncaught"])

(* A nested loop returns.                                                  *)
LeaveNested ==
  /\ mode = "run" /\ Leaves
  /\ Becomes(Return1([Here EXCEPT !.nested = Front(@)], Last(nested)))

Execute ==
  \/ Push \/ Pop \/ LoadLocal \/ StoreLocal \/ LoadGlobal \/ StoreGlobal \/ Closure \/ LoadUpvalue \/ StoreUpvalue
  \/ Binary \/ Unary \/ Build \/ Unpack \/ Insert \/ GetIndex \/ SetIndex \/ GetSlice
  \/ GetAttr \/ SetAttr \/ Class \/ Method \/ Inherit \/ GetSuper
  \/ Jump \/ Call \/ Return \/ Halt \/ Iterator \/ ForIter \/ Yield \/ YieldFrom \/ YieldFromResume
  \/ Defer \/ ExecDefer \/ TryEnter \/ TryExit \/ Catch \/ ClearCurrentExc \/ Throw \/ CurrentExc
Unwind == Resume \/ Escape \/ FlushDefer \/ Handle \/ PopFrame
Next == Execute \/ Unwind \/ LeaveNested

-----------------------------------------------------------------------------
Over == mode \in {"ended", "uncaught", "failed"}

(* The code of every program does what its tree means: it ends the same    *)
(* way, with the same result, whatever was captured, unpacked, inlined,    *)
(* called back, unwound or deferred on the way.                            *)
MeansTheTree == Over => Seen(mode, objects, globals) = prog.means

(* close_upvalues_from may stop at the first lower location: open_upvalues *)
(* is in strictly ascending order of stack slots, holds every open upvalue *)
(* once, and none of a slot that the stack no longer has.                  *)
UpvaluesMatchStack ==
  /\ \A i, j \in DOMAIN open : i < j => Location(open[i]) < Location(open[j])
  /\ Range(open) = {id \in DOMAIN cells : cells[id].open}
  /\ \A i \in DOMAIN open : Location(open[i]) <= Height

(* However a tree is written as the documentation allows, lexer and parser *)
(* find it: with the least parentheses its precedences ask for, the fewest *)
(* spaces between tokens or more of them and comments, each statement next *)
(* to each other one inside a block, where the lexer makes no newline      *)
(* tokens, lines broken after operators, commas and brackets, empty lines. *)
(* What is misspelt is refused.                                            *)
ReadsAsWritten ==
  \A i \in DOMAIN prog.read : prog.read[i] = prog.written

Spec == Init /\ [][Next]_vars
=============================================================================
