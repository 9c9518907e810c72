------------------------------- MODULE Calls -------------------------------
(***************************************************************************)
(* The state of the interpreter, and how it calls: functions, bound        *)
(* methods, classes, natives and generators.                               *)
(*                                                                         *)
(* A call that the code makes from Rust and waits for (a constructor's     *)
(* __init__, an operator's method, a generator, a native's callback) runs  *)
(* in a run_loop of its own.  Here such a loop is an entry of `nested`:    *)
(* the depth of the call stack at which it returns, and what is done with  *)
(* its result then.  A native that calls back is such an entry too.        *)
(*                                                                         *)
(* An operation is a function of the state, a record m of the variables.   *)
(* An error (what is no exception of the program) sets m.mode.  A closure  *)
(* holds its function and its upvalues, which are indices into `cells`; a  *)
(* generator is an index into `gens`.  Stack positions count from 1, slots *)
(* from 0.  STACK_MAX and MAX_CALL_DEPTH are not reached, and left out;    *)
(* so are coroutines, causes of exceptions and C functions.                *)
(***************************************************************************)
EXTENDS Natives

CONSTANTS
  NumPrograms,
  Program(_)   \* by number, [fns, bad, means, written, read, handles]: a compiled program, what it means,
               \* of some, how it was written and what was read of each way to write it, and whether
               \* it leaves values to an embedding program

VARIABLES
  prog,      \* the program that runs
  stack,
  frames,    \* call_stack
  handlers,  \* exception_handlers
  defers,    \* defer_stack
  open,      \* open_upvalues: indices into cells
  cells,     \* all upvalues
  gens,      \* all generators
  objects,   \* all lists, dicts, sets, iterators, classes and instances
  globals,
  nested,    \* the run_loops inside the first, innermost last
  slots,     \* gen_call_method, gen_outcome and escaped_exc
  exc,       \* pending_unwind, or what drive_unwind is unwinding: at most one
  mode

vars == <<prog, stack, frames, handlers, defers, open, cells, gens, objects, globals, nested, slots, exc, mode>>

Here ==
  [stack |-> stack, frames |-> frames, handlers |-> handlers, defers |-> defers, open |-> open, cells |-> cells,
   gens |-> gens, objects |-> objects, globals |-> globals, nested |-> nested, slots |-> slots,
   exc |-> exc, mode |-> "run"]

Fn(f) == prog.fns[f]
NewFrame(closure, base, deferBase) ==
  [fn |-> closure.fn, upvalues |-> closure.upvalues, base |-> base, ip |-> 1, deferBase |-> deferBase,
   flushing |-> FALSE, exc |-> <<>>, gen |-> 0]

(* The script's closure is on the stack, in its slot 0.                    *)
Init ==
  /\ \E i \in 1..NumPrograms : prog = Program(i)
  /\ ~prog.bad
  /\ stack = <<Nil>> /\ frames = <<NewFrame([fn |-> Len(prog.fns), upvalues |-> <<>>], 1, 0)>>
  /\ handlers = <<>> /\ defers = <<>> /\ open = <<>> /\ cells = <<>> /\ gens = <<>>
  /\ objects = FirstHeap /\ globals = << >> /\ nested = <<>>
  /\ slots = [method |-> "", outcome |-> <<>>, escaped |-> <<>>]
  /\ exc = <<>> /\ mode = "run"

-----------------------------------------------------------------------------
PushV(m, v) == [m EXCEPT !.stack = Append(@, v)]
PushAll(m, s) == [m EXCEPT !.stack = @ \o s]
Drop(m, n) == [m EXCEPT !.stack = SubSeq(@, 1, Len(@) - n)]
Failed(m) == [m EXCEPT !.mode = "failed"]
(* What an operation on data gives is pushed.                              *)
HeapAfter(m, r) == IF r.h = <<>> THEN m ELSE [m EXCEPT !.objects = r.h]
Gives(m, r) == IF r.ok THEN PushV(HeapAfter(m, r), r.v) ELSE Failed(HeapAfter(m, r))
(* A new exception takes what the frame handles, or what is unwound, as    *)
(* its cause.                                                              *)
Throws(m, e) ==
  [m EXCEPT !.exc = <<e>>, !.mode = "unwind",
            !.frames[Len(m.frames)].exc = IF m.exc = <<>> THEN <<>> ELSE @]
TopFrame(m) == Last(m.frames)
WithTop(m, frame) == [m EXCEPT !.frames[Len(m.frames)] = frame]
Advance1(m) == [m EXCEPT !.frames[Len(m.frames)].ip = @ + 1]
JumpBy(m, n) == [m EXCEPT !.frames[Len(m.frames)].ip = @ + n]

(* A nested loop, and the exceptions that do not leave a callback: those   *)
(* of frames above the innermost bounded one.                              *)
Nest(m, then, x) ==
  [m EXCEPT !.nested = Append(@, [depth |-> Len(m.frames), then |-> then, bounded |-> FALSE, x |-> x])]
Boundary(m) ==
  LET bounded == {i \in DOMAIN m.nested : m.nested[i].bounded}
  IN  IF bounded = {} THEN 0 ELSE m.nested[Max(bounded)].depth

(* After a native function: an exception of one of its callbacks comes     *)
(* before its result.                                                      *)
NativeDone(m, r) ==
  IF m.slots.escaped = <<>> THEN Gives(m, r)
  ELSE Throws([HeapAfter(m, r) EXCEPT !.slots.escaped = <<>>], m.slots.escaped[1])
(* An error ends all loops, but is forgotten in a native that has such an  *)
(* exception to tell of.                                                   *)
NativeLoops == {"job", "len"}
Rescued(m) ==
  LET natives == {i \in DOMAIN m.nested : m.nested[i].then \in NativeLoops}
  IN  IF m.mode \in {"failed", "uncaught"} /\ m.slots.escaped # <<>> /\ natives # {}
        THEN NativeDone([m EXCEPT !.nested = SubSeq(@, 1, Max(natives) - 1)], Wrong)
      ELSE m
Becomes(m) ==
  LET n == Rescued(m)
  IN  /\ stack' = n.stack /\ frames' = n.frames /\ handlers' = n.handlers /\ defers' = n.defers
      /\ open' = n.open /\ cells' = n.cells /\ gens' = n.gens /\ objects' = n.objects
      /\ globals' = n.globals /\ nested' = n.nested /\ slots' = n.slots /\ exc' = n.exc /\ mode' = n.mode
      /\ UNCHANGED prog

-----------------------------------------------------------------------------
(* Upvalues.  An open one is the stack's slot; close_upvalues_from goes    *)
(* through the list from its end and stops at the first lower location.    *)
Location(id) == cells[id].at
Capture_Last(at, ups, cs) ==
  LET same == {i \in DOMAIN ups : cs[ups[i]].at = at}
  IN  IF same # {} THEN [ups |-> ups, id |-> ups[Min(same)], cells |-> cs]
      ELSE [ups |-> Append(ups, Len(cs) + 1), id |-> Len(cs) + 1,
            cells |-> Append(cs, [open |-> TRUE, at |-> at, v |-> Nil])]
Capture(at, ups, cs) ==
  LET higher == {i \in DOMAIN ups : cs[ups[i]].at >= at}
      i == IF higher = {} THEN Len(ups) + 1 ELSE Min(higher)
  IN  IF higher # {} /\ cs[ups[i]].at = at THEN [ups |-> ups, id |-> ups[i], cells |-> cs]
      ELSE [ups |-> InsertAt(ups, i, Len(cs) + 1), id |-> Len(cs) + 1,
            cells |-> Append(cs, [open |-> TRUE, at |-> at, v |-> Nil])]

CloseFrom(m, last) ==
  LET kept == Max({0} \cup {i \in DOMAIN m.open : m.cells[m.open[i]].at < last})
      closed == Range(SubSeq(m.open, kept + 1, Len(m.open)))
  IN  [m EXCEPT !.open = SubSeq(@, 1, kept),
         !.cells = [id \in DOMAIN @ |->
           IF id \in closed THEN [open |-> FALSE, at |-> 0, v |-> m.stack[@[id].at]] ELSE @[id]]]

(* The frame on top is popped, its part of the stack and its upvalues go.  *)
PopFrameOf(m) ==
  LET closed == CloseFrom(m, TopFrame(m).base)
  IN  [closed EXCEPT !.stack = SubSeq(@, 1, TopFrame(m).base - 1), !.frames = Front(@)]
(* pop_generator_frame: the generator keeps them.                          *)
PopGenerator(m, g, state) ==
  [PopFrameOf(m) EXCEPT !.gens[g] =
     [@ EXCEPT !.frame = [TopFrame(m) EXCEPT !.gen = 0], !.state = state,
               !.snapshot = SubSeq(m.stack, TopFrame(m).base, Len(m.stack))]]

-----------------------------------------------------------------------------
(* Functions.  The arguments start at `first`; missing ones take their     *)
(* defaults, the rest goes into a list.  A generator function only makes   *)
(* its generator; else a frame starts at `base`.                           *)
Completed(m, f, first) ==
  LET given == Len(m.stack) - first + 1
      filled == IF given < f.arity THEN m.stack \o SubSeq(f.defaults, given - f.required + 1, f.arity - f.required)
                ELSE m.stack
      end == first + f.arity - 1
      rest == NewList(m.objects, SubSeq(filled, end + 1, Len(filled)))
  IN  IF f.variadic THEN [m EXCEPT !.stack = Append(SubSeq(filled, 1, end), rest.v), !.objects = rest.h]
      ELSE [m EXCEPT !.stack = filled]
NewGenerator(m, frame) ==
  [m EXCEPT !.gens = Append(@, [frame |-> frame, state |-> "suspended", receiver |-> <<>>,
                                snapshot |-> SubSeq(m.stack, frame.base, Len(m.stack))]),
            !.stack = Append(SubSeq(@, 1, frame.base - 1), Value("gen", Len(m.gens) + 1))]
Enter(m, closure, base, first) ==
  LET f == Fn(closure.v.fn)
      full == Completed(m, f, first)
      frame == NewFrame(closure.v, base, Len(m.defers))
  IN  IF f.generator THEN NewGenerator(full, frame) ELSE [full EXCEPT !.frames = Append(@, frame)]
(* Of a method call only what is missing is an error.                      *)
Enough(m, closure, first) == Len(m.stack) - first + 1 >= Fn(closure.v.fn).required
NotTooMany(m, closure, first) ==
  Fn(closure.v.fn).variadic \/ Len(m.stack) - first + 1 <= Fn(closure.v.fn).arity

-----------------------------------------------------------------------------
(* Generators.  To resume one, its part of the stack is put on top.        *)
PushGenerator(m, g) ==
  LET gen == m.gens[g]
  IN  [m EXCEPT !.stack = @ \o gen.snapshot,
                !.frames = Append(@, [gen.frame EXCEPT !.base = Len(m.stack) + 1, !.gen = g]),
                !.gens[g] = [gen EXCEPT !.state = "running", !.snapshot = <<>>]]
Resumed(m, g, then, x) ==
  LET loop == Nest([m EXCEPT !.slots.outcome = <<>>], then, x)
  IN  CASE m.gens[g].state = "running" -> Failed(m)
        [] m.gens[g].state = "exhausted" -> loop
        [] m.gens[g].state = "suspended" -> PushGenerator(loop, g)
Closed(m, g) ==
  CASE m.gens[g].state = "running" -> Failed(m)
    [] m.gens[g].state = "exhausted" -> PushV(m, Nil)
    [] m.gens[g].state = "suspended" ->
         Throws(PushGenerator(Nest([m EXCEPT !.slots.outcome = <<>>], "close", g), g), GeneratorClosed)
(* GET_ATTR has left the method's name in the VM.                          *)
CallGenerator(m, callee) ==
  LET taken == [m EXCEPT !.slots.method = ""]
  IN  CASE m.slots.method = "__next__" -> Resumed(taken, callee.v, "next", 0)
        [] m.slots.method = "close" -> Closed(taken, callee.v)
        [] m.slots.method = "__iter__" -> PushV(taken, callee)
        [] OTHER -> Failed(m)

-----------------------------------------------------------------------------
RECURSIVE CallValue(_, _)

(* A method called from Rust.                                              *)
Invoke(m, method, receiver, args, then, x) ==
  CallValue(PushAll(Nest(m, then, x), <<Bound(receiver, method)>> \o args), Len(args))

NewCallbacks(m, job) ==
  Nest(m, "job", [job |-> job, height |-> Len(m.stack), waiting |-> FALSE])
CallNative(m, name, args) ==
  LET job == StartJob(m.objects, name, args)
      method == MethodOf(m.objects, args[1], "__len__")
  IN  IF name = "len" /\ args[1].t = "instance"
        THEN IF method = <<>> THEN NativeDone(m, Wrong) ELSE Invoke(m, method[1], args[1], <<>>, "len", 0)
      ELSE IF name \in Jobs /\ ~CallsBack(m.objects, name, args) THEN NativeDone(m, Wrong)
      ELSE IF job # <<>> THEN NewCallbacks(m, job[1])
      ELSE NativeDone(m, NativeResult(m.objects, name, args))

(* A class makes an instance, which its __init__ completes.                *)
Construct(m, class, args) ==
  LET made == New(m.objects, "instance", [class |-> class.v, fields |-> << >>])
      init == FindMethod(m.objects, class.v, "__init__")
      n == [m EXCEPT !.objects = made.h]
  IN  IF init # <<>> THEN Invoke(n, init[1], made.v, args, "init", made.v)
      ELSE IF args # <<>> THEN Failed(m) ELSE PushV(n, made.v)

(* The callee and its n arguments are on top of the stack.                 *)
CallValue(m, n) ==
  LET at == Len(m.stack) - n
      callee == m.stack[at]
      args == SubSeq(m.stack, at + 1, Len(m.stack))
      below == [m EXCEPT !.stack = SubSeq(@, 1, at - 1)]
      self == [m EXCEPT !.stack[at] = callee.v.self]
      call == MethodOf(m.objects, callee, "__call__")
  IN  CASE callee.t = "fn" ->
             IF Enough(m, callee, at + 1) /\ NotTooMany(m, callee, at + 1) THEN Enter(m, callee, at, at + 1)
             ELSE Failed(m)
        [] callee.t = "native" -> IF WrongArity(callee.v, n) THEN Failed(m) ELSE CallNative(below, callee.v, args)
        [] callee.t = "bound" ->
             IF callee.v.method.t = "native" THEN CallNative(below, callee.v.method.v, <<callee.v.self>> \o args)
             ELSE IF Enough(m, callee.v.method, at) THEN Enter(self, callee.v.method, at, at) ELSE Failed(m)
        [] callee.t = "class" -> Construct(below, callee, args)
        [] callee.t = "instance" ->
             IF call = <<>> THEN Failed(m)
             ELSE CallValue([m EXCEPT !.stack[at] = Bound(callee, call[1])], n)
        [] callee.t = "excclass" -> PushV(below, Exception(callee.v, IF args = <<>> THEN Nil ELSE args[1]))
        [] callee.t = "gen" -> CallGenerator(below, callee)
        [] OTHER -> Failed(m)

-----------------------------------------------------------------------------
(* The callbacks of a native, one after the other: after an exception they *)
(* go on, with nil for a result, except that a sort gives up.              *)
CallBack(m, loop, job) ==
  LET args == CallbackArgs(job)
      called == CallValue(PushAll(Nest(m, "job", [loop EXCEPT !.job = job, !.waiting = TRUE]), <<job.fn>> \o args),
                          Len(args))
      at == Len(m.nested) + 1
      alone == Len(called.nested) = at /\ Len(called.frames) > Len(m.frames)
  IN  [called EXCEPT !.nested[at].bounded = alone]
NextCallback(m, loop) ==
  LET escaped == m.slots.escaped # <<>>
      kept == IF escaped THEN [m EXCEPT !.stack = SubSeq(@, 1, loop.height)] ELSE Drop(m, 1)
      result == IF escaped THEN Nil ELSE Last(m.stack)
      job == IF loop.waiting THEN Advance(m.objects, loop.job, result) ELSE loop.job
      below == IF loop.waiting THEN kept ELSE m
  IN  IF escaped /\ loop.waiting /\ job.k = "sort" THEN NativeDone(below, Wrong)
      ELSE IF job.left = <<>> THEN NativeDone(below, FinishJob(m.objects, job))
      ELSE CallBack(below, loop, job)

(* An iterator is made of what is iterated; generators are their own.      *)
PushIterator(m, value) ==
  IF value.t = "gen" THEN PushV(m, value)
  ELSE IF ~Iterates(value) THEN Failed(m)
  ELSE Gives(m, New(m.objects, "iter", ToIterator(m.objects, value)))

(* yield_from_step, with what the receiver gave: the generator suspends    *)
(* with it, or goes on after the receiver has ended.                       *)
YieldFromStep(m, g, next, again) ==
  IF next # <<>> THEN [PopGenerator(m, g, "suspended") EXCEPT !.slots.outcome = next]
  ELSE LET n == PushV([m EXCEPT !.gens[g].receiver = <<>>], Nil) IN IF again THEN Advance1(n) ELSE n

(* A nested loop has returned: m is without it.                            *)
Return1(m, loop) ==
  LET outcome == m.slots.outcome
      taken == [m EXCEPT !.slots.outcome = <<>>]
      below == Drop(m, 1)
      result == Last(m.stack)
  IN  CASE loop.then = "keep" -> m
        [] loop.then = "drop" -> below
        [] loop.then = "iter" -> PushIterator(below, result)
        [] loop.then = "init" -> PushV(below, loop.x)
        [] loop.then = "len" -> NativeDone(below, IF result.t = "int" THEN Fine(m.objects, result) ELSE Wrong)
        [] loop.then = "next" -> IF outcome # <<>> THEN PushV(taken, outcome[1]) ELSE Throws(m, Exhausted)
        [] loop.then = "for" -> IF outcome # <<>> THEN PushV(taken, outcome[1]) ELSE JumpBy(m, loop.x)
        [] loop.then = "from" -> YieldFromStep(taken, loop.x.gen, outcome, loop.x.again)
        [] loop.then = "close" -> PushV([m EXCEPT !.gens[loop.x].state = "exhausted"], Nil)
        [] loop.then = "job" -> NextCallback(m, loop.x)
        [] loop.then = "defer" -> [below EXCEPT !.exc = loop.x.exc, !.mode = loop.x.mode]
=============================================================================
