------------------------------ MODULE Unwinding ------------------------------
(***************************************************************************)
(* Exceptions, try/except/finally, with and defer: throw and drive_unwind, *)
(* the opcodes they meet, the code the compiler emits for early exits, and *)
(* native functions that call back into the interpreter.                   *)
(*                                                                         *)
(* A program is not given: the running function chooses its next statement.*)
(* A frame remembers the blocks its instruction pointer is in, which is    *)
(* what the compiler knows at that point.  An exception carries no data;   *)
(* the value stack is left out.                                            *)
(***************************************************************************)
EXTENDS Integers, Sequences, FiniteSets, SequencesExt

CONSTANTS
  MaxFrames,  \* bound: length of call_stack
  MaxBlocks,  \* bound: blocks that are open, in all frames together
  MaxOpen,    \* bound: those of each kind of statement
  MaxDefers,  \* bound: length of defer_stack
  MaxNatives  \* bound: native functions and drive_unwinds that wait for one

(* The statements that have a block.                                       *)
Kinds == {"loop", "try", "tryFinally", "with"}

ASSUME ConstantsAssumption ==
  /\ MaxFrames \in Nat \ {0} /\ MaxBlocks \in Nat /\ MaxDefers \in Nat
  /\ MaxNatives \in Nat
  /\ MaxOpen \in [Kinds -> Nat]

VARIABLES
  frames,    \* call_stack
  handlers,  \* exception_handlers
  defers,    \* defer_stack, each entry as the frame that registered it
  rust,      \* what the Rust stack returns to: natives and drive_unwinds
  boundary,  \* unwind_boundary, NoBoundary for None
  pending,   \* pending_unwind is set
  escaped,   \* escaped_exc is set
  mode       \* who runs

vars == <<frames, handlers, defers, rust, boundary, pending, escaped, mode>>

NoBoundary == 0
Returning == -1  \* an early exit that keeps no block: return

(* A block is a part of a statement: its body, the dispatcher of its       *)
(* except clauses, and so on.  An inlined finally is the copy a break,     *)
(* continue or return runs: of the statement at `level`, before those in   *)
(* `rest`; then all but the first `keep` blocks are left.                  *)
Block ==
  [part : {"loop", "body", "dispatch", "except", "finally", "cleanup"},
   kind : Kinds]
Inlined ==
  [part : {"inlined"}, level : 1..MaxBlocks, rest : SUBSET (1..MaxBlocks),
   keep : Returning..MaxBlocks]
Frame ==
  [blocks : Seq(Block \cup Inlined), exc : BOOLEAN, flushing : BOOLEAN,
   base : 0..MaxDefers, leaving : BOOLEAN]
Context ==
  [what : {"native"}, home : 1..MaxFrames, prev : 0..MaxFrames]
    \cup [what : {"unwind"}, before : 1..MaxFrames, as : {"unwind", "resumed"}]

NewFrame_NoSection(base) ==
  [blocks |-> <<>>, exc |-> FALSE, flushing |-> FALSE, base |-> 0, leaving |-> FALSE]
NewFrame(base) ==
  [blocks |-> <<>>, exc |-> FALSE, flushing |-> FALSE, base |-> base, leaving |-> FALSE]

Init ==
  /\ frames = <<NewFrame(0)>> /\ handlers = <<>> /\ defers = <<>>
  /\ rust = <<>> /\ boundary = NoBoundary
  /\ pending = FALSE /\ escaped = FALSE /\ mode = "run"

-----------------------------------------------------------------------------
Depth == Len(frames)
Top == frames[Depth]
Blocks == Top.blocks
WithTop(f) == [frames EXCEPT ![Depth] = f]
WithBlocks(bs) == WithTop([Top EXCEPT !.blocks = bs])
Popped(s, n) == SubSeq(s, 1, Len(s) - n)

(* run_loop, before it fetches an instruction: a callback that is over     *)
(* returns to its native function, and an exception that waited for a      *)
(* closure in defer goes on.  After that the loop fetches an instruction,  *)
(* whatever frame drive_unwind has come to: in mode "late" it is executed  *)
(* although a callback may be over by now.                                 *)
CallbackIsOver == Depth <= boundary
Resumes == pending /\ Top.flushing
Instruction == mode = "late" \/ (mode = "run" /\ ~CallbackIsOver /\ ~Resumes)

Part == IF Blocks = <<>> THEN "function" ELSE Last(Blocks).part
InStatement == Instruction /\ ~Top.leaving /\ Part \notin {"dispatch", "cleanup"}

(* A late instruction follows a call: it does not begin or end a block.    *)
Statement == InStatement /\ mode = "run"

rustVars == <<rust, boundary, escaped>>
OnlyFrames == mode' = "run" /\ UNCHANGED <<handlers, defers, rustVars, pending>>

(* throw, up to drive_unwind: it takes the exception that becomes the      *)
(* cause, the pending one before the one the frame is handling.            *)
Throws(fs) ==
  /\ mode' = "unwind" /\ pending' = FALSE
  /\ frames' = IF pending THEN fs ELSE [fs EXCEPT ![Len(fs)].exc = FALSE]

-----------------------------------------------------------------------------
(* Statements and their ends.                                              *)

Open == UNION {{i} \X DOMAIN frames[i].blocks : i \in DOMAIN frames}
OfKind(kind) == {o \in Open : LET b == frames[o[1]].blocks[o[2]]
                              IN  b.part # "inlined" /\ b.kind = kind}
Enters(kind, part) ==
  /\ Statement /\ Cardinality(Open) < MaxBlocks
  /\ Cardinality(OfKind(kind)) < MaxOpen[kind]
  /\ frames' = WithBlocks(Append(Blocks, [part |-> part, kind |-> kind]))

EnterLoop == Enters("loop", "loop") /\ OnlyFrames
EndLoop == Statement /\ Part = "loop" /\ frames' = WithBlocks(Front(Blocks)) /\ OnlyFrames

EnterTry(kind) ==
  /\ Enters(kind, "body")
  /\ handlers' = Append(handlers, [frame |-> Depth, level |-> Len(Blocks) + 1])
  /\ UNCHANGED <<defers, rustVars, pending, mode>>

(* What follows the body of a try or a with, or an except clause.          *)
GoesTo(part) == [Blocks EXCEPT ![Len(Blocks)].part = part]
AfterTry ==
  CASE Last(Blocks).kind = "try" -> Front(Blocks)
    [] Last(Blocks).kind = "tryFinally" -> GoesTo("finally")
    [] Last(Blocks).kind = "with" -> GoesTo("cleanup")

EndBody ==
  /\ Statement /\ Part = "body"
  /\ handlers' = Popped(handlers, 1) /\ frames' = WithBlocks(AfterTry)
  /\ UNCHANGED <<defers, rustVars, pending, mode>>

EndExcept ==
  /\ Statement /\ Part = "except"
  /\ frames' = WithTop([Top EXCEPT !.blocks = AfterTry, !.exc = FALSE])
  /\ OnlyFrames

(* The except dispatcher: a clause matches, or none does.                  *)
Dispatch ==
  /\ Instruction /\ Part = "dispatch"
  /\ \/ frames' = WithBlocks(GoesTo("except")) /\ OnlyFrames
     \/ /\ Last(Blocks).kind = "tryFinally"
        /\ frames' = WithBlocks(GoesTo("finally")) /\ OnlyFrames
     \/ /\ Last(Blocks).kind = "try"
        /\ Throws(WithBlocks(Front(Blocks)))
        /\ UNCHANGED <<handlers, defers, rustVars>>

(* FINALLY_END throws whatever current_exc the frame has.                  *)
EndFinally ==
  /\ Statement /\ Part = "finally"
  /\ LET over == WithTop([Top EXCEPT !.blocks = Front(Blocks), !.exc = FALSE])
     IN  IF Top.exc THEN Throws(over) /\ UNCHANGED <<handlers, defers, rustVars>>
         ELSE frames' = over /\ OnlyFrames

(* The end of a with: __exit__, a call like any other, suppresses the      *)
(* exception or lets it be thrown again.                                   *)
EndCleanup ==
  /\ Instruction /\ Part = "cleanup"
  /\ \/ /\ frames' = WithTop([Top EXCEPT !.blocks = Front(Blocks), !.exc = FALSE])
        /\ OnlyFrames
     \/ /\ Top.exc /\ Throws(WithBlocks(Front(Blocks)))
        /\ UNCHANGED <<handlers, defers, rustVars>>

(* THROW; RETHROW too, as it throws even when there is nothing to rethrow. *)
Throw == InStatement /\ Throws(frames) /\ UNCHANGED <<handlers, defers, rustVars>>

(* A late instruction that works on the value stack alone.                 *)
Passes == mode = "late" /\ UNCHANGED frames /\ OnlyFrames

-----------------------------------------------------------------------------
(* Early exits.  try_depth and finally_stack are what the compiler knows   *)
(* inside the blocks bs.                                                   *)
TryDepth(bs) == Cardinality({p \in DOMAIN bs : bs[p].part = "body"})
FinallyStack(bs) ==
  {p \in DOMAIN bs : bs[p].part \in {"body", "except"} /\ bs[p].kind = "tryFinally"}
FinallyDepth(bs, p) == TryDepth(SubSeq(bs, 1, p - 1)) + 1

(* A finally that contains the exit it would be inlined into has no end:   *)
(* the compiler does not terminate.                                        *)
Compiles(levels) ==
  \A q \in DOMAIN Blocks : Blocks[q].part = "inlined" => Blocks[q].level \notin levels

(* The next inlined finally, the innermost first, or the jump.             *)
Exits(bs, rest, keep) ==
  IF rest # {}
    THEN [Top EXCEPT !.blocks = Append(bs, [part |-> "inlined", level |-> Max(rest),
                                            rest |-> rest \ {Max(rest)}, keep |-> keep])]
    ELSE IF keep = Returning THEN [Top EXCEPT !.blocks = <<>>, !.leaving = TRUE]
    ELSE [Top EXCEPT !.blocks = SubSeq(bs, 1, keep)]

EarlyExit(tries, levels, keep) ==
  /\ InStatement /\ Compiles(levels) /\ mode' = "run"
  /\ handlers' = Popped(handlers, tries)
  /\ frames' = WithTop(Exits(Blocks, levels, keep))
  /\ UNCHANGED <<defers, rustVars, pending>>

Return == EarlyExit(TryDepth(Blocks), FinallyStack(Blocks), Returning)

(* Loops that enclose the statement; an inlined finally that jumps to a    *)
(* loop around the exit would leave a loop its text is not in: left out.   *)
Loops ==
  {p \in DOMAIN Blocks : /\ Blocks[p].part = "loop"
                         /\ \A q \in p..Len(Blocks) : Blocks[q].part # "inlined"}
TriesIn_All(loop) == TryDepth(Blocks)
TriesIn(loop) == TryDepth(Blocks) - TryDepth(SubSeq(Blocks, 1, loop))
FinallysIn(loop) ==
  {p \in FinallyStack(Blocks) :
     FinallyDepth(Blocks, p) > TryDepth(SubSeq(Blocks, 1, loop))}

Break ==
  /\ Statement /\ Loops # {}
  /\ EarlyExit(TriesIn(Max(Loops)), FinallysIn(Max(Loops)), Max(Loops) - 1)
Continue ==
  /\ Statement /\ Loops # {} /\ Part # "loop"
  /\ EarlyExit(TriesIn(Max(Loops)), FinallysIn(Max(Loops)), Max(Loops))

EndInlined ==
  /\ Statement /\ Part = "inlined"
  /\ frames' = WithTop(Exits(Front(Blocks), Last(Blocks).rest, Last(Blocks).keep))
  /\ OnlyFrames

-----------------------------------------------------------------------------
(* Calls and defers.                                                       *)
Defer ==
  /\ Statement /\ Len(defers) < MaxDefers
  /\ defers' = Append(defers, Depth)
  /\ UNCHANGED <<frames, handlers, rustVars, pending, mode>>

PushesFrame(fs, ds) == Len(fs) < MaxFrames /\ frames' = Append(fs, NewFrame(Len(ds)))
Native == [what |-> "native", home |-> Depth, prev |-> boundary]
EntersNative(below) ==
  /\ Len(below) < MaxNatives
  /\ rust' = Append(below, Native) /\ mode' = "native"

Call ==
  /\ Instruction /\ ~Top.leaving /\ Part # "dispatch"
  /\ \/ PushesFrame(frames, defers) /\ mode' = "run" /\ UNCHANGED rust
     \/ EntersNative(rust) /\ UNCHANGED frames
  /\ UNCHANGED <<handlers, defers, boundary, escaped, pending>>

(* An Err from an instruction, no exception: it ends every native function *)
(* on its way out, but call_value looks at escaped_exc first.  An Err that *)
(* reaches the top abandons everything; what the next input's              *)
(* reset_execution_state clears is cleared here.                           *)
Natives == {i \in DOMAIN rust : rust[i].what = "native"}
Fails(fs, ds) ==
  IF escaped /\ Natives # {}
    THEN /\ rust' = SubSeq(rust, 1, Max(Natives) - 1)
         /\ boundary' = rust[Max(Natives)].prev
         /\ escaped' = FALSE /\ Throws(fs)
         /\ defers' = ds /\ UNCHANGED handlers
    ELSE /\ frames' = <<>> /\ handlers' = <<>> /\ defers' = <<>> /\ rust' = <<>>
         /\ boundary' = IF Natives = {} THEN boundary ELSE rust[Min(Natives)].prev
         /\ pending' = FALSE /\ mode' = "failed" /\ UNCHANGED escaped

Fail == (Instruction \/ mode = "native") /\ Fails(frames, defers)

(* EXEC_DEFER, which is executed again after each defer, and RETURN or, at *)
(* the end of a program, HALT, which ends the run_loop that executes it.   *)
HasDefers == Len(defers) > Top.base
Flushing == WithTop([Top EXCEPT !.flushing = TRUE])
Rest == Popped(defers, 1)
ExecDefer ==
  /\ Instruction /\ Top.leaving /\ HasDefers
  /\ \/ /\ \/ PushesFrame(Flushing, Rest) /\ mode' = "run" /\ UNCHANGED rust
           \/ frames' = Flushing /\ mode' = "run" /\ UNCHANGED rust
           \/ frames' = Flushing /\ EntersNative(rust)
        /\ defers' = Rest /\ UNCHANGED <<handlers, boundary, escaped, pending>>
     \/ Fails(Flushing, Rest)
DefersAreDone ==
  /\ Instruction /\ Top.leaving /\ ~HasDefers /\ Top.flushing
  /\ frames' = WithTop([Top EXCEPT !.flushing = FALSE]) /\ OnlyFrames
ReturnFromFrame ==
  /\ Instruction /\ Top.leaving /\ ~HasDefers /\ ~Top.flushing
  /\ IF Depth > 1 THEN frames' = Front(frames) /\ mode' = "run"
     ELSE UNCHANGED frames /\ mode' = IF rust = <<>> THEN "ended" ELSE "run"
  /\ UNCHANGED <<handlers, defers, rustVars, pending>>

(* call_function, as map, filter, reduce and sort use it: some go on after *)
(* a callback's exception escaped, some do not.                            *)
NativeCallsBack ==
  /\ mode = "native" /\ PushesFrame(frames, defers)
  /\ boundary' = Depth /\ mode' = "run"
  /\ UNCHANGED <<handlers, defers, rust, escaped, pending>>
CallbackReturns ==
  /\ mode = "run" /\ CallbackIsOver
  /\ boundary' = Last(rust).prev /\ mode' = "native"
  /\ UNCHANGED <<frames, handlers, defers, rust, escaped, pending>>

(* The return of a native function to call_value, which throws what        *)
(* escaped from its callbacks; otherwise to the instruction or to          *)
(* drive_unwind, which go on.                                              *)
WaitsIn(context) == context # <<>> /\ Last(context).what = "unwind"
NativeReturns_Ignores ==
  /\ mode = "native" /\ rust' = Front(rust) /\ mode' = "run"
  /\ UNCHANGED <<frames, handlers, defers, boundary, pending, escaped>>
NativeReturns ==
  /\ mode = "native" /\ UNCHANGED <<handlers, defers, boundary>>
  /\ LET below == Front(rust)
     IN  IF escaped THEN rust' = below /\ escaped' = FALSE /\ Throws(frames)
         ELSE /\ rust' = IF WaitsIn(below) THEN Front(below) ELSE below
              /\ mode' = IF WaitsIn(below) THEN Last(below).as ELSE "run"
              /\ UNCHANGED <<frames, pending, escaped>>

-----------------------------------------------------------------------------
(* drive_unwind, one turn of its loop per step; mode is "resumed" when     *)
(* run_loop called it, "unwind" when an instruction or a native function's *)
(* return did.                                                             *)
Driving == mode \in {"unwind", "resumed"}
Returns(context, as) ==
  mode' = IF WaitsIn(context) THEN "unwound" ELSE IF as = "resumed" THEN "late" ELSE "run"

Resume ==
  /\ mode = "run" /\ ~CallbackIsOver /\ Resumes
  /\ mode' = "resumed" /\ pending' = FALSE
  /\ UNCHANGED <<frames, handlers, defers, rustVars>>

AtBoundary == Depth <= boundary
Escape ==
  /\ Driving /\ AtBoundary
  /\ escaped' = TRUE /\ Returns(rust, mode)
  /\ UNCHANGED <<frames, handlers, defers, rust, boundary, pending>>

(* A closure in defer is left to run_loop, with the exception pending.     *)
FlushDefer ==
  /\ Driving /\ ~AtBoundary /\ HasDefers
  /\ LET fs == WithTop([Top EXCEPT !.exc = FALSE, !.flushing = TRUE])
     IN  \/ /\ \/ /\ PushesFrame(fs, Rest) /\ pending' = TRUE /\ Returns(rust, mode)
                  /\ UNCHANGED rust
               \/ frames' = fs /\ UNCHANGED <<rust, pending, mode>>
               \/ /\ frames' = fs /\ UNCHANGED pending
                  /\ EntersNative(Append(rust, [what |-> "unwind", before |-> Depth, as |-> mode]))
            /\ defers' = Rest /\ UNCHANGED <<handlers, boundary, escaped>>
         \/ Fails(fs, Rest)

(* The handler of the frame, if it has one: handlers of frames above it    *)
(* are dropped on the way.                                                 *)
Kept == Max({0} \cup {h \in DOMAIN handlers : handlers[h].frame <= Depth})
Handled == Kept > 0 /\ handlers[Kept].frame = Depth
Flushed == Driving /\ ~AtBoundary /\ ~HasDefers
Catch ==
  /\ Flushed /\ Handled
  /\ handlers' = SubSeq(handlers, 1, Kept - 1)
  /\ LET level == handlers[Kept].level
         kind == Blocks[level].kind
         entry == [part |-> IF kind = "with" THEN "cleanup" ELSE "dispatch",
                   kind |-> kind]
     IN  frames' = WithTop([Top EXCEPT !.exc = TRUE, !.flushing = FALSE,
                              !.blocks = Append(SubSeq(Blocks, 1, level - 1), entry)])
  /\ Returns(rust, mode)
  /\ UNCHANGED <<defers, rustVars, pending>>
PopFrame ==
  /\ Flushed /\ ~Handled
  /\ handlers' = SubSeq(handlers, 1, Kept)
  /\ IF Depth > 1 THEN frames' = Front(frames) /\ UNCHANGED mode
     ELSE frames' = WithTop([Top EXCEPT !.exc = FALSE, !.flushing = FALSE])
          /\ mode' = "uncaught"
  /\ UNCHANGED <<defers, rustVars, pending>>

(* A drive_unwind inside call_value returned to the one that called a      *)
(* native function in defer, which compares the length of call_stack.      *)
OuterDriveGoesOn ==
  /\ mode = "unwound" /\ rust' = Front(rust)
  /\ IF Depth = Last(rust).before THEN mode' = Last(rust).as /\ UNCHANGED pending
     ELSE pending' = TRUE /\ Returns(Front(rust), Last(rust).as)
  /\ UNCHANGED <<frames, handlers, defers, boundary, escaped>>

Over == mode \in {"ended", "uncaught", "failed"}

(* The next input of the REPL: reset_execution_state leaves unwind_boundary*)
(* and escaped_exc alone.                                                  *)
Exec ==
  /\ Over /\ mode' = "run" /\ pending' = FALSE
  /\ frames' = <<NewFrame(0)>> /\ handlers' = <<>> /\ defers' = <<>> /\ rust' = <<>>
  /\ UNCHANGED <<boundary, escaped>>

Next ==
  \/ EnterLoop \/ EndLoop
  \/ \E kind \in Kinds \ {"loop"} : EnterTry(kind)
  \/ EndBody \/ EndExcept \/ Dispatch \/ EndFinally \/ EndCleanup \/ Throw \/ Passes
  \/ Return \/ Break \/ Continue \/ EndInlined
  \/ Defer \/ Call \/ Fail \/ ExecDefer \/ DefersAreDone \/ ReturnFromFrame
  \/ NativeCallsBack \/ CallbackReturns \/ NativeReturns
  \/ Resume \/ Escape \/ FlushDefer \/ Catch \/ PopFrame \/ OuterDriveGoesOn
  \/ Exec

Spec == Init /\ [][Next]_vars
-----------------------------------------------------------------------------
(* Properties.                                                             *)

(* exception_handlers holds exactly the try bodies that are being executed,*)
(* of all frames, innermost last: no break, continue, return, inlined      *)
(* finally, exception, callback or error leaves one behind or takes one    *)
(* that is not its own.                                                    *)
BeingLeft(bs, p) == \E q \in DOMAIN bs : q > p /\ bs[q].part = "inlined" /\ bs[q].keep < p
Executing(i) ==
  {p \in DOMAIN frames[i].blocks :
     frames[i].blocks[p].part = "body" /\ ~BeingLeft(frames[i].blocks, p)}
Inside(h, g) == h.frame > g.frame \/ (h.frame = g.frame /\ h.level > g.level)
HandlersMatchFrames ==
  /\ \A g, h \in DOMAIN handlers : g < h => Inside(handlers[h], handlers[g])
  /\ Range(handlers) = UNION {[frame : {i}, level : Executing(i)] : i \in DOMAIN frames}

(* defer_stack is divided among the frames by defer_stack_base: every entry*)
(* lies in the section of the frame that registered it, so a frame runs    *)
(* all of its own defers, none of another's, and none outlives it.         *)
DefersBelongToFrames ==
  \A d \in DOMAIN defers :
    /\ defers[d] \in DOMAIN frames /\ d > frames[defers[d]].base
    /\ defers[d] < Depth => d <= frames[defers[d] + 1].base

(* An exception that escaped from a callback is still some running native  *)
(* function's to throw: none is lost with the function, and none is left   *)
(* over for a later program to run into.                                   *)
EscapedIsTaken ==
  /\ escaped => Natives # {}
  /\ Natives = {} => boundary = NoBoundary

-----------------------------------------------------------------------------
(* What a comment says and the code does not do.                           *)

(* "An exception must not pass the frame unwind_boundary stands for: the   *)
(* native function is still running, and redirecting its caller's frame    *)
(* would damage the stack": as long as a native function runs, nothing its *)
(* callbacks do, unwinding included, changes the frames it was called from *)
(* or executes an instruction of theirs.                                   *)
Home(n) == SubSeq(frames, 1, rust[n].home)
NativeUnharmed ==
  [][\A n \in Natives \cap DOMAIN rust' : rust'[n] = rust[n] => Home(n)' = Home(n)]_vars
=============================================================================
