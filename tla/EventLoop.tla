------------------------------ MODULE EventLoop ------------------------------
(***************************************************************************)
(* The cooperative scheduler of the mslang VM (VM::event_loop_run) with    *)
(* everything that parks and wakes coroutines: channels, select, futures,  *)
(* go/join/cancel, async calls, timers and the completions that background *)
(* threads post.                                                           *)
(*                                                                         *)
(* A program is any sequence of operations: a running coroutine picks its  *)
(* next one from Ops.  Bytecode is abstracted to what happens when an      *)
(* instruction is executed again: redo[c] is the operation that a parked   *)
(* coroutine re-executes if its instruction pointer was moved back, and    *)
(* Fresh when it goes on after the operation.                              *)
(***************************************************************************)
EXTENDS Integers, Sequences, FiniteSets, Functions

CONSTANTS
  MaxCoroutines,  \* coroutines are numbered in creation order, Main is 1
  MaxFutures,     \* futures are numbered in allocation order
  Channel,        \* the channels the program uses
  Capacity,       \* their capacities, fixed at creation
  MaxSteps,       \* bound: operations one coroutine may start
  Ops,            \* the operations the program may use
  Selects         \* the case sets of its select statements

Coroutine == 1..MaxCoroutines
Future    == 1..MaxFutures
Main      == 1
Nobody    == 0

Case == {"receive", "send"} \X Channel

AllOps == {"await", "go", "call", "sleep", "timeout", "http", "send",
           "receive", "iterate", "select", "poll", "close", "cancel"}

(* AWAIT, SEND, RECEIVE and SELECT look at cancel_requested; FOR_ITER, the *)
(* instruction of `for v in ch`, does not.                                 *)
Safepoints == {"await", "send", "receive", "select", "poll"}

(* Bytes of the instruction that loads the channel operand of RECEIVE:     *)
(* LOAD_GLOBAL takes three, LOAD_LOCAL and LOAD_UPVALUE two.               *)
LoadWidth == {2, 3}

ASSUME ConstantsAssumption ==
  /\ MaxCoroutines \in Nat \ {0}
  /\ MaxFutures \in Nat
  /\ MaxSteps \in Nat
  /\ Capacity \in [Channel -> Nat]
  /\ Ops \subseteq AllOps
  /\ Selects \subseteq SUBSET Case

VARIABLES
  phase,      \* where event_loop_run is in its loop
  outcome,    \* how it returned
  slept,      \* it has just slept until the first deadline
  current,    \* the coroutine inside run_loop
  ready,      \* event_loop.ready_queue
  paused,     \* event_loop.paused, in the order of parking
  redo,       \* per coroutine: the operation to execute again
  kind,       \* per coroutine: how it was created
  resolves,   \* per coroutine: the future it settles when it ends
  done,       \* per coroutine: its JoinHandle's result, error and done
  cancelled,  \* per coroutine: its JoinHandle's cancel_requested
  steps,      \* per coroutine: operations started
  buffer, closed, waitingSenders, waitingReceivers, \* the channels
  sent,       \* per channel: values offered to it so far (values are numbered)
  delivered,  \* per channel: values its receivers were given, in order
  future,     \* FutureState of every future
  timers,     \* event_loop.timers, by deadline
  inflight,   \* inflight_futures
  completions \* external_completions, filled by background threads

loopVars == <<phase, outcome, slept, current>>
queueVars == <<ready, paused>>
taskVars == <<redo, kind, resolves, done, cancelled, steps>>
channelVars == <<buffer, closed, waitingSenders, waitingReceivers, sent, delivered>>
futureVars == <<future, timers, inflight, completions>>
vars == <<loopVars, queueVars, taskVars, channelVars, futureVars>>

-----------------------------------------------------------------------------
(* Operations that can be re-executed.                                     *)
Fresh         == [op |-> "fresh"]
Wild          == [op |-> "wild"]      \* resumed inside another instruction
Ended         == [op |-> "ended"]
AwaitFuture(f) == [op |-> "await", on |-> "future", id |-> f]
AwaitJoin(h)  == [op |-> "await", on |-> "handle", id |-> h]
SendOp(ch)    == [op |-> "send", ch |-> ch]
ReceiveOp(ch, w) == [op |-> "receive", ch |-> ch, width |-> w]
IterateOp(ch) == [op |-> "iterate", ch |-> ch]
SelectOp(cs)  == [op |-> "select", cases |-> cs]

Operation ==
  {Fresh, Wild, Ended}
    \cup [op : {"await"}, on : {"future"}, id : Future]
    \cup [op : {"await"}, on : {"handle"}, id : Coroutine]
    \cup [op : {"send", "iterate"}, ch : Channel]
    \cup [op : {"receive"}, ch : Channel, width : LoadWidth]
    \cup [op : {"select"}, cases : SUBSET Case]

Kind == {"unborn", "main", "go", "async", "timeout"}
FutureState == {"none", "pending", "resolved", "rejected"}
Timer == [future : Future, sub : Coroutine \cup {Nobody}]
Offer == [co : Coroutine, val : Nat]

LoopType ==
  /\ phase \in {"timers", "drain", "pop", "run", "exited"}
  /\ outcome \in {"none", "ok", "error", "deadlock"}
  /\ slept \in BOOLEAN
  /\ current \in Coroutine \cup {Nobody}
QueueType ==
  /\ ready \in Seq(Coroutine)
  /\ paused \in Seq(Coroutine)
TaskType ==
  /\ redo \in [Coroutine -> Operation]
  /\ kind \in [Coroutine -> Kind]
  /\ resolves \in [Coroutine -> Future \cup {Nobody}]
  /\ done \in [Coroutine -> {"no", "result", "error"}]
  /\ cancelled \in [Coroutine -> BOOLEAN]
  /\ steps \in [Coroutine -> Nat]
ChannelType ==
  /\ buffer \in [Channel -> Seq(Nat)]
  /\ closed \in [Channel -> BOOLEAN]
  /\ waitingSenders \in [Channel -> Seq(Offer)]
  /\ waitingReceivers \in [Channel -> Seq(Coroutine)]
  /\ sent \in [Channel -> Nat]
  /\ delivered \in [Channel -> Seq(Nat)]
FutureType ==
  /\ future \in [Future -> FutureState]
  /\ timers \in Seq(Timer)
  /\ inflight \subseteq Future
  /\ completions \in Seq(Future)
TypeOK == LoopType /\ QueueType /\ TaskType /\ ChannelType /\ FutureType

Init ==
  /\ phase = "timers" /\ outcome = "none" /\ slept = FALSE
  /\ current = Nobody
  /\ ready = <<Main>> /\ paused = <<>>
  /\ redo = [c \in Coroutine |-> Fresh]
  /\ kind = [c \in Coroutine |-> IF c = Main THEN "main" ELSE "unborn"]
  /\ resolves = [c \in Coroutine |-> Nobody]
  /\ done = [c \in Coroutine |-> "no"]
  /\ cancelled = [c \in Coroutine |-> FALSE]
  /\ steps = [c \in Coroutine |-> 0]
  /\ buffer = [ch \in Channel |-> <<>>]
  /\ closed = [ch \in Channel |-> FALSE]
  /\ waitingSenders = [ch \in Channel |-> <<>>]
  /\ waitingReceivers = [ch \in Channel |-> <<>>]
  /\ sent = [ch \in Channel |-> 0]
  /\ delivered = [ch \in Channel |-> <<>>]
  /\ future = [f \in Future |-> "none"]
  /\ timers = <<>> /\ inflight = {} /\ completions = <<>>

-----------------------------------------------------------------------------
(* Helpers.                                                                *)
(* The elements of S in the order the duplicate-free sequence s has them:  *)
(* a set with that one sequence.                                           *)
InOrderOf(s, S) ==
  {t \in [1..Cardinality(S) -> S] :
     \A i, j \in DOMAIN t :
       i < j => \E a, b \in DOMAIN s : a < b /\ s[a] = t[i] /\ s[b] = t[j]}

(* Move paused coroutines to the ready queue: those of `first`, then the   *)
(* others of S in the order they parked.                                   *)
WakeAfter_InFront(first, S) ==
  \E woken \in InOrderOf(paused, S \ Range(first)),
     still \in InOrderOf(paused, Range(paused) \ (S \cup Range(first))) :
    ready' = first \o woken \o ready /\ paused' = still
WakeAfter(first, S) ==
  \E woken \in InOrderOf(paused, S \ Range(first)),
     still \in InOrderOf(paused, Range(paused) \ (S \cup Range(first))) :
    /\ ready' = ready \o first \o woken
    /\ paused' = still
Wake(S) == WakeAfter(<<>>, S)

WaitersOfFuture_One(f) ==
  {c \in Range(paused) : redo[c] = AwaitFuture(f) /\ \A d \in Range(paused) : redo[d] = redo[c] => c <= d}
WaitersOfFuture(f) == {c \in Range(paused) : redo[c] = AwaitFuture(f)}
WaitersOfHandle(h) == {c \in Range(paused) : redo[c] = AwaitJoin(h)}

Resume(S) == [c \in Coroutine |-> IF c \in S THEN Fresh ELSE redo[c]]

NewCoroutine(c) ==
  kind[c] = "unborn" /\ \A d \in Coroutine : d < c => kind[d] # "unborn"
NewFuture(f) ==
  future[f] = "none" /\ \A g \in Future : g < f => future[g] # "none"

(* The running coroutine c reaches operation o: the one it has to execute  *)
(* again, or one of its choice.                                            *)
Free(c) == redo[c].op \in {"fresh", "wild"}
Starts(c, o) ==
  /\ phase = "run" /\ current = c
  /\ \/ redo[c] = o
     \/ Free(c) /\ steps[c] < MaxSteps /\ o.op \in Ops
Calls(c, name) ==
  /\ phase = "run" /\ current = c
  /\ Free(c) /\ steps[c] < MaxSteps /\ name \in Ops
Counted(c) == IF Free(c) THEN [steps EXCEPT ![c] = @ + 1] ELSE steps

(* cancel_requested of the JoinHandle of c is set; only go and timeout     *)
(* coroutines have one.                                                    *)
MustCancel(c) == kind[c] \in {"go", "timeout"} /\ cancelled[c]

-----------------------------------------------------------------------------
(* The end of a coroutine.                                                 *)
Unsettled_Assumed(f) == TRUE
Unsettled(f) == future[f] = "pending"

Settle_Dropped(c, state) == UNCHANGED <<future, queueVars>>
Settle(c, state) ==
  LET f == resolves[c]
  IN  IF f # Nobody /\ Unsettled(f)
        THEN /\ future' = [future EXCEPT ![f] = state]
             /\ Wake(WaitersOfFuture(f))
        ELSE UNCHANGED <<future, queueVars>>

(* A go coroutine fills its JoinHandle; the JoinHandle of a timeout        *)
(* coroutine is known to its timer only.                                   *)
FillHandle(c, res) ==
  /\ done' = [done EXCEPT ![c] = res]
  /\ Wake(WaitersOfHandle(c))

Returns(c) ==
  /\ current' = Nobody
  /\ redo' = [redo EXCEPT ![c] = Ended]
  /\ UNCHANGED <<slept, kind, resolves, cancelled, steps, channelVars, timers, inflight, completions>>

EndOk(c) ==
  /\ Returns(c) /\ phase' = "timers" /\ UNCHANGED outcome
  /\ CASE kind[c] = "main"    -> UNCHANGED <<queueVars, done, future>>
       [] kind[c] = "go"      -> FillHandle(c, "result") /\ UNCHANGED future
       [] kind[c] = "timeout" -> Settle(c, "resolved") /\ done' = [done EXCEPT ![c] = "result"]
       [] OTHER               -> Settle(c, "resolved") /\ UNCHANGED done

(* An uncaught exception: of the main coroutine it ends the program, of a  *)
(* coroutine with a future it rejects that future and fills no handle.     *)
EndError(c) ==
  /\ Returns(c)
  /\ IF kind[c] = "main"
       THEN phase' = "exited" /\ outcome' = "error" /\ UNCHANGED <<queueVars, done, future>>
       ELSE /\ phase' = "timers" /\ UNCHANGED outcome
            /\ IF kind[c] = "go"
                 THEN FillHandle(c, "error") /\ UNCHANGED future
                 ELSE Settle(c, "rejected") /\ UNCHANGED done

Finish(c) ==
  /\ phase = "run" /\ current = c /\ Free(c)
  /\ EndOk(c) \/ EndError(c)

-----------------------------------------------------------------------------
(* How an operation ends: c goes on, throws, or gives up the processor.    *)
GoesOn(c, S) ==
  /\ redo' = Resume({c} \cup S)
  /\ steps' = Counted(c)
  /\ UNCHANGED <<loopVars, done>>

Passes(c) ==
  /\ GoesOn(c, {})
  /\ UNCHANGED <<queueVars, kind, resolves, cancelled, channelVars, futureVars>>

(* An exception ends the coroutine unless the program catches it.          *)
Throws(c) == Passes(c) \/ EndError(c)

Yields(c, o) ==
  /\ current' = Nobody /\ phase' = "timers"
  /\ redo' = [redo EXCEPT ![c] = o]
  /\ steps' = Counted(c)
  /\ UNCHANGED <<outcome, slept, kind, resolves, done, cancelled, futureVars>>

Parks(c, o) ==
  /\ Yields(c, o)
  /\ paused' = Append(paused, c)
  /\ UNCHANGED <<ready, channelVars>>

-----------------------------------------------------------------------------
(* Channels.                                                               *)
HasValue(ch) == buffer[ch] # <<>> \/ waitingSenders[ch] # <<>>
HasRoom_OneMore(ch) == Len(buffer[ch]) <= Capacity[ch]
HasRoom(ch)  == Len(buffer[ch]) < Capacity[ch]

(* The values in the channel with that of the sender that waits longest.   *)
Values_SenderFirst(ch) ==
  IF waitingSenders[ch] = <<>> THEN buffer[ch]
  ELSE <<Head(waitingSenders[ch]).val>> \o buffer[ch]
Values(ch) ==
  IF waitingSenders[ch] = <<>> THEN buffer[ch]
  ELSE Append(buffer[ch], Head(waitingSenders[ch]).val)

(* c takes the first value.  A sender that waits for room gets it, or, if  *)
(* there is no buffer to take from, hands its value over.                  *)
Take(c, ch) ==
  LET first == Head(waitingSenders[ch])
  IN  /\ delivered' = [delivered EXCEPT ![ch] = Append(@, Head(Values(ch)))]
      /\ buffer' = [buffer EXCEPT ![ch] = Tail(Values(ch))]
      /\ IF waitingSenders[ch] = <<>>
           THEN GoesOn(c, {}) /\ UNCHANGED <<waitingSenders, ready>>
           ELSE /\ GoesOn(c, {first.co})
                /\ waitingSenders' = [waitingSenders EXCEPT ![ch] = Tail(@)]
                /\ ready' = Append(ready, first.co)
      /\ UNCHANGED <<paused, kind, resolves, cancelled, closed, waitingReceivers, sent, futureVars>>

(* c gives its value to the receiver that has waited longest.              *)
Give(c, ch) ==
  LET r == Head(waitingReceivers[ch])
  IN  /\ GoesOn(c, {r})
      /\ waitingReceivers' = [waitingReceivers EXCEPT ![ch] = Tail(@)]
      /\ ready' = Append(ready, r)
      /\ sent' = [sent EXCEPT ![ch] = @ + 1]
      /\ delivered' = [delivered EXCEPT ![ch] = Append(@, sent[ch] + 1)]
      /\ UNCHANGED <<paused, kind, resolves, cancelled, buffer, closed, waitingSenders, futureVars>>

Store(c, ch) ==
  /\ GoesOn(c, {})
  /\ sent' = [sent EXCEPT ![ch] = @ + 1]
  /\ buffer' = [buffer EXCEPT ![ch] = Append(@, sent[ch] + 1)]
  /\ UNCHANGED <<queueVars, kind, resolves, cancelled, closed, waitingSenders, waitingReceivers,
                 delivered, futureVars>>

WaitsToSend(c, ch) ==
  /\ Yields(c, SendOp(ch))
  /\ sent' = [sent EXCEPT ![ch] = @ + 1]
  /\ waitingSenders' =
       [waitingSenders EXCEPT ![ch] = Append(@, [co |-> c, val |-> sent[ch] + 1])]
  /\ UNCHANGED <<queueVars, buffer, closed, waitingReceivers, delivered>>

WaitsToReceive(c, ch, o) ==
  /\ Yields(c, o)
  /\ waitingReceivers' = [waitingReceivers EXCEPT ![ch] = Append(@, c)]
  /\ UNCHANGED <<queueVars, buffer, closed, waitingSenders, sent, delivered>>

(* SEND.                                                                   *)
Send(c, ch) ==
  /\ Starts(c, SendOp(ch)) /\ ~MustCancel(c)
  /\ \/ closed[ch] /\ Throws(c)
     \/ ~closed[ch] /\ waitingReceivers[ch] # <<>> /\ Give(c, ch)
     \/ ~closed[ch] /\ waitingReceivers[ch] = <<>> /\ HasRoom(ch) /\ Store(c, ch)
     \/ ~closed[ch] /\ waitingReceivers[ch] = <<>> /\ ~HasRoom(ch) /\ WaitsToSend(c, ch)

(* RECEIVE; nil from a closed and empty channel.                           *)
Receive(c, ch, width) ==
  /\ Starts(c, ReceiveOp(ch, width)) /\ ~MustCancel(c)
  /\ \/ HasValue(ch) /\ Take(c, ch)
     \/ ~HasValue(ch) /\ closed[ch] /\ Passes(c)
     \/ ~HasValue(ch) /\ ~closed[ch] /\ WaitsToReceive(c, ch, ReceiveOp(ch, width))

(* FOR_ITER on a channel; leaves the loop when it is closed and drained.   *)
Iterate(c, ch) ==
  /\ Starts(c, IterateOp(ch))
  /\ \/ buffer[ch] # <<>> /\ Take(c, ch)
     \/ buffer[ch] = <<>> /\ closed[ch] /\ Passes(c)
     \/ buffer[ch] = <<>> /\ ~closed[ch] /\ waitingSenders[ch] # <<>> /\ Take(c, ch)
     \/ ~HasValue(ch) /\ ~closed[ch] /\ WaitsToReceive(c, ch, IterateOp(ch))

IsReady(case) ==
  LET ch == case[2]
  IN  IF case[1] = "receive"
        THEN HasValue(ch) \/ closed[ch]
        ELSE ~closed[ch] /\ (waitingReceivers[ch] # <<>> \/ HasRoom(ch))

ReadyCases(cs) == {k \in cs : IsReady(k)}

RunCase(c, k) ==
  LET ch == k[2]
  IN  IF k[1] = "receive"
        THEN IF HasValue(ch) THEN Take(c, ch) ELSE Passes(c)
        ELSE IF waitingReceivers[ch] # <<>> THEN Give(c, ch) ELSE Store(c, ch)

(* SELECT without and with a default.                                      *)
Select(c, cs) ==
  /\ Starts(c, SelectOp(cs)) /\ ~MustCancel(c)
  /\ \/ \E k \in ReadyCases(cs) : RunCase(c, k)
     \/ ReadyCases(cs) = {} /\ Parks(c, SelectOp(cs))

Poll(c, cs) ==
  /\ Calls(c, "poll") /\ ~MustCancel(c)
  /\ \/ \E k \in ReadyCases(cs) : RunCase(c, k)
     \/ ReadyCases(cs) = {} /\ Passes(c)

(* What close() leaves a waiting receiver with nothing to receive: its     *)
(* instruction pointer goes back four bytes, the length of FOR_ITER.       *)
Rewound(o) ==
  IF o.op = "receive" /\ o.width + 1 # 4 THEN Wild ELSE o

(* The coroutines close() makes ready, in that order.                      *)
Released_ReceiversOnly(ch) == waitingReceivers[ch]
Released(ch) ==
  waitingReceivers[ch] \o [i \in DOMAIN waitingSenders[ch] |-> waitingSenders[ch][i].co]

Close(c, ch) ==
  LET R == waitingReceivers[ch]
      B == buffer[ch]
      n == IF Len(R) < Len(B) THEN Len(R) ELSE Len(B)
      served == {R[i] : i \in 1..n}
  IN  /\ Calls(c, "close")
      /\ closed' = [closed EXCEPT ![ch] = TRUE]
      /\ buffer' = [buffer EXCEPT ![ch] = SubSeq(B, n + 1, Len(B))]
      /\ delivered' = [delivered EXCEPT ![ch] = @ \o SubSeq(B, 1, n)]
      /\ waitingReceivers' = [waitingReceivers EXCEPT ![ch] = <<>>]
      /\ waitingSenders' = [waitingSenders EXCEPT ![ch] = <<>>]
      /\ ready' = ready \o Released(ch)
      /\ redo' = [d \in Coroutine |->
                    IF d = c \/ d \in served THEN Fresh
                    ELSE IF d \in Range(R) THEN Rewound(redo[d]) ELSE redo[d]]
      /\ steps' = Counted(c)
      /\ UNCHANGED <<loopVars, paused, kind, resolves, done, cancelled, sent, futureVars>>

-----------------------------------------------------------------------------
(* Futures, handles and the operations that create coroutines.             *)
Await(c, f) ==
  /\ Starts(c, AwaitFuture(f)) /\ ~MustCancel(c)
  /\ \/ future[f] = "resolved" /\ Passes(c)
     \/ future[f] = "rejected" /\ Throws(c)
     \/ future[f] = "pending" /\ Parks(c, AwaitFuture(f))

Join(c, h) ==
  /\ Starts(c, AwaitJoin(h)) /\ ~MustCancel(c) /\ kind[h] = "go"
  /\ \/ done[h] = "result" /\ Passes(c)
     \/ done[h] = "error" /\ Throws(c)
     \/ done[h] = "no" /\ Parks(c, AwaitJoin(h))

(* check_cancel_safepoint: every safepoint throws once cancel is requested *)
(* and the flag is never cleared.                                          *)
CancelledAtSafepoint(c) ==
  /\ phase = "run" /\ current = c /\ MustCancel(c)
  /\ \/ redo[c].op \in Safepoints
     \/ Free(c) /\ steps[c] < MaxSteps /\ Ops \cap Safepoints # {}
  /\ Throws(c)

Born(d, k) == kind' = [kind EXCEPT ![d] = k] /\ ready' = Append(ready, d)
Pending(f) == future' = [future EXCEPT ![f] = "pending"]
Creates(c) == GoesOn(c, {}) /\ UNCHANGED <<paused, cancelled, channelVars, completions>>

(* A timer is filed by its deadline, which may fall anywhere.              *)
FileTimer(t) ==
  \E i \in 0..Len(timers) :
    timers' = SubSeq(timers, 1, i) \o <<t>> \o SubSeq(timers, i + 1, Len(timers))

Go(c, d) ==
  /\ Calls(c, "go") /\ NewCoroutine(d)
  /\ Born(d, "go")
  /\ Creates(c) /\ UNCHANGED <<resolves, future, timers, inflight>>

(* Calling an async fn.                                                    *)
CallAsync(c, d, f) ==
  /\ Calls(c, "call") /\ NewCoroutine(d) /\ NewFuture(f)
  /\ Born(d, "async") /\ Pending(f) /\ resolves' = [resolves EXCEPT ![d] = f]
  /\ Creates(c) /\ UNCHANGED <<timers, inflight>>

Sleep(c, f) ==
  /\ Calls(c, "sleep") /\ NewFuture(f)
  /\ Pending(f) /\ FileTimer([future |-> f, sub |-> Nobody])
  /\ Creates(c) /\ UNCHANGED <<ready, kind, resolves, inflight>>

Timeout(c, d, f) ==
  /\ Calls(c, "timeout") /\ NewCoroutine(d) /\ NewFuture(f)
  /\ Born(d, "timeout") /\ Pending(f) /\ resolves' = [resolves EXCEPT ![d] = f]
  /\ FileTimer([future |-> f, sub |-> d])
  /\ Creates(c) /\ UNCHANGED inflight

(* http.get and the like: a background thread will post the completion.    *)
Http(c, f) ==
  /\ Calls(c, "http") /\ NewFuture(f)
  /\ Pending(f) /\ inflight' = inflight \cup {f}
  /\ Creates(c) /\ UNCHANGED <<ready, kind, resolves, timers>>

(* async.sleep, async.timeout and http calls with bad arguments return a   *)
(* future that is rejected from the start.                                 *)
InvalidCall(c, f) ==
  /\ \E name \in {"sleep", "timeout", "http"} : Calls(c, name)
  /\ NewFuture(f) /\ future' = [future EXCEPT ![f] = "rejected"]
  /\ Creates(c) /\ UNCHANGED <<ready, kind, resolves, timers, inflight>>

(* handle.cancel() only sets the flag.                                     *)
Cancel(c, h) ==
  /\ Calls(c, "cancel") /\ kind[h] = "go"
  /\ cancelled' = [cancelled EXCEPT ![h] = TRUE]
  /\ GoesOn(c, {})
  /\ UNCHANGED <<queueVars, kind, resolves, channelVars, futureVars>>

Execute(c) ==
  \/ Finish(c)
  \/ CancelledAtSafepoint(c)
  \/ \E ch \in Channel :
       \/ Send(c, ch)
       \/ \E w \in LoadWidth : Receive(c, ch, w)
       \/ Iterate(c, ch)
       \/ Close(c, ch)
  \/ \E cs \in Selects : Select(c, cs) \/ Poll(c, cs)
  \/ \E h \in Coroutine : Join(c, h) \/ Cancel(c, h) \/ Go(c, h)
  \/ \E f \in Future :
       \/ Await(c, f)
       \/ Sleep(c, f)
       \/ Http(c, f)
       \/ InvalidCall(c, f)
       \/ \E d \in Coroutine : CallAsync(c, d, f) \/ Timeout(c, d, f)

-----------------------------------------------------------------------------
(* The loop.  It goes on while some coroutine is ready or paused; one that *)
(* waits in a channel is neither.                                          *)
KeepsRunning == ready # <<>> \/ paused # <<>>

LoopStep(next) ==
  /\ phase' = next
  /\ UNCHANGED <<outcome, current, taskVars, channelVars>>

LoopReturns(result) ==
  /\ phase' = "exited" /\ outcome' = result
  /\ UNCHANGED <<slept, current, queueVars, taskVars, channelVars, futureVars>>

ReturnOk == phase = "timers" /\ ~KeepsRunning /\ LoopReturns("ok")

(* check_timers: every timer that is due, the earliest first.  The loop    *)
(* cannot tell how late it is, except right after sleeping.  A timer of    *)
(* sleep resolves its future; one of timeout rejects it, cancels its       *)
(* coroutine and wakes that coroutine if it is paused.                     *)
SubToWake_Anyway(t) == <<t.sub>>
SubToWake(t) == IF t.sub \in Range(paused) THEN <<t.sub>> ELSE <<>>

FireTimer ==
  /\ phase = "timers" /\ KeepsRunning /\ timers # <<>>
  /\ LET t == Head(timers)
     IN  /\ timers' = Tail(timers)
         /\ IF Unsettled(t.future)
              THEN /\ future' = [future EXCEPT ![t.future] =
                                   IF t.sub = Nobody THEN "resolved" ELSE "rejected"]
                   /\ cancelled' = [c \in Coroutine |-> cancelled[c] \/ c = t.sub]
                   /\ WakeAfter(SubToWake(t), WaitersOfFuture(t.future))
              ELSE UNCHANGED <<future, cancelled, queueVars>>
  /\ slept' = FALSE
  /\ UNCHANGED <<phase, outcome, current, redo, kind, resolves, done, steps, channelVars,
                 inflight, completions>>

TimersDone ==
  /\ phase = "timers" /\ KeepsRunning /\ ~slept
  /\ LoopStep("drain")
  /\ UNCHANGED <<slept, queueVars, futureVars>>

(* drain_external_completions.                                             *)
Drain ==
  /\ phase = "drain" /\ completions # <<>>
  /\ LET f == Head(completions)
     IN  /\ completions' = Tail(completions)
         /\ inflight' = inflight \ {f}
         /\ IF f \in inflight /\ Unsettled(f)
              THEN /\ \E s \in {"resolved", "rejected"} : future' = [future EXCEPT ![f] = s]
                   /\ Wake(WaitersOfFuture(f))
              ELSE UNCHANGED <<future, queueVars>>
  /\ UNCHANGED <<loopVars, taskVars, channelVars, timers>>

Drained ==
  /\ phase = "drain" /\ completions = <<>>
  /\ LoopStep("pop")
  /\ UNCHANGED <<slept, queueVars, futureVars>>

PopReady ==
  /\ phase = "pop" /\ ready # <<>>
  /\ current' = Head(ready) /\ ready' = Tail(ready) /\ phase' = "run"
  /\ UNCHANGED <<outcome, slept, paused, taskVars, channelVars, futureVars>>

(* try_wake_selects, reached only when nothing is ready.                   *)
WakeableSelects_All == {c \in Range(paused) : redo[c].op = "select"}
WakeableSelects ==
  {c \in Range(paused) : redo[c].op = "select" /\ ReadyCases(redo[c].cases) # {}}

TryWakeSelects ==
  /\ phase = "pop" /\ ready = <<>> /\ WakeableSelects # {}
  /\ LoopStep("timers") /\ Wake(WakeableSelects)
  /\ UNCHANGED <<slept, futureVars>>

Idle == phase = "pop" /\ ready = <<>> /\ WakeableSelects = {}
OnlyEmptySelects == \A c \in Range(paused) : redo[c] = SelectOp({})

ReturnBlocked == Idle /\ OnlyEmptySelects /\ LoopReturns("ok")

SleepUntilDeadline ==
  /\ Idle /\ ~OnlyEmptySelects /\ timers # <<>>
  /\ slept' = TRUE
  /\ LoopStep("timers") /\ UNCHANGED <<queueVars, futureVars>>

WaitForThreads ==
  /\ Idle /\ ~OnlyEmptySelects /\ timers = <<>> /\ inflight # {}
  /\ LoopStep("timers") /\ UNCHANGED <<slept, queueVars, futureVars>>

ReturnDeadlock_IgnoresThreads == Idle /\ ~OnlyEmptySelects /\ timers = <<>> /\ LoopReturns("deadlock")
ReturnDeadlock ==
  /\ Idle /\ ~OnlyEmptySelects /\ timers = <<>> /\ inflight = {}
  /\ LoopReturns("deadlock")

Loop ==
  \/ ReturnOk \/ FireTimer \/ TimersDone \/ Drain \/ Drained \/ PopReady
  \/ TryWakeSelects \/ ReturnBlocked \/ SleepUntilDeadline \/ WaitForThreads
  \/ ReturnDeadlock

(* A background thread posts the completion of its request.                *)
PostCompletion(f) ==
  /\ phase # "exited" /\ f \in inflight \ Range(completions)
  /\ completions' = Append(completions, f)
  /\ UNCHANGED <<loopVars, queueVars, taskVars, channelVars, future, timers, inflight>>

Returned == phase = "exited" /\ UNCHANGED vars

Next ==
  \/ \E c \in Coroutine : Execute(c)
  \/ Loop
  \/ \E f \in Future : PostCompletion(f)
  \/ Returned

Spec == Init /\ [][Next]_vars

(* The VM thread keeps running, and every request is answered or times out *)
(* in its own thread (http workers have a deadline and catch panics).      *)
FairSpec ==
  /\ Spec
  /\ WF_vars(Loop \/ \E c \in Coroutine : Execute(c))
  /\ \A f \in Future : WF_vars(PostCompletion(f))
-----------------------------------------------------------------------------
(* Properties.                                                             *)

Live(c) == kind[c] # "unborn" /\ redo[c] # Ended

Positions(s, c) == {i \in DOMAIN s : s[i] = c}
SendersOf(ch) == [i \in DOMAIN waitingSenders[ch] |-> waitingSenders[ch][i].co]
Places(c) ==
  (IF current = c THEN {<<"current">>} ELSE {})
    \cup {<<"ready", i>> : i \in Positions(ready, c)}
    \cup {<<"paused", i>> : i \in Positions(paused, c)}
    \cup (UNION {{<<"sender", ch, i>> : i \in Positions(SendersOf(ch), c)} : ch \in Channel})
    \cup (UNION {{<<"receiver", ch, i>> : i \in Positions(waitingReceivers[ch], c)} : ch \in Channel})

(* A coroutine is moved, not copied, between run_loop, the ready queue,    *)
(* the paused list and the two queues of a channel: until it ends it is in *)
(* exactly one of them, once, and afterwards in none.                      *)
ExactlyOnePlace ==
  \A c \in Coroutine : Cardinality(Places(c)) = IF Live(c) THEN 1 ELSE 0

(* A channel never holds back a value from a waiting receiver nor room     *)
(* from a waiting sender, is never overfilled, and nobody waits in a       *)
(* closed one (SEND, RECEIVE, FOR_ITER, SELECT and close() together).      *)
Disciplined(ch) ==
  /\ Len(buffer[ch]) <= Capacity[ch]
  /\ waitingReceivers[ch] # <<>> =>
       buffer[ch] = <<>> /\ waitingSenders[ch] = <<>> /\ ~closed[ch]
  /\ waitingSenders[ch] # <<>> => Len(buffer[ch]) = Capacity[ch] /\ ~closed[ch]
ChannelDiscipline == \A ch \in Channel : Disciplined(ch)

(* No coroutine stays paused on a future that is settled or on a handle    *)
(* that is done: whoever settles it wakes every waiter.                    *)
NoLostWakeup ==
  \A c \in Range(paused) :
    /\ redo[c].op \in {"await", "select"}
    /\ \A f \in Future : redo[c] = AwaitFuture(f) => future[f] = "pending"
    /\ \A h \in Coroutine : redo[c] = AwaitJoin(h) => kind[h] = "go" /\ done[h] = "no"

(* When event_loop_run gives up (it returns, or reports a deadlock) nobody *)
(* it leaves behind could go on.  Whoever has not ended is still in a place*)
(* where it can be found, and what it waits for has not come: no room and  *)
(* no receiver, no value and no sender, no case of its select, no answer,  *)
(* nor a timer or a request that would bring one (event_loop_run counts    *)
(* only those that are ready or paused, so others may be left in channels; *)
(* close() and every hand-over must have forgotten none of these).         *)
Scheduled(f) == f \in inflight \/ \E i \in DOMAIN timers : timers[i].future = f
Stuck(o) ==
  \/ o.op = "await" /\ o.on = "future" /\ future[o.id] = "pending" /\ ~Scheduled(o.id)
  \/ o.op = "await" /\ o.on = "handle" /\ done[o.id] = "no"
  \/ o.op = "select" /\ ReadyCases(o.cases) = {}
StuckIn(ch, c) ==
  /\ ~closed[ch]
  /\ \/ c \in Range(SendersOf(ch)) /\ ~HasRoom(ch) /\ waitingReceivers[ch] = <<>>
     \/ c \in Range(waitingReceivers[ch]) /\ ~HasValue(ch)
LeavesOnlyTheStuck ==
  outcome \in {"ok", "deadlock"} =>
    \A c \in Coroutine : Live(c) =>
      \/ c \in Range(paused) /\ Stuck(redo[c])
      \/ \E ch \in Channel : StuckIn(ch, c)

(* A pending future always has somebody left to settle it: a live          *)
(* coroutine, a timer or a request in flight; and a handle is open exactly *)
(* as long as its go coroutine lives.                                      *)
SomeoneWillSettle ==
  /\ \A f \in Future : future[f] = "pending" =>
       \/ f \in inflight
       \/ \E i \in DOMAIN timers : timers[i].future = f
       \/ \E c \in Coroutine : resolves[c] = f /\ Live(c)
  /\ \A c \in Coroutine : kind[c] = "go" => (done[c] = "no" <=> redo[c] # Ended)

(* A timer, the coroutine it races with and a background thread may all    *)
(* try to settle a future: the first wins for good.  The same for handles. *)
SettlesOnce ==
  [][/\ \A f \in Future :
          future[f] \in {"resolved", "rejected"} => future'[f] = future[f]
     /\ \A c \in Coroutine : done[c] # "no" => done'[c] = done[c]]_vars

(* Ready coroutines run in the order they became ready: nothing overtakes  *)
(* inside the ready queue and only its head leaves it.                     *)
ReadyIsFifo ==
  [][\E front \in {ready} \cup (IF ready = <<>> THEN {} ELSE {Tail(ready)}) :
       /\ Len(front) <= Len(ready')
       /\ SubSeq(ready', 1, Len(front)) = front]_vars

(* Every channel is a FIFO channel: its pending values are those in its    *)
(* buffer and those its waiting senders hold.                              *)
Fifo(ch) ==
  INSTANCE FifoChannel WITH
    Room <- Capacity[ch], offers <- sent[ch], received <- delivered[ch], open <- ~closed[ch],
    pending <- buffer[ch] \o [i \in DOMAIN waitingSenders[ch] |-> waitingSenders[ch][i].val]
ChannelsAreFifo ==
  /\ \A ch \in Channel : Fifo(ch)!Init
  /\ [][\A ch \in Channel : Fifo(ch)!Next \/ UNCHANGED Fifo(ch)!vars]_vars

(* Under FairSpec event_loop_run returns: with a program of bounded length *)
(* the wake-ups of selects and the waiting for timers and threads never    *)
(* turn into an endless loop.                                              *)
EventuallyReturns == <>(phase = "exited")

(* Under FairSpec a coroutine that awaits a timer or a request is resumed, *)
(* unless an uncaught exception of the main coroutine ends the program:    *)
(* the loop does not take it for deadlocked and does not forget it.        *)
ScheduledWakes ==
  \A c \in Coroutine, f \in Future :
    (c \in Range(paused) /\ redo[c] = AwaitFuture(f) /\ Scheduled(f))
      ~> (c \notin Range(paused) \/ outcome = "error")

-----------------------------------------------------------------------------
(* What the documentation says and the code does not do.                   *)

(* "Receiving from a closed, empty channel returns nil": close() must let  *)
(* a waiting RECEIVE execute again, not some other instruction.            *)
ResumesAtAnInstruction == \A c \in Coroutine : redo[c] # Wild
=============================================================================
